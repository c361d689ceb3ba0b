# A TLA+ model of the NetBSD/avr32 kernel

This directory holds TLA+ models of parts of the NetBSD kernel with the AVR32
port, the TLC configurations that check them and proofs checked by TLAPS.
Paths below are relative to the root of the kernel sources (`src/src/` in
`PROJECT.json`); `kern/` is `sys/kern/` and `avr32/` is
`sys/arch/avr32/avr32/`.

The tree has 5,800 files. Most of them (drivers, network stacks, file systems,
compatibility layers, firmware images) come unchanged from NetBSD. The project
models what the rest stands on and what a test hardly reaches: the locks and
the ways in which LWPs wait for each other, the deferred execution of work, the
tables that several LWPs share (descriptors, vnodes, buffers, records), and the
code that is the port's own: memory management, traps, caches and the clock.

## 1. Inventory

| Component | State it keeps | What is hard | What makes it correct | Module |
|---|---|---|---|---|
| reader/writer locks, `kern/kern_rwlock.c` | the lock word | compare-and-swap races of holders and waiters; direct hand-over; starvation | exclusion; the word counts the holds; no sleeper is forgotten; readers and writers are served | `RWLock` |
| adaptive mutexes, `kern/kern_mutex.c` | the owner word | a release that does not use an atomic operation races with the waiters bit | exclusion, no lost wake-up | `Mutex` |
| turnstiles, `kern/kern_turnstile.c`, `kern_sleepq.c` | turnstiles, sorted queues, lent priorities | the structure moves from LWP to LWP; walk along a chain of owners that changes | an LWP that runs has one turnstile; lenders and queues exact | `Turnstile` |
| condition variables, `kern/kern_condvar.c` | sleep queue, timeout | signal against timeout against interruption, unlocked look at the queue | no lost wake-up; a timeout ends its own sleep only | `CondVar` |
| kernel lock, `kern/kern_lock.c` | the lock, counts per CPU and LWP, `ci_biglock_wanted` | recursion, interrupt handlers, the cycle with mutexes | counts agree, wanted flag exact | `KernelLock` |
| cross calls, `kern/subr_xcall.c` | one slot, three counters | one condition variable for two kinds of waiters; the slot is copied by CPUs one after the other | every call reaches every CPU; who waits has a waker | `XCall` |
| callouts, `kern/kern_timeout.c` | the callout's flags and CPU; the wheel | halting against running; times that wrap | halted means quiet; due in time, never early | `Callout`, `CalloutWheel` |
| work queues, `kern/subr_workqueue.c` | intrusive lists | a callback may enqueue its work again; destruction while workers run | first in, first out, nothing lost; exit comes last | `WorkQueue` |
| run-once, `kern/subr_once.c` | status and result | unlocked fast path; one condition variable for all | exactly once | `Once` |
| soft interrupts, `kern/kern_softint.c` | queues, flags, pending levels | a level is drained by its LWP or by any LWP on its way to user mode; handlers sleep | one executor; nothing forgotten | `SoftInt` |
| time counters, `kern/kern_tc.c` | ring of time hands, list of counters | readers without a lock | the time read is the time | `TimeCounter` |
| file descriptors, `kern/kern_descrip.c` | slots, reference counts | look-up without a lock against close | counts exact; a closer waits for the users | `FileDesc` |
| advisory locks, `kern/vfs_lockf.c` | list of ranges, lists of sleepers | splitting and joining; sleepers that must move; deadlock search | bytes exact, no circle | `LockF` |
| select and poll, `kern/sys_select.c` | one name per object, collisions per CPU | event between poll and sleep | no event lost, records exact | `Select` |
| pipes, `kern/sys_pipe.c` | ring buffer, flags | mutex dropped for copies and waits | bytes in order; small writes atomic; freed unused | `Pipe` |
| descriptors in flight, `kern/uipc_usrreq.c` | counts, marks | collector against senders and receivers | counts exact; only garbage swept | `UnpGC` |
| vnode life cycle, `kern/vfs_subr.c` | use count, flags, free list | references dropped without the interlock; deactivation against reuse | counts exact; gone means unused | `Vnode` |
| buffer cache, `kern/vfs_bio.c` | hash chain, free lists, dirty and clean lists | lock given up for memory; writes under way | one buffer per block; newest data; flushed is on disk | `BufCache` |
| suspension, `kern/vfs_trans.c` | records per LWP, two locks | nested transactions; two-step suspension | suspended means quiet | `FSTrans` |
| NFS request cache, `sys/nfs/nfs_srvcache.c` | entries, LRU list | copies of one request in several hands | not done twice | `NFSReqCache` |
| AVR32 pmap, `avr32/pmap.c`, `avr32_subr.S` | page tables, pv lists, statistics, ASIDs, TLB | several copies of one fact; ASIDs run out and wrap | no stale translation; pv lists exact; no store unnoticed | `Pmap`, `ASIDWrap` |
| AVR32 traps, `avr32/avr32_xcpt.S`, `locore.S`, `trap.c` | kernel stacks, RAR/RSR per mode, ASTs | nesting; switches do not change the mode | every return is to what was interrupted | `Traps` (and `Pmap` for TLB faults) |
| AVR32 data cache, `avr32/cache.c` | lines | rounding of ranges | no store lost | `Cache` |
| AVR32 clock, `avr32/at32clock.c` | COUNT, COMPARE | registers wrap; COMPARE may be passed | a tick is never missed for long | `AT32Clock` |

Not modelled, with the reasons in `PROJECT.json`: the scheduler's run queues
(every model works with an arbitrary scheduler), allocators (allocations may
fail or sleep), restartable atomic sequences (`ras_lookup()` has no caller in
this tree), UVM, network stacks, file systems beyond the parts above, drivers,
compatibility layers, boot code, processes and signals, sockets, ttys, System V
IPC, name look-up. `PROJECT.json` also lists the 40 hazards, at their lines,
that the properties were written for.

## 2. Modules

One module per component, each a state machine of its own: variables, one
action per operation or per section under a lock, `Next`, `Spec`, `FairSpec`
where liveness is checked, then the properties. `AbstractLock` and
`AbstractQueue` are abstract specifications: `RWLock` and `Mutex` implement the
first, `WorkQueue` the second. The header of each module says what an action
is, what is merged and what is left out.

A definition marked *Slip* (or named so) is a variant of the definition that
follows it with a plausible mistake; with the one in place of the other TLC
must report the property named in `PROJECT.json`. No slip is part of a
specification.

The assumptions on the constants are named `…Assumption`. `RWLock`, `Pmap`,
`Mutex`, `XCall`, `ASIDWrap`, `FileDesc` and `FSTrans`, which proofs are about,
state them with ASSUME, and a module for TLC extends each of them, so that TLC
evaluates them. The other modules define them and the modules for TLC assume
them of every instance: `Callout`, `CondVar`, `KernelLock` and `Once` are proved
about as `MCSync` instantiates them, and `NFSReqCache` as `MCVfs` does, under the
`PartsAssumption` of these modules.

**Modules for TLC.** `MCRWLock`, `MCPmap`, `MCTraps` and `MCBufCache` extend
one component. `MCSync`, `MCKern`, `MCAvr32`, `MCFiles`, `MCVfs` and `MCLive`
check several components in one run. They instantiate each component, some
several times with different constants, over variables of its own, and extend
one component besides (`Mutex`, `XCall`, `ASIDWrap`, `FileDesc`, `FSTrans` and, in
`MCLive`, `Once`). The variable `part` says which instance a behaviour is about; it never
changes, and the variables of the other components stay `None` (in `MCLive`,
and for the component that is extended: as they are initially). So the state
space is the sum of those of the instances, not the product. There is one
property per instantiated component, such as `PipeSafe`: the conjunction of
`part = "x" => X!P` over the instances `x` and the properties `P` of the
component's module that it stands for. A refinement of an instance is checked
as the box of the abstract next-state relation.

Where the source leaves something to note:

* **RWLock.** The lock word is a record of its bits; every action is one access
  to shared memory, or a section under the turnstile chain lock. Taking the
  chain lock is merged with the load that follows, and the queue operations
  with the compare-and-swap before them. Queues are sets, because priorities
  change while LWPs sleep. Whether an owner is seen running is arbitrary.
* **Mutex.** The code for `__HAVE_SIMPLE_MUTEXES`, with the early release of
  LOCKDEBUG kernels as the two-step release. `onproc` is what saves the waiter
  whose bit is wiped out.
* **Turnstile.** LWPs take locks in ascending order. That walkers may go round
  for ever ("there may be a livelock here") has no property.
* **KernelLock.** Operations are bounded per LWP. `curcpu()` is read before the
  spin, as in the code.
* **Pmap.** One CPU, no preemption, no sleep in a pmap operation: each is one
  action. What interleaves are operations, context switches, TLB replacement,
  misses and stores. Kept on purpose: `pmap_enter` for the kernel sets
  `AVR32_PG_VALID`, not `AVR32_PTE_VALID` (`EnterKernel`), and may loop for
  ever (`EnterForever`); a new pmap has the current generation but no ASID, so
  that entries are written under ASID 0, which the proof shows harmless;
  `pmap_page_protect` reads freed memory; `pmap_protect` of a dirty kernel page
  panics "notyet". `avr32_tbiap` is modelled by its comment and structure: what
  the assembler makes of `brne 2` at `avr32_subr.S:265` cannot be told from the
  source. From UVM: a mapping of `pmap_kenter_pa` is removed by `pmap_kremove`
  and not entered over, and a pmap loses its last reference empty and not
  running.
* **ASIDWrap.** The generation wraps ("ok to wrap to 0"); safe as long as a
  pmap misses fewer generations than there are (`MaxIdle`).
* **Traps.** Banked registers R8–R12 and critical exceptions are left out.
  `FaultSleeps` says whether `uvm_fault()` may sleep.
* **AT32Clock.** A write to COMPARE takes the interrupt back (external). The
  handler keeps up if `MaxLate + 2 * MaxHandler <= CyclesPerHz + Word / 2`.
* **TimeCounter.** The counter's range must cover `Hands * (Tick + Late)`;
  `Monotone` is for runs without a change of counter. UTC, NTP, PPS and the
  dummy counter are left out.
* **SoftInt.** The slow path, one CPU, one `softint_disestablish()` at a time.
* **Cache.** Ranges to write back are any, as `mem.c` gives them. The only
  caller of `avr32_dcache_inv_range()` is `pmap.c`, for whole pages that it is
  about to free: `Poolpage` is that call, and only the stores to its page may be
  lost. Stores of devices are left out.
* **UnpGC.** One file per message; sending and receiving are split at each
  change of a count, since the collector compares them without a lock that the
  senders hold.
* **BufCache.** One vnode, one hash chain, kept link by link.
* **FSTrans.** A SHARED transaction within a LAZY one is only counted. A file
  system has one copy-on-write handler at most, as its only caller
  (`ffs_snapshot.c`) establishes it. Suspending and resuming are split at each
  lock and at the change of `fmi_state`.
* **NFSReqCache.** The comment's "if completed within DELAY of the current
  time, return DROP it" has no counterpart in the code. Nothing keeps the number
  of nfsds below that of the entries (`Enough`); with more of them an nfsd may
  find the list empty and follow a NULL pointer (`EvictNull`).
* **LockF** has a recursive operator, so it stays with TLC.

## 3. Runs

| Run | Instances | Shows |
|---|---|---|
| `rwlock` | `RWLock`: 3 LWPs, multiprocessor | `MutualExclusion`, `HoldsAreCounted`, `NoSleeperUnseen`, `HandoverAssertions`, `IInv` (the inductive invariant); no deadlock |
| `rwlock_live` | `RWLock`: 3 LWPs, uniprocessor, fair | `SleepingReaderServed`, `WriterNotLockedOut`, `ImplementsLock` |
| `pmap` | `Pmap`: 2 user pmaps, 1 user and 1 kernel address, 1 page, 3 ASIDs, 2 generations | `ASIDUnique`, `TLBMatchesPTE`, `ModTrapFindsPTE`, `WritesNoticed`, `KernelTLBMatchesPTE`, `PmapInv` (the inductive invariant) |
| `sync` | `Mutex` (3 LWPs, multiprocessor, LOCKDEBUG); `CondVar` (3 LWPs), `KernelLock` (2 CPUs, 3 LWPs), `Turnstile` (3 LWPs; two mutexes with spurious wake-ups; one rwlock with changing priorities), `Callout` (2 CPUs; bound and not), `Once` (3 LWPs, one control) | `NoLostWaiter`, `ImplementsLock` for the mutex; `CondVarSafe` (`NoWakeupLost`, `TimeoutInItsSleep`), `KernelLockSafe` (`CountsAgree`, `WantedExact`), `TurnstileSafe` (`OwnTurnstile`, `LendersExact`, `SortedQueues`), `CalloutSafe` (`HaltWaiterCounted`; `HaltQuiesces` for bound callouts), `OnceSafe` (`ExactlyOnce`) |
| `kern` | `XCall` (2 CPUs, 3 LWPs, 3 calls); `CalloutWheel` (2 bits per wheel, delays 0, 1, 4, 16, 63, 65, softclock up to 2 ticks late), `WorkQueue` (2 CPUs, 3 items), `SoftInt` (2 handlers that are disestablished, of one level; of a level each), `TimeCounter` (a reader, multiprocessor; uniprocessor; the counter changes; no reader, and counters come, go bad, go, and are listed and replaced by sysctl) | `NoCallLost`; `WheelSafe` (`DueOnWorklist`, `NeverEarly`), `WorkQueueSafe` (`ExitIsLast`, refinement of `AbstractQueue`), `SoftIntSafe` (`OneExecutor`, `NotForgotten`, `PickedIsIdle`, `CalledIsEstablished`), `TimeCounterSafe` (`ReadsTheTime`, `Monotone`, `BadNoticed`, `StoppedUsing`, `ChoiceOnList`) |
| `avr32` | `ASIDWrap` (3 pmaps, 3 ASIDs, 2-bit generations); `Pmap` (pv lists of 2 pmaps and one page, of one pmap and two pages; 2 address spaces over 2 generations; kernel mappings of one page and of two), `Cache` (2 pages of 4 bytes, 2 lines), `AT32Clock`, `Traps` (2 LWPs) | `OwnTranslations`; `PortSafe` (`PmapInv`, which has `PVListExact`, `OneCacheIndex`, `ResidentCountExact` and `KernelTLBMatchesPTE`, for each `Pmap`; `NoStoreLost`, `ClockTicks`, `OthersReturnOwn`) |
| `files` | `FileDesc` (3 LWPs, 2 descriptors, 2 files, 2 calls each); `LockF` (3 owners; 3 byte positions; a circle of 3), `Select` (2 LWPs on 2 CPUs; uniprocessor with 2 objects), `Pipe` (2 writers; polled from both ends, with writes that fit and that do not), `UnpGC` (2 LWPs and a stream socket; 1 LWP, a stream and a datagram socket that may hold each other; up to 2 files in flight) | `DescriptorsSafe` (`DescInv`, `RefInv`, `Drained`); `LockFSafe` (`ListInv`, `BytesExact`, `NoCircle`), `SelectSafe` (`NoEventLost`, `RecordsExact`), `PipeSafe` (`InOrder`, `SmallWritesAtomic`, `FreedUnused`, `PollersTold`), `UnpGCSafe` (`CountsExact`, `FilesInFlight`, `SweepsOnlyGarbage`) |
| `vfs` | `Vnode` (multiprocessor, 2 LWPs and the vrele thread, with revocation and LWPs that wait), `BufCache` (2 LWPs writing; memory short; everything short), `FSTrans` (2 LWPs, 2 mounts, nested twice), `NFSReqCache` (2 nfsds, 3 requests of which one is not AF_INET, a cache of 1 or 2 entries, up to 4 sends) | `VnodeSafe` (`GoneUnused`, `CountExact`, `LastIsAlone`, `UnlinkedNotKept`, `HeldIsLive`, `CleanUnlocked`), `BufCacheSafe` (`QueuesExact`, `InCoreFound`, `Coherent`, `FlushedIsOnDisk`, `PooledUnused`), `FSTransSafe` (`RecordsExact`, `Quiescent`), `NFSCacheSafe` (`CacheInv`, `NotDoneTwice`) |
| `live` | `Once` (3 LWPs), `Callout`, `WorkQueue`, `SoftInt`, `FSTrans` (2 LWPs, one mount), fair | `WaitsEnd` (`HaltReturnsTo`, `CallerReturns`), `DeferredWorkDone` (`IsCalled`, `DestroyReturns`, `ScheduledRuns`), `WaitersGoOn` (`GoesOn`), each for one of the interchangeable LWPs or items |
| `pmap_page_protect`, `traps_sleep`, `bufcache_chain` | the smallest that show it | violations, see below |

**Bounds.** Three LWPs are a holder, a waiter and one that barges in; for
reader/writer locks also a sleeping writer and a sleeping reader behind a
holder. That a hand-over leaves a second writer behind takes a fourth; the
proof of `RWLock` covers it. Three ASIDs, of which 0 is the kernel's, for two
address spaces and two generations make numbers run out and start again; what
a third address space could add is the matter of the proof (`FewInUse` bounds
the references to the two pmaps and the kernel mappings to two at a time). Two
addresses of different cache index are what a conflict needs. Two CPUs are
what a callout can move between and what a cross call must reach. Three work
items are one that runs, one that is queued and one that is enqueued again.
The wheel's words have eight bits, with delays on either side of the wheels'
boundaries. Three byte positions and the end of the file give all six overlaps
of `lf_findoverlap()`. A pipe of three bytes with writes of two and four wraps,
fills and splits. Two sockets with both in flight give a message that
only a message leads to, and a circle. Two buffers' worth of memory for two or three blocks
make every block compete. `Generations`, `MaxRefs`, `MaxCount`, `MaxCalls`,
`MaxOps`, `MaxSchedules`, `MaxSend`, `MaxNest`, `MaxDepth`, `MaxNow`,
`MaxRights` and `MaxQueue` bound counters that the code does not bound. Deadlock
is checked for `rwlock`; in the other runs the bounded counters, or a panic,
let a behaviour end.

**Fairness.** An LWP that can run gets the CPU in the end and gets on inside
the code that is modelled; whoever holds a lock or is in a transaction lets go
in the end; functions called return; handlers' sleeps end; the clock interrupts
user programs. Strong fairness is used where an LWP may be preempted, or lose
a race for a lock, again and again. Nobody is obliged to make a call. In `live`
a step of one component is never enabled in a behaviour of another, so one
formula is fair to a step of each.

**Violations.** Three runs show where the code and its comments differ:

* `PageProtectReachesAll`: `pmap_page_protect(pg, VM_PROT_NONE)` leaves the
  second mapping of a page in place (`pmap.c:557`).
* `ReturnsOwn` with a fault handler that sleeps: an LWP resumed in another
  execution mode returns through that mode's registers (`avr32_xcpt.S:407`).
* `InCoreFound` with a shortage of buffer structures: a buffer that is on no
  hash chain goes to the LRU list (`vfs_bio.c:1205`).

**Exceptions that the properties state.** Where the code keeps a promise but for
one case, the property is the promise with that case left out, and no wider:
without the exception TLC refutes it. The instances have these cases.

| Property | Holds but for | Where |
|---|---|---|
| `SoftInt`: `CalledIsEstablished` | a handler that is pending behind another of its level, which sleeps, is cleared and then called | `kern_softint.c:425` |
| `TimeCounter`: `StoppedUsing` | a counter that a sysctl had replaced is read until the next `tc_windup()` | `kern_tc.c:559` |
| `TimeCounter`: `BadNoticed` | a counter that was bad when the sysctl asked for it | `kern_tc.c:176` |
| `Traps`: `OthersReturnOwn` | an LWP whose fault slept (the run `traps_sleep` shows it) | `avr32_xcpt.S:407` |
| `Cache`: `NoStoreLost` | the page that is dropped | `cache.c:296` |
| `Pipe`: `PollersTold` | who polls for writing during a write larger than the buffer is told by the first read after it | `sys_pipe.c:609` |
| `UnpGC`: `SweepsOnlyGarbage` | a collection during which a message was in the hands of an LWP | `uipc_usrreq.c:1592` |
| `UnpGC`: `CountsExact`, `FilesInFlight` | messages forgotten when the peer of a stream socket goes away are still counted | `uipc_usrreq.c:572` |
| `Vnode`: `UnlinkedNotKept` | a `vrele()` between the end of a deactivation and the look at the count | `vfs_subr.c:1577` |
| `Vnode`: `HeldIsLive` | a revoked vnode, a deleted file, and holders whose `vtryget()` or waiting `vget()` missed `VI_XLOCK` | `vfs_subr.c:1313` |
| `Vnode`: `CleanUnlocked` | an LWP that had looked at `VI_XLOCK` before | `vfs_subr.c:1889` |
| `BufCache`: `InCoreFound` | when `pool_cache_get()` fails (the run `bufcache_chain` shows it) | `vfs_bio.c:1205` |
| `FSTrans`: `Quiescent` | a lazy transaction may start while `fmi_state` still says SUSPENDED, when the lazy lock has been let go | `vfs_trans.c:338` |
| `NFSReqCache`: `CacheInv` | an nfsd finds an entry to reuse if there are no more nfsds than entries (`Enough`) | `nfs_srvcache.c:290` |
| `NFSReqCache`: `NotDoneTwice` | requests whose address is not AF_INET | `nfs_srvcache.c:88` |
| `Callout`: `HaltQuiesces` | callouts that are not bound to their CPU | `kern_timeout.c:481` |
| `Select`: `RecordsExact` | only on a uniprocessor: an object may be destroyed under a selector on another CPU | `sys_select.c:597` |
| `FSTrans`: `GoesOn` | checked with one mount: with two, an LWP that suspends the first and changes the handlers of the second, and a run of the second that starts a transaction on the first, wait for each other | `vfs_trans.c:515` |

Other properties are written down in their modules and refuted by TLC with the
constants given here; no run is kept for them:

| Property | Instance | Where |
|---|---|---|
| `Pmap`: `EnterInsertsNow`, `ClearModifyReturns`, `WiredCountExact` | one pmap, one page | `pmap.c:820`, `:700`, `:897` |
| `XCall`: `WaitMeansDone` | 2 CPUs, 2 LWPs, 2 calls | `subr_xcall.c:219` |
| `Cache`: `WbinvReachesRange` | any range of two lines | `cache.c:255` |
| `FileDesc`: `PutDoesNotClose` | 3 LWPs | `kern_descrip.c:426` |
| `TimeCounter`: `UsersMoveOn` | a reader held up | `kern_tc.c:317` |
| `UnpGC`: `GarbageCloses`, `DeferredIsOpen` | the collector idle; a receiver during the scan | `uipc_usrreq.c:1640`, `:1514` |
| `Traps`: `AstBeforeUser` | one LWP | `avr32_xcpt.S:296` |
| `Pipe`: `CloseReturns` | a writer that starts to wait late | `sys_pipe.c:1279` |
| `Turnstile`: `PriorityLent` | two locks, three priorities | `kern_turnstile.c:326` |

The same holds for liveness: `CondVar`, `XCall`, `KernelLock`, `FileDesc`,
`Select`, `Pipe`, `Vnode`, `BufCache`, `UnpGC`, `NFSReqCache`, `Mutex` and
`Traps` state a `FairSpec` and a property of it that no run is kept for. Known
and without a property: `breadn()` holds one buffer and waits for another, so
there must be enough of them; `vflushbuf()` spins while somebody sleeps with a
dirty buffer busy (`vfs_subr.c:1053`).

## 4. Proofs

TLAPS checks every proof down to the last leaf. What is proved holds for all
values of the constants that satisfy the `…Assumption` of the module: finite
sets of LWPs, CPUs, descriptors, pmaps and addresses, values that stand for
"none" that are not members of these sets, and at least one ASID besides the
reserved one. The bounds of the models (`MaxCalls`, `Generations`, …) are
arbitrary numbers there.

| Module | Proved | Also a property of |
|---|---|---|
| `RWLockProofs` | `Invariance` (`IInv`); `Exclusion`, `Accounting`, `NobodyForgotten`, `AssertionsHold`; `RWLockIsLock`: the lock implements `AbstractLock` | `rwlock`, `rwlock_live` |
| `XCallProofs` | `XCallInvariance` (`XCallInv`); `CallsAreKept` | `kern` |
| `FileDescProofs` | `DescInvariance` (`DescInv`); `DescriptorsAreSafe` | `files` |
| `KernelProofs` | `MutexInvariance` (`MutexInv`), `NoWaiterLost`, `MutexIsLock`: the mutex implements `AbstractLock`; `CalloutInvariance` (`CalloutInv`), `HaltIsSafe`; `CondVarInvariance` (`CondVarInv`), `CondVarIsSafe`; `KernelLockInvariance` (`KernelLockInv`), `KernelLockIsSafe`; `OnceInvariance` (`OnceInv`), `CalledExactlyOnce` | `sync` |
| `VfsProofs` | `NFSInvariance` (`NFSInv`); `NFSCacheIsSafe` | `vfs` |
| `FSTransProofs` | `FSTransInvariance` (`FSTransInv`); `FSTransIsSafe` | `vfs` |
| `PmapProofs` | `PmapInvariance` (`PmapInv`), of which `TLBInvariance` (`TLBInv`) and `MapsInvariance` (`MapsInv`) are the halves; `ASIDsAreUnique`, `NoStaleTranslation`, `ModTrapSafe`, `KernelTranslationsFollow`, `PVListsExact`, `OneIndexPerPage`, `ResidentCountsExact`, `NoWriteUnnoticed` | `pmap` |
| `ASIDWrapProofs` | `WrapInvariance` (`WrapInv`); `WrapIsHarmless` | `avr32` |

Each proof has the same shape: an inductive invariant, a lemma per action or
per group of actions alike, one step per part of the invariant, and the
property as a consequence. None of the properties is inductive by itself.

**Reader/writer locks.** `IInv` adds to the properties `WordInv` (the word is
free, read-held or write-held, and names who was handed it), `ControlInv` (who
is on which queue and who has the chain lock), `WaitersInv` (what the two waiter
bits stand for: a read-held lock has waiters only if a writer sleeps, a free
lock with waiters has a writer on its way) and `CopyInv` (what an LWP may
conclude from a copy of the word that may be stale). The refinement maps a hold
to the abstract lock's holders; of a direct hand-over the abstract step is the
compare-and-swap of the LWP that gives the lock away, before the new holder
runs.

**Mutexes.** `MutexInv` has besides `WordInv`, `ControlInv` and `CopyInv` what
saves a waiter whose bit a release without an atomic operation wipes out:
`ReleaseInv` (while an unlocked release is under way, nobody sleeps behind the
bit and the LWP that set it is still to look whether the owner runs) and
`BlockInv` (who is about to sleep finds the bit set).

**Run-once.** `OnceInv` ties the status to the number of calls and to where the
LWPs are.

**Callouts.** `CalloutInv` adds to `HaltWaiterCounted` where the waiters are
(`QueueInv`: on the queue of one CPU, asleep) and what holds while nothing
schedules the callout again (`QuietInv`: it is not pending and, once
`callout_halt()` has returned, does not run on its CPU). `callout_halt()` returns
when it finds, under the lock of the callout's CPU, that the function does not
run there; that it runs nowhere else takes a callout bound to its CPU, and the
theorem says so. The waiters that `cc_nwait` counts are counted with the
cardinality theorems, so the number of LWPs is arbitrary.

**Condition variables.** `CondVarInv` ties the two mutexes and the sleep queue to
where each LWP is (`HoldInv`, `SleepInv`) and a timeout to the sleep it was set
for (`TimeoutInv`). `cv_signal()` looks at the queue without its lock. That this
look misses nobody rests on two things the invariant has: who is to sleep is on
the queue before it lets go of the caller's mutex, and the queue is not empty
while an LWP is moved in it.

**The big lock.** `KernelLockInv` says that an LWP that spins for the lock stays
on its CPU (`CurInv`, `SpinInv`) and what an interrupt that comes in between may
find and leave in `ci_biglock_count` and `ci_biglock_wanted` (`IntrInv`): it takes
the lock at count zero, gives it back, and puts the waiter it interrupted back
into `ci_biglock_wanted`. `CountsAgree` and `WantedExact` are not preserved
without it.

**Cross calls.** `XCallInv` says what the three counters count: `xc_headp` is
ahead of `xc_tailp` by the CPUs that have the call in the slot still to take
up, and `xc_tailp` of `xc_donep` by those that run one (`CountInv`). So the slot
is filled only when no CPU needs what is in it, and who sleeps has a thread to
wake it.

**Descriptors.** `DescInv` has the two counts (`SlotsCounted`, `FilesCounted`),
that an empty allocated slot belongs to one LWP, which closes or fills it
(`OwnerInv`), that FR_CLOSING is the mark of a closer that waits
(`ClosingInv`), and the fact that makes look-ups without a lock safe: the file
that an LWP uses is still in its slot, or with the closer of this very slot,
which has not yet seen the count of references go down to zero (`UsersInv`).
The invariant does not mention ff_lock: its part is to make taking the file out
of the slot one step.

**The NFS request cache.** `NFSInv` says who holds which entry (`HeldInv`,
`LockInv`), that an entry is on the list once (`ListInv`) and what
`numnfsrvcache` counts: the entries on the list and those that an nfsd has made
and is still to insert (`CountInv`). An nfsd that finds the cache full takes the
entry at the head of the list, and may first have to sleep until that is
unlocked. That there is one when it wakes up is the other half of `CountInv`:
there are never more nfsds in this position than entries on the list. When an
nfsd comes into it the cache is full, so that the entries that are not on the
list are in the hands of other nfsds; afterwards an entry leaves the list only
with one of those who wait for one, or when there is no nfsd left. This half, and that no
nfsd follows a NULL pointer at the head of the list, is conditional on `Enough`
(no more nfsds than entries), which the code does not see to; the rest of
`NFSInv` and of `CacheInv` holds for any number of either. `NotDoneTwice`
follows from `ClaimInv`: a request over IPv4 that has been given out, and whose
entry has not been reused since, is in the cache in progress or with a reply.

**Suspension.** `FSTransInv` says that an LWP has one record per file system and
a lock type where there are transactions (`ListInv`), that the records count
what the LWP is in, a run it waits to start included (`CountInv`), that the
readers of the three locks are the LWPs whose records say so (`ReaderInv`), that
their writers are the LWP that suspends, and when, with the `fmi_state` that goes
with each step of it (`WriterInv`), and that this LWP is in no transaction of
its own while it is inside `fstrans_setstate()` (`OwnerInv`). `Quiescent` follows
from the last three: while the shared or the lazy lock has a writer it has no
readers, so nobody's record has that type. It is stated of each window of
`vfs_resume()` separately, since the lazy lock is let go before `fmi_state`
changes.

**Pmap, the TLB.** `TLBInv` needs besides the properties that the processor
runs under its pmap's own ASID (`RunsUnderOwnASID`), that the numbers not yet
given out are above those in use and have no entries in the TLB
(`FreeASIDsClean`), that no pmap is of a future generation
(`GenerationsPassed`) and that a user PTE that is not zero is valid
(`UserPTEsValid`). The lemma `Coherent` reduces every action that leaves the
ASIDs alone to a statement about what it did to one PTE and the TLB entry of the
same tag and address.

**Pmap, the mappings.** `MapsInv` is inductive together with `TLBInv`. The pv
list of a page is a sequence, and `pmap_remove_pv()` is a recursive function on
it (`Without`). That it keeps the order and drops exactly what it should is
proved by induction over positions, which is done with the least position at
which the claim would fail. `PVListExact` then says that a list has each user
mapping of its page once and nothing else; `ResidentCountExact` counts the same
mappings from the page tables; `OneCacheIndex` follows because `pmap_enter_pv()`
removes what conflicts before it inserts, or loops. The proof of this showed
that the loop is entered also for an entry of the list whose PTE has since got
another page from `pmap_kenter_pa()`, which the model had let pass
(`EnterSpins`).

**The generation counter.** `WrapInv` measures how far a pmap's generation is
behind modulo the width of the counter: as long as no pmap misses a whole
round, an old number is never taken for a new one.

**Only model-checked.** Liveness, which is outside the prover's reach, and of the
safety properties:

* `LockFSafe`: `LockF` has RECURSIVE operators, which the prover cannot reason
  about;
* `TurnstileSafe`, `WheelSafe`, `SoftIntSafe`, `WorkQueueSafe`, `BufCacheSafe`:
  sorted and linked lists, for which the provers need an induction per list
  operation as that for the pv lists;
* `TimeCounterSafe`, `PortSafe` for `Cache`, `AT32Clock` and `Traps`: arithmetic
  modulo a power of two and finite tables of code, for which the small instance
  has all cases;
* `SelectSafe`, `PipeSafe`, `UnpGCSafe`, `VnodeSafe`: no inductive invariant has
  been worked out.

The theorems on `RWLock`, `Mutex`, `Pmap`, `XCall`, `FileDesc`, `FSTrans` and
`ASIDWrap` are about the modules, hence about every instance that the runs make
of them. Those on callouts, condition variables, the big lock, run-once and the
request cache are about the instances in `MCSync` and `MCVfs`, whose sets and
bounds are constants without a value there; the `.cfg` gives the small values
for TLC.

## 5. Left to do

1. The queue of `WorkQueue` as an implementation of `AbstractQueue`, by
   induction over the links as for the pv lists.
2. An inductive invariant for `Pipe` and for `Select`, whose locks are simple
   enough for the argument made for condition variables.
3. Stores of devices in `Cache`, and several copy-on-write handlers in `FSTrans`.
