-------------------------------- MODULE Cache --------------------------------
(***************************************************************************)
(* The data cache of the AVR32 and the operations on it                    *)
(* (sys/arch/avr32/avr32/cache.c), between the processor's stores and a    *)
(* device that sees memory only.  An operation is a loop over addresses;   *)
(* what it does to a line is the processor's: it writes the line back if   *)
(* it is dirty, or not, and drops it.                                      *)
(*                                                                         *)
(* A line of memory is known by the number of its first byte.  What is in  *)
(* a byte is abstracted to whether memory has the processor's last store.  *)
(* The ranges to write back are any, as mem.c gives them.  The ranges to   *)
(* drop are whole pages, which pmap.c is about to free.  The stores of     *)
(* devices, the index operations and the instruction cache are left out,   *)
(* the latter since they depend on hardware that the source does not       *)
(* describe.                                                               *)
(*                                                                         *)
(* A definition marked "Slip" is the one that follows it with a plausible  *)
(* mistake: the properties are shown to reject it.                         *)
(***************************************************************************)
EXTENDS Naturals

CONSTANTS
    avr32_pdcache_line_size,
    avr32_pdcache_size,
    PAGE_SIZE,
    MemSize    \* bound: bytes of memory

CacheAssumption ==
    /\ avr32_pdcache_line_size \in Nat \ {0}
    /\ avr32_pdcache_size % avr32_pdcache_line_size = 0
    /\ avr32_pdcache_size > 0
    /\ PAGE_SIZE > 0 /\ PAGE_SIZE % avr32_pdcache_line_size = 0
    /\ MemSize % PAGE_SIZE = 0

VARIABLES
    cached,  \* the lines in the cache
    dirty,   \* those that have been stored to since
    stale,   \* the bytes of which memory does not have the last store
    given    \* of those, the ones in a page that was to be dropped since

vars == <<cached, dirty, stale, given>>

-----------------------------------------------------------------------------
TRUNC_LINE(a) == (a \div avr32_pdcache_line_size) * avr32_pdcache_line_size

ROUND_LINE(a) == TRUNC_LINE(a + avr32_pdcache_line_size - 1)

Byte == 0..(MemSize - 1)
Line == {TRUNC_LINE(a) : a \in Byte}

\* The bytes of the lines in S.
BytesOf(S) == {a \in Byte : TRUNC_LINE(a) \in S}

\* The lines that hold a byte of a range: what a range operation is for.
LinesOf(sva, size) == {TRUNC_LINE(a) : a \in sva..(sva + size - 1)}

\* The lines that the loop of a range operation reaches: it steps by the
\* size of the cache.
Reached(sva, size) ==
    {va \in TRUNC_LINE(sva)..(ROUND_LINE(sva + size) - 1) :
        (va - TRUNC_LINE(sva)) % avr32_pdcache_size = 0}

\* The processor's operations: write back and drop, or drop, the lines in S.
OpWbinv(S) ==
    /\ cached' = cached \ S
    /\ dirty' = dirty \ S
    /\ stale' = stale \ BytesOf(S \cap dirty)
    /\ given' = given \ BytesOf(S \cap dirty)

OpInv(S) ==
    /\ cached' = cached \ S
    /\ dirty' = dirty \ S
    /\ UNCHANGED stale

-----------------------------------------------------------------------------
Load(l) ==
    /\ cached' = cached \cup {l}
    /\ UNCHANGED <<dirty, stale, given>>

\* A store to the byte a.
Store(a) ==
    /\ cached' = cached \cup {TRUNC_LINE(a)}
    /\ dirty' = dirty \cup {TRUNC_LINE(a)}
    /\ stale' = stale \cup {a}
    /\ given' = given \ {a}

\* The cache needs the room.
Replace(l) ==
    /\ l \in cached
    /\ OpWbinv({l})

\* Slip: the wrong operation.
WbinvRangeInv(sva, size) ==
    /\ OpInv(Reached(sva, size))
    /\ UNCHANGED given

\* avr32_dcache_wbinv_range()
WbinvRange(sva, size) == OpWbinv(Reached(sva, size))

\* Slip: the end is always rounded, to a line that the range does not reach.
InvRangeBeyond(sva, size) ==
    LET last == TRUNC_LINE(sva + size) IN
    /\ OpInv(Reached(sva, size) \cup ({last} \cap Line))
    /\ given' = given \cup (stale \cap sva..(sva + size - 1))

\* avr32_dcache_inv_range()
InvRange(sva, size) ==
    /\ OpInv(Reached(sva, size))
    /\ given' = given \cup (stale \cap sva..(sva + size - 1))

\* Slip: a table is dropped from where it begins in the page.
PoolpageUnaligned(va) == InvRange(va + 1, PAGE_SIZE - 1)

\* pmap_destroy() and avr32_pmap_unmap_poolpage(), for the page at va
Poolpage(va) == InvRange(va, PAGE_SIZE)

\* avr32_dcache_wbinv_all()
WbinvAll == OpWbinv(Line)

-----------------------------------------------------------------------------
Init == cached = {} /\ dirty = {} /\ stale = {} /\ given = {}

\* The ranges that fit into memory.
Ranges == {r \in (0..(MemSize - 1)) \X (1..MemSize) : r[1] + r[2] <= MemSize}

Next ==
    \/ \E l \in Line : Load(l) \/ Replace(l)
    \/ \E a \in Byte : Store(a)
    \/ \E r \in Ranges : WbinvRange(r[1], r[2])
    \/ \E va \in {a \in Byte : a % PAGE_SIZE = 0} : Poolpage(va)
    \/ WbinvAll

Spec == Init /\ [][Next]_vars

-----------------------------------------------------------------------------
(***************************************************************************)
(* A store is in memory or in the cache, unless it was to a page that was  *)
(* to be dropped since: no operation loses a neighbour's store, though it  *)
(* works on whole lines and rounds the ends of its range to them.          *)
(***************************************************************************)
NoStoreLost ==
    /\ dirty \subseteq cached /\ cached \subseteq Line
    /\ stale \subseteq BytesOf(dirty) \cup given

(***************************************************************************)
(* After avr32_dcache_wbinv_range() memory has what the processor stored   *)
(* to the range, and the cache nothing of it: "Write-back Invalidate       *)
(* D-cache range".                                                         *)
(***************************************************************************)
WbinvReachesRange ==
    [][\A r \in Ranges :
          WbinvRange(r[1], r[2]) => cached' \cap LinesOf(r[1], r[2]) = {}]_vars
=============================================================================
