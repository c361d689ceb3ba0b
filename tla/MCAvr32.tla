------------------------------ MODULE MCAvr32 -------------------------------
(***************************************************************************)
(* The AVR32 port: the pmap on instances other than that of MCPmap, the    *)
(* wrapping of the ASID generation, the data cache, the clock interrupt    *)
(* and the exceptions. "part" names the component that a behaviour is      *)
(* about. ASIDWrap is the module extended, and stays in its initial state  *)
(* in the behaviours of the others; the variables of the others are None   *)
(* when they are not the part.                                             *)
(***************************************************************************)
EXTENDS ASIDWrap, TLC

CONSTANTS
    p1, p2, p3, x, y, kernel, la, lb

VARIABLES
    part,
    pm_count, pm_pm_asid, pm_pm_asidgen, pm_segtab, pm_stats, pte, pv,
    modified, pm_tlb, pm_pmap_next_asid, pm_pmap_asid_generation,
    pm_curpmap, asid, halted,
    cached, dirty, stale, given,
    count, compare, pending, next_clk_intr, new_cnt, pc, late, gap,
    avr32_curlwp, sr, reg, kstack, pcb, md_astpending, lost

ASIDWrapVars == <<live, pm_asid, pm_asidgen, pmap_next_asid,
                  pmap_asid_generation, curpmap, tlb, missed>>
PmapVars == <<pm_count, pm_pm_asid, pm_pm_asidgen, pm_segtab, pm_stats, pte,
              pv, modified, pm_tlb, pm_pmap_next_asid,
              pm_pmap_asid_generation, pm_curpmap, asid, halted>>
CacheVars == <<cached, dirty, stale, given>>
AT32ClockVars == <<count, compare, pending, next_clk_intr, new_cnt, pc,
                   late, gap>>
TrapsVars == <<avr32_curlwp, sr, reg, kstack, pcb, md_astpending, lost>>
partsvars == <<part, ASIDWrapVars, PmapVars, CacheVars, AT32ClockVars,
               TrapsVars>>

Pmaps2 == {p1, p2}
Pages == {x, y}

\* "u1" and "u2" have different cache indexes and are in different segments;
\* so have "k1" and "k2", which are in the kernel's.
Addresses == {"u1", "u2", "k1", "k2"}
AddressColour == [va \in Addresses |-> IF va \in {"u2", "k1"} THEN 1 ELSE 0]
AddressSegment == [va \in Addresses |-> IF va = "u2" THEN 1 ELSE 0]

PV == INSTANCE Pmap WITH
    UserPmap <- Pmaps2, UVA <- {"u1", "u2"}, KVA <- {}, Page <- {x},
    MaxASID <- 2, Generations <- 1, Prots <- {"rw"}, MaxRefs <- 1,
    Kernel <- kernel, NoPage <- None, Colour <- AddressColour,
    Segment <- AddressSegment, Wirings <- {FALSE}, MaxCount <- 1,
    pm_asid <- pm_pm_asid, pm_asidgen <- pm_pm_asidgen, tlb <- pm_tlb,
    pmap_next_asid <- pm_pmap_next_asid,
    pmap_asid_generation <- pm_pmap_asid_generation, curpmap <- pm_curpmap
PVTwo == INSTANCE Pmap WITH
    UserPmap <- {p1}, UVA <- {"u1", "u2"}, KVA <- {}, Page <- Pages,
    MaxASID <- 2, Generations <- 1, Prots <- {"rw"}, MaxRefs <- 1,
    Kernel <- kernel, NoPage <- None, Colour <- AddressColour,
    Segment <- AddressSegment, Wirings <- {FALSE}, MaxCount <- 1,
    pm_asid <- pm_pm_asid, pm_asidgen <- pm_pm_asidgen, tlb <- pm_tlb,
    pmap_next_asid <- pm_pmap_next_asid,
    pmap_asid_generation <- pm_pmap_asid_generation, curpmap <- pm_curpmap
PM == INSTANCE Pmap WITH
    UserPmap <- Pmaps2, UVA <- {"u1"}, KVA <- {}, Page <- {x}, MaxASID <- 3,
    Generations <- 2, Prots <- {"r", "rw"}, MaxRefs <- 1, Kernel <- kernel,
    NoPage <- None, Colour <- AddressColour, Segment <- AddressSegment,
    Wirings <- {FALSE}, MaxCount <- 1, pm_asid <- pm_pm_asid,
    pm_asidgen <- pm_pm_asidgen, tlb <- pm_tlb,
    pmap_next_asid <- pm_pmap_next_asid,
    pmap_asid_generation <- pm_pmap_asid_generation, curpmap <- pm_curpmap
KI == INSTANCE Pmap WITH
    UserPmap <- {p1}, UVA <- {"u1"}, KVA <- {"k1", "k2"}, Page <- {x},
    MaxASID <- 2, Generations <- 1, Prots <- {"rw"}, MaxRefs <- 1,
    Kernel <- kernel, NoPage <- None, Colour <- AddressColour,
    Segment <- AddressSegment, Wirings <- {FALSE}, MaxCount <- 1,
    pm_asid <- pm_pm_asid, pm_asidgen <- pm_pm_asidgen, tlb <- pm_tlb,
    pmap_next_asid <- pm_pmap_next_asid,
    pmap_asid_generation <- pm_pmap_asid_generation, curpmap <- pm_curpmap
KT == INSTANCE Pmap WITH
    UserPmap <- {p1}, UVA <- {"u1"}, KVA <- {"k1"}, Page <- Pages,
    MaxASID <- 2, Generations <- 1, Prots <- {"rw"}, MaxRefs <- 1,
    Kernel <- kernel, NoPage <- None, Colour <- AddressColour,
    Segment <- AddressSegment, Wirings <- {FALSE}, MaxCount <- 1,
    pm_asid <- pm_pm_asid, pm_asidgen <- pm_pm_asidgen, tlb <- pm_tlb,
    pmap_next_asid <- pm_pmap_next_asid,
    pmap_asid_generation <- pm_pmap_asid_generation, curpmap <- pm_curpmap
CA == INSTANCE Cache WITH
    avr32_pdcache_line_size <- 2, avr32_pdcache_size <- 4, PAGE_SIZE <- 4,
    MemSize <- 8
CK == INSTANCE AT32Clock WITH
    Word <- 32, CyclesPerHz <- 5, MaxLate <- 13, MaxHandler <- 4
TR == INSTANCE Traps WITH
    LWP <- {la, lb}, First <- la, AstLWP <- {la}, MaxDepth <- 2

ASSUME
    /\ PV!PmapAssumption
    /\ PVTwo!PmapAssumption
    /\ PM!PmapAssumption
    /\ KI!PmapAssumption
    /\ KT!PmapAssumption
    /\ CA!CacheAssumption
    /\ CK!AT32ClockAssumption
    /\ TR!TrapsAssumption

ASIDWrapOff == Init
PmapOff ==
    /\ pm_count = None /\ pm_pm_asid = None /\ pm_pm_asidgen = None
    /\ pm_segtab = None /\ pm_stats = None /\ pte = None /\ pv = None
    /\ modified = None /\ pm_tlb = None /\ pm_pmap_next_asid = None
    /\ pm_pmap_asid_generation = None /\ pm_curpmap = None /\ asid = None
    /\ halted = None
CacheOff ==
    /\ cached = None /\ dirty = None /\ stale = None /\ given = None
AT32ClockOff ==
    /\ count = None /\ compare = None /\ pending = None
    /\ next_clk_intr = None /\ new_cnt = None /\ pc = None /\ late = None
    /\ gap = None
TrapsOff ==
    /\ avr32_curlwp = None /\ sr = None /\ reg = None /\ kstack = None
    /\ pcb = None /\ md_astpending = None /\ lost = None

PartsInit ==
    \/ /\ part = "generation wraps" /\ Init
       /\ PmapOff /\ CacheOff /\ AT32ClockOff /\ TrapsOff
    \/ /\ part = "pv lists" /\ PV!Init
       /\ ASIDWrapOff /\ CacheOff /\ AT32ClockOff /\ TrapsOff
    \/ /\ part = "pv lists of two pages" /\ PVTwo!Init
       /\ ASIDWrapOff /\ CacheOff /\ AT32ClockOff /\ TrapsOff
    \/ /\ part = "address spaces" /\ PM!Init
       /\ ASIDWrapOff /\ CacheOff /\ AT32ClockOff /\ TrapsOff
    \/ /\ part = "kernel mappings of one page" /\ KI!Init
       /\ ASIDWrapOff /\ CacheOff /\ AT32ClockOff /\ TrapsOff
    \/ /\ part = "kernel mappings of two pages" /\ KT!Init
       /\ ASIDWrapOff /\ CacheOff /\ AT32ClockOff /\ TrapsOff
    \/ /\ part = "cache" /\ CA!Init
       /\ ASIDWrapOff /\ PmapOff /\ AT32ClockOff /\ TrapsOff
    \/ /\ part = "clock" /\ CK!Init
       /\ ASIDWrapOff /\ PmapOff /\ CacheOff /\ TrapsOff
    \/ /\ part = "traps" /\ TR!Init
       /\ ASIDWrapOff /\ PmapOff /\ CacheOff /\ AT32ClockOff


PartsNext ==
    \/ /\ part = "generation wraps" /\ Next
       /\ UNCHANGED <<part, PmapVars, CacheVars, AT32ClockVars, TrapsVars>>
    \/ /\ part = "pv lists" /\ PV!Next
       /\ UNCHANGED <<part, ASIDWrapVars, CacheVars, AT32ClockVars, TrapsVars>>
    \/ /\ part = "pv lists of two pages" /\ PVTwo!Next
       /\ UNCHANGED <<part, ASIDWrapVars, CacheVars, AT32ClockVars, TrapsVars>>
    \/ /\ part = "address spaces" /\ PM!Next
       /\ UNCHANGED <<part, ASIDWrapVars, CacheVars, AT32ClockVars, TrapsVars>>
    \/ /\ part = "kernel mappings of one page" /\ KI!Next
       /\ UNCHANGED <<part, ASIDWrapVars, CacheVars, AT32ClockVars, TrapsVars>>
    \/ /\ part = "kernel mappings of two pages" /\ KT!Next
       /\ UNCHANGED <<part, ASIDWrapVars, CacheVars, AT32ClockVars, TrapsVars>>
    \/ /\ part = "cache" /\ CA!Next
       /\ UNCHANGED <<part, ASIDWrapVars, PmapVars, AT32ClockVars, TrapsVars>>
    \/ /\ part = "clock" /\ CK!Next
       /\ UNCHANGED <<part, ASIDWrapVars, PmapVars, CacheVars, TrapsVars>>
    \/ /\ part = "traps" /\ TR!Next
       /\ UNCHANGED <<part, ASIDWrapVars, PmapVars, CacheVars, AT32ClockVars>>

PartsSpec == PartsInit /\ [][PartsNext]_partsvars

\* No data cache operation loses a store of the processor's, but to a page
\* that pmap.c has dropped; COUNT and COMPARE make one clock interrupt per
\* tick, however late a handler is; an exception returns to the code it
\* interrupted, unless it is a fault of the kernel whose handler has slept;
\* and on instances with more addresses, pages and kernel mappings the pmap
\* has the inductive invariant of the proofs.
PortSafe ==
    /\ part = "cache" => CA!NoStoreLost
    /\ part = "clock" => CK!ClockTicks
    /\ part = "traps" => TR!OthersReturnOwn
    /\ part = "pv lists" => PV!PmapInv
    /\ part = "pv lists of two pages" => PVTwo!PmapInv
    /\ part = "address spaces" => PM!PmapInv
    /\ part = "kernel mappings of one page" => KI!PmapInv
    /\ part = "kernel mappings of two pages" => KT!PmapInv

\* Two address spaces are interchangeable, and so are the pages.
Symmetry == Permutations({p1, p2}) \cup Permutations({x, y})

=============================================================================
