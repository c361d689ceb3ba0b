-------------------------------- MODULE Pmap --------------------------------
(***************************************************************************)
(* The AVR32 physical map, sys/arch/avr32/avr32/pmap.c, with the parts of  *)
(* the port that share its state: the TLB primitives of avr32_subr.S, the  *)
(* TLB miss handlers of avr32_xcpt.S and the T_TLB_MOD case of trap.c.     *)
(*                                                                         *)
(* The kernel is built for one CPU and is not preempted, and no operation  *)
(* of the pmap sleeps between two of its assignments, so every operation   *)
(* is one action.  A range of addresses is the set of its pages.           *)
(*                                                                         *)
(* Removing a mapping touches the PTE, the pv entry, the statistics and    *)
(* the TLB entry of that mapping alone, so an operation that removes       *)
(* several has an effect that does not depend on the order, and is written *)
(* for the set R of <<pmap, va>> pairs it removes.                         *)
(*                                                                         *)
(* Left out: the cache operations, execute permission, the PV_REFERENCED   *)
(* attribute (nothing reads it), unmanaged pages and the operations that   *)
(* only panic "notyet".                                                    *)
(*                                                                         *)
(* A definition marked "Slip" is the one that follows it with a plausible  *)
(* mistake: the properties are shown to reject it.                         *)
(***************************************************************************)
EXTENDS Integers, FiniteSets, Sequences

CONSTANTS
    UserPmap,     \* the pmaps of the user address spaces
    Kernel,       \* pmap_kernel()
    UVA,          \* the pages of the user address range
    KVA,          \* the pages of the kernel's mapped segment (P3)
    Page,         \* the managed physical pages
    NoPage,       \* the page frame of an empty entry
    Colour,       \* avr32_cache_indexof(), a function of the address
    Segment,      \* va >> SEGSHIFT, a function of the address
    MaxASID,      \* pmap_max_asid
    Generations,  \* bound on pmap_asid_generation, which does not wrap here
    Prots,        \* the protections UVM asks for: "r", "rw"
    Wirings,      \* the values of flags & PMAP_WIRED that UVM asks for
    MaxRefs,      \* bound on pm_count
    MaxCount      \* bound on the statistics

VA == UVA \cup KVA

Pmaps == UserPmap \cup {Kernel}

ASSUME PmapAssumption ==
    /\ Kernel \notin UserPmap
    /\ UVA \cap KVA = {}
    /\ NoPage \notin Page
    /\ IsFiniteSet(UserPmap) /\ IsFiniteSet(VA)
    /\ MaxASID \in Nat \ {0, 1}
    /\ Generations \in Nat \ {0}
    /\ Prots \subseteq {"r", "rw"}
    /\ Wirings \subseteq BOOLEAN
    /\ MaxRefs \in Nat \ {0} /\ MaxCount \in Nat

VARIABLES
    pm_count,     \* reference counts; 0 for a pmap that does not exist
    pm_asid,      \* address space tags
    pm_asidgen,   \* their generations
    pm_segtab,    \* the segments that have a page of PTEs
    pm_stats,     \* resident_count and wired_count
    pte,          \* pte[p][va], the page tables
    pv,           \* pvh_list of each page: its mappings, the header first
    modified,     \* the pages whose pvh_attrs has PV_MODIFIED
    tlb,          \* tlb[tag][va], see Tag
    pmap_next_asid,
    pmap_asid_generation,
    curpmap,      \* the pmap of curlwp; segbase is its segment table
    asid,         \* the ASID field of TLBEHI
    halted        \* "no", or why the machine stopped

vars == <<pm_count, pm_asid, pm_asidgen, pm_segtab, pm_stats, pte, pv,
          modified, tlb, pmap_next_asid, pmap_asid_generation, curpmap, asid,
          halted>>

\* The groups of variables that many operations leave alone.
asids == <<pm_asid, pm_asidgen, pmap_next_asid, pmap_asid_generation,
           curpmap, asid>>
maps == <<pm_stats, pte, pv>>

PMAP_ASID_RESERVED == 0

ASID == 0 .. MaxASID - 1

(***************************************************************************)
(* A TLB entry is found by its address and the ASID in TLBEHI, or by the   *)
(* address alone when AVR32_PG_GLOBAL is set: its tag is that ASID, or     *)
(* Global, a number that is not an ASID.  tlbs followed by tlbw replaces   *)
(* the entry with the same tag, so there is at most one for each tag and   *)
(* address.                                                                *)
(***************************************************************************)
Global == MaxASID

Tag == 0 .. Global

Entry == [pfn: Page, write: BOOLEAN, dirty: BOOLEAN]

NoEntry == [pfn |-> NoPage, write |-> FALSE, dirty |-> FALSE]

\* valid is AVR32_PTE_VALID, wired is AVR32_PTE_WIRED.
PTE == {e \in [valid: BOOLEAN, wired: BOOLEAN, pfn: Page \cup {NoPage},
               write: BOOLEAN, dirty: BOOLEAN] : e.valid => e.pfn # NoPage}

NoPTE == [valid |-> FALSE, wired |-> FALSE,
          pfn |-> NoPage, write |-> FALSE, dirty |-> FALSE]

\* The software bits of a PTE are removed before it is written to the TLB.
Hard(e) == [pfn |-> e.pfn, write |-> e.write, dirty |-> e.dirty]

TagOf(p) == IF p = Kernel THEN Global ELSE pm_asid[p]

\* needflush, needupdate: p's tag may be in the TLB.
InTLB(p) == p = Kernel \/ pm_asidgen[p] = pmap_asid_generation

\* MachTLBUpdate()
TLBUpdate(t, tag, va, e) == [t EXCEPT ![tag][va] = e]

-----------------------------------------------------------------------------
(***************************************************************************)
(* pmap_remove(), for the set R of mappings.  A PTE that is not valid is   *)
(* skipped.                                                                *)
(***************************************************************************)
Valid(R) == {m \in R : pte[m[1]][m[2]].valid}

\* The mapping m is valid and of page g.
MapsPage(m, g) == pte[m[1]][m[2]].valid /\ pte[m[1]][m[2]].pfn = g

\* Slip: an address space that is not running needs no flush.
TLBWithoutCurrent(R) ==
    [t \in Tag |-> [va \in VA |->
        IF \E p \in Pmaps : /\ <<p, va>> \in Valid(R)
                            /\ p \in {Kernel, curpmap} /\ TagOf(p) = t
        THEN NoEntry ELSE tlb[t][va]]]

TLBWithout(R) ==
    [t \in Tag |-> [va \in VA |->
        IF \E p \in Pmaps : /\ <<p, va>> \in Valid(R)
                            /\ InTLB(p) /\ TagOf(p) = t
        THEN NoEntry ELSE tlb[t][va]]]

PTEWithout(R) ==
    [p \in Pmaps |-> [va \in VA |->
        IF <<p, va>> \in Valid(R) THEN NoPTE ELSE pte[p][va]]]

\* pmap_remove_pv(): the list keeps its order, the header is its first entry.
Without(list, D) ==
    LET kept[i \in 0 .. Len(list)] ==
            IF i = 0 THEN << >>
            ELSE IF list[i] \in D THEN kept[i - 1]
                                  ELSE Append(kept[i - 1], list[i])
    IN  kept[Len(list)]

PVWithout(R) ==
    [g \in Page |-> Without(pv[g], {m \in R : MapsPage(m, g)})]

Wired(R) == {m \in Valid(R) : pte[m[1]][m[2]].wired}

Of(p, R) == {m \in R : m[1] = p}

StatsWithout(R) ==
    [p \in Pmaps |->
        [resident |-> pm_stats[p].resident - Cardinality(Of(p, Valid(R))),
         wired |-> pm_stats[p].wired - Cardinality(Of(p, Wired(R)))]]

\* The mappings R are removed and nothing is put in their place.
RemoveMappings(R) ==
    /\ pte' = PTEWithout(R)
    /\ pv' = PVWithout(R)
    /\ pm_stats' = StatsWithout(R)
    /\ tlb' = TLBWithout(R)

\* UVM removes with pmap_kremove() what it entered with pmap_kenter_pa().
Remove(p, S) ==
    /\ halted = "no"
    /\ pm_count[p] > 0
    /\ p = Kernel => \A va \in S : ~pte[Kernel][va].valid
    /\ RemoveMappings({p} \X S)
    /\ UNCHANGED <<pm_count, pm_segtab, modified, asids, halted>>

-----------------------------------------------------------------------------
(***************************************************************************)
(* pmap_enter().                                                           *)
(***************************************************************************)
MappingsOf(g) == {pv[g][i] : i \in 1 .. Len(pv[g])}

\* Slip: mappings at another cache index are left in place.
ConflictsIgnored(g, va) == {}

\* The mappings of g at another cache index than va's.
Conflicts(g, va) ==
    {m \in Pmaps \X VA : m \in MappingsOf(g) /\ Colour[m[2]] # Colour[va]}

\* Slip: an entry already in the list is not looked for.
InsertAgain(list, m) ==
    IF list = << >> THEN <<m>> ELSE <<list[1], m>> \o Tail(list)

\* pmap_enter_pv(): m goes after the header unless it is in the list already.
Insert(list, m) ==
    CASE list = << >> -> <<m>>
      [] \E i \in 1 .. Len(list) : list[i] = m -> list
      [] OTHER -> <<list[1], m>> \o Tail(list)

\* The mapping that va has now, if it is of another page than g.
Replaced(p, va, g) ==
    IF pte[p][va].valid /\ pte[p][va].pfn # g THEN {<<p, va>>} ELSE {}

\* pvh_attrs after the call.
MarkedModified(g, acc) == IF acc = "rw" THEN modified \cup {g} ELSE modified

\* Slip: every writable page starts dirty.
NewEntryDirty(g, prot, acc) ==
    [pfn |-> g, write |-> prot = "rw", dirty |-> prot = "rw"]

NewEntry(g, prot, acc) ==
    [pfn |-> g, write |-> prot = "rw",
     dirty |-> prot = "rw" /\ g \in MarkedModified(g, acc)]

\* The PTE for entry e.
MakePTE(e, valid, wired) ==
    [valid |-> valid, wired |-> wired,
     pfn |-> e.pfn, write |-> e.write, dirty |-> e.dirty]

One(b) == IF b THEN 1 ELSE 0

\* Slip: a mapping that only changes is counted again.
NewResidentAlways(p, va, R) == 1

\* What the new mapping adds to resident_count.
NewResident(p, va, R) == One(~PTEWithout(R)[p][va].valid)

(***************************************************************************)
(* The part that user and kernel mappings share, with R the mappings that  *)
(* are removed on the way and v the valid bit of the new PTE.              *)
(***************************************************************************)
EnterMapping(p, va, g, e, wired, v, R) ==
    /\ pv' = [PVWithout(R) EXCEPT ![g] = Insert(@, <<p, va>>)]
    /\ pte' = [PTEWithout(R) EXCEPT ![p][va] = MakePTE(e, v, wired)]
    /\ pm_stats' = [StatsWithout(R) EXCEPT
           ![p].wired = @ + One(wired),
           ![p].resident = @ + NewResident(p, va, R)]
    /\ tlb' = IF InTLB(p) THEN TLBUpdate(TLBWithout(R), TagOf(p), va, e)
                          ELSE TLBWithout(R)

\* Removing a conflicting mapping leaves its pv entry in the list if the PTE
\* is not valid, or has got another page from pmap_kenter_pa() since, and
\* pmap_enter_pv() looks at the entry again and again.
EnterSpins(g, va) == \E m \in Conflicts(g, va) : ~MapsPage(m, g)

\* The access that caused the fault ("none" for a neighbour page) is allowed
\* by the protection.
Access(prot) == IF prot = "rw" THEN {"none", "r", "rw"} ELSE {"none", "r"}

Enter(p, va, g, prot, acc, wired) ==
    /\ halted = "no"
    /\ pm_count[p] > 0
    /\ ~EnterSpins(g, va)
    /\ wired => pm_stats[p].wired < MaxCount
    /\ modified' = MarkedModified(g, acc)
    /\ pm_segtab' = [pm_segtab EXCEPT ![p] = @ \cup {Segment[va]}]
    /\ EnterMapping(p, va, g, NewEntry(g, prot, acc), wired, TRUE,
                    Conflicts(g, va) \cup Replaced(p, va, g))
    /\ UNCHANGED <<pm_count, asids, halted>>

\* No memory for a page of PTEs and PMAP_CANFAIL: ENOMEM, but pvh_attrs is
\* already changed.
EnterNoMemory(p, va, g, acc) ==
    /\ halted = "no"
    /\ pm_count[p] > 0
    /\ Segment[va] \notin pm_segtab[p]
    /\ modified' = MarkedModified(g, acc)
    /\ UNCHANGED <<pm_count, pm_segtab, maps, tlb, asids, halted>>

\* Removing what pmap_kenter_pa() has entered makes the kernel's statistics
\* negative; this bounds them.
KernelStatsBounded ==
    pm_stats[Kernel].resident >= -MaxCount /\ pm_stats[Kernel].wired >= -MaxCount

\* The new PTE has AVR32_PG_VALID, which is AVR32_PG_CACHED there, where
\* AVR32_PTE_VALID was meant: it is not valid.  UVM never enters a mapping
\* over one made by pmap_kenter_pa(), so there is none to replace.
EnterKernel(va, g, prot, acc, wired) ==
    /\ halted = "no"
    /\ ~pte[Kernel][va].valid
    /\ ~EnterSpins(g, va)
    /\ KernelStatsBounded
    /\ pm_stats[Kernel].resident < MaxCount
    /\ wired => pm_stats[Kernel].wired < MaxCount
    /\ modified' = MarkedModified(g, acc)
    /\ EnterMapping(Kernel, va, g, NewEntry(g, prot, acc), wired, FALSE,
                    Conflicts(g, va))
    /\ UNCHANGED <<pm_count, pm_segtab, asids, halted>>

\* pmap_enter_pv() never returns.
EnterForever(p, va, g) ==
    /\ halted = "no"
    /\ pm_count[p] > 0
    /\ EnterSpins(g, va)
    /\ halted' = "loop"
    /\ UNCHANGED <<pm_count, pm_segtab, modified, maps, tlb, asids>>

\* The list of g has entries, but none for m that could be reused.
NeedsPV(g, m) ==
    pv[g] # << >> /\ \A i \in 1 .. Len(pv[g]) : pv[g][i] # m

\* No memory for a page of PTEs without PMAP_CANFAIL, or none for a pv entry:
\* the machine stops, and what was changed before is not seen any more.
EnterPanics(p, va, g) ==
    /\ halted = "no"
    /\ pm_count[p] > 0
    /\ \/ p # Kernel /\ Segment[va] \notin pm_segtab[p]
       \/ NeedsPV(g, <<p, va>>)
    /\ halted' = "panic"
    /\ UNCHANGED <<pm_count, pm_segtab, modified, maps, tlb, asids>>

-----------------------------------------------------------------------------
(***************************************************************************)
(* pmap_protect() with read access left; without, it is pmap_remove().     *)
(* For the kernel the TLB entry is written without AVR32_PG_VALID, which   *)
(* removes it, and a dirty page goes to avr32_dcache_wb_range(), which     *)
(* panics "notyet".                                                        *)
(***************************************************************************)
Reprotected(e, prot) == [e EXCEPT !.write = prot = "rw", !.dirty = FALSE]

\* Slip: the TLB keeps the old protection.
TLBReprotectedNot(p, S, prot) == tlb

TLBReprotected(p, S, prot) ==
    [t \in Tag |-> [va \in VA |->
        IF va \in S /\ pte[p][va].valid /\ InTLB(p) /\ TagOf(p) = t
        THEN IF p = Kernel THEN NoEntry
             ELSE Hard(Reprotected(pte[p][va], prot))
        ELSE tlb[t][va]]]

KernelWriteBack(S) ==
    \E va \in S : pte[Kernel][va].valid /\ pte[Kernel][va].dirty

ProtectPanics(S) ==
    /\ halted = "no"
    /\ KernelWriteBack(S)
    /\ halted' = "panic"
    /\ UNCHANGED <<pm_count, pm_segtab, modified, maps, tlb, asids>>

Protect(p, S, prot) ==
    /\ halted = "no"
    /\ pm_count[p] > 0
    /\ p = Kernel => ~KernelWriteBack(S)
    /\ pte' = [pte EXCEPT ![p] = [va \in VA |->
                 IF va \in S /\ pte[p][va].valid
                 THEN Reprotected(pte[p][va], prot) ELSE pte[p][va]]]
    /\ tlb' = TLBReprotected(p, S, prot)
    /\ UNCHANGED <<pm_count, pm_segtab, pm_stats, pv, modified, asids, halted>>

(***************************************************************************)
(* pmap_page_protect(g, VM_PROT_NONE).  The loop follows pv_next from the  *)
(* header while pmap_remove() changes the list under it.  Removing the     *)
(* first mapping copies the second into the header, so the loop goes on    *)
(* with the third.  Removing a later one frees the entry that the loop     *)
(* then reads: it ends if pv_next still is NULL there, and otherwise       *)
(* follows a pointer into the pool's free list.  An entry whose PTE does   *)
(* not map g any more stays in the list.                                   *)
(***************************************************************************)
Removable(g, i) == MapsPage(pv[g][i], g)

\* The entries that the loop may come to after the header.
Later(g) == {i \in 2 .. Len(pv[g]) : Removable(g, 1) => i > 2}

\* The last one it removes, if any.
SecondRemoved(g) ==
    {i \in Later(g) : /\ Removable(g, i)
                      /\ \A j \in Later(g) : Removable(g, j) => i <= j}

\* The ones it comes to.
Reached(g) ==
    {i \in 1 .. Len(pv[g]) :
        i = 1 \/ (i \in Later(g) /\ \A j \in SecondRemoved(g) : i <= j)}

PageProtect(g) ==
    /\ halted = "no"
    /\ RemoveMappings({pv[g][i] : i \in Reached(g)})
    /\ \/ UNCHANGED halted
       \/ SecondRemoved(g) # {} /\ halted' = "panic"
    /\ UNCHANGED <<pm_count, pm_segtab, modified, asids>>

(***************************************************************************)
(* pmap_clear_modify(g).  avr32_tbis() is called without AVR32_PG_VALID,   *)
(* and panics, for a dirty mapping whose ASID is of this generation; the   *)
(* kernel's is compared like any other here.                               *)
(***************************************************************************)
Dirty(g) == {m \in MappingsOf(g) : pte[m[1]][m[2]].dirty}

ClearModify(g) ==
    /\ halted = "no"
    /\ g \in modified
    /\ IF \E m \in Dirty(g) : pm_asidgen[m[1]] = pmap_asid_generation
       THEN halted' = "panic" /\ UNCHANGED <<modified, pte>>
       ELSE /\ modified' = modified \ {g}
            /\ pte' = [p \in Pmaps |-> [va \in VA |->
                  IF <<p, va>> \in Dirty(g)
                  THEN [pte[p][va] EXCEPT !.dirty = FALSE] ELSE pte[p][va]]]
            /\ UNCHANGED halted
    /\ UNCHANGED <<pm_count, pm_segtab, pm_stats, pv, tlb, asids>>

-----------------------------------------------------------------------------
(***************************************************************************)
(* pmap_kenter_pa() and pmap_kremove(): wired kernel mappings outside the  *)
(* pv lists and the statistics.                                            *)
(***************************************************************************)
KEnter(va, g, prot) ==
    LET e == [pfn |-> g, write |-> prot = "rw", dirty |-> prot = "rw"] IN
    /\ halted = "no"
    /\ ~pte[Kernel][va].valid
    /\ KernelStatsBounded
    /\ pte' = [pte EXCEPT ![Kernel][va] = MakePTE(e, TRUE, TRUE)]
    /\ tlb' = TLBUpdate(tlb, Global, va, e)
    /\ UNCHANGED <<pm_count, pm_segtab, pm_stats, pv, modified, asids, halted>>

\* Slip: the TLB is not flushed.
KRemoveUnflushed(S) ==
    /\ halted = "no"
    /\ pte' = PTEWithout({Kernel} \X S)
    /\ UNCHANGED <<pm_count, pm_segtab, pm_stats, pv, modified, tlb, asids,
                   halted>>

KRemove(S) ==
    /\ halted = "no"
    /\ pte' = PTEWithout({Kernel} \X S)
    /\ tlb' = TLBWithout({Kernel} \X S)
    /\ UNCHANGED <<pm_count, pm_segtab, pm_stats, pv, modified, asids, halted>>

-----------------------------------------------------------------------------
(***************************************************************************)
(* pmap_create(), pmap_reference(), pmap_destroy(), pmap_activate()        *)
(***************************************************************************)
Create(p) ==
    /\ halted = "no"
    /\ pm_count[p] = 0
    /\ pm_count' = [pm_count EXCEPT ![p] = 1]
    /\ pm_asid' = [pm_asid EXCEPT ![p] = PMAP_ASID_RESERVED]
    /\ pm_asidgen' = [pm_asidgen EXCEPT ![p] = pmap_asid_generation]
    /\ pm_segtab' = [pm_segtab EXCEPT ![p] = {}]
    /\ pm_stats' = [pm_stats EXCEPT ![p] = [resident |-> 0, wired |-> 0]]
    /\ UNCHANGED <<pte, pv, modified, tlb, pmap_next_asid,
                   pmap_asid_generation, curpmap, asid, halted>>

Reference(p) ==
    /\ halted = "no"
    /\ pm_count[p] \in 1 .. MaxRefs - 1
    /\ pm_count' = [pm_count EXCEPT ![p] = @ + 1]
    /\ UNCHANGED <<pm_segtab, maps, modified, tlb, asids, halted>>

\* UVM has unmapped everything and switched away before the last reference
\* goes.
Destroy(p) ==
    /\ halted = "no"
    /\ pm_count[p] > 0
    /\ pm_count[p] = 1 =>
          p # curpmap /\ \A va \in UVA : ~pte[p][va].valid
    /\ pm_count' = [pm_count EXCEPT ![p] = @ - 1]
    /\ pm_segtab' = IF pm_count[p] = 1 THEN [pm_segtab EXCEPT ![p] = {}]
                                       ELSE pm_segtab
    /\ UNCHANGED <<maps, modified, tlb, asids, halted>>

\* avr32_tbiap(): only global entries stay.
TLBGlobal == [t \in Tag |-> [va \in VA |->
                 IF t = Global THEN tlb[t][va] ELSE NoEntry]]

NeedsASID(p) ==
    \/ pm_asid[p] = PMAP_ASID_RESERVED
    \/ pm_asidgen[p] # pmap_asid_generation

\* pmap_activate() of an LWP whose pmap p has an ASID of this generation.
Activate(p) ==
    /\ halted = "no"
    /\ pm_count[p] > 0
    /\ ~NeedsASID(p)
    /\ curpmap' = p
    /\ asid' = pm_asid[p]
    /\ UNCHANGED <<pm_count, pm_asid, pm_asidgen, pm_segtab, maps, modified,
                   tlb, pmap_next_asid, pmap_asid_generation, halted>>

\* The next ASID goes to p, which runs.
TakeASID(p, next, gen) ==
    /\ pm_asid' = [pm_asid EXCEPT ![p] = next]
    /\ pm_asidgen' = [pm_asidgen EXCEPT ![p] = gen]
    /\ pmap_next_asid' = next + 1
    /\ pmap_asid_generation' = gen
    /\ curpmap' = p
    /\ asid' = next
    /\ UNCHANGED <<pm_count, pm_segtab, maps, modified, halted>>

\* Slip: one ASID too many is given out.
ActivateAllocPastEnd(p) ==
    /\ halted = "no"
    /\ pm_count[p] > 0
    /\ NeedsASID(p)
    /\ pmap_next_asid # MaxASID + 1
    /\ TakeASID(p, pmap_next_asid, pmap_asid_generation)
    /\ UNCHANGED tlb

ActivateAlloc(p) ==
    /\ halted = "no"
    /\ pm_count[p] > 0
    /\ NeedsASID(p)
    /\ pmap_next_asid # MaxASID
    /\ TakeASID(p, pmap_next_asid, pmap_asid_generation)
    /\ UNCHANGED tlb

\* Slip: the generation is stepped without flushing the TLB.
ActivateRolloverUnflushed(p) ==
    /\ halted = "no"
    /\ pm_count[p] > 0
    /\ NeedsASID(p)
    /\ pmap_next_asid = MaxASID
    /\ pmap_asid_generation + 1 < Generations
    /\ TakeASID(p, 1, pmap_asid_generation + 1)
    /\ UNCHANGED tlb

\* Slip: the new generation starts, and the old ones stay in use.
ActivateRolloverSilent(p) ==
    /\ halted = "no"
    /\ pm_count[p] > 0
    /\ NeedsASID(p)
    /\ pmap_next_asid = MaxASID
    /\ TakeASID(p, 1, pmap_asid_generation)
    /\ tlb' = TLBGlobal

\* Out of ASIDs: flush the TLB and start a new generation.
ActivateRollover(p) ==
    /\ halted = "no"
    /\ pm_count[p] > 0
    /\ NeedsASID(p)
    /\ pmap_next_asid = MaxASID
    /\ pmap_asid_generation + 1 < Generations
    /\ TakeASID(p, 1, pmap_asid_generation + 1)
    /\ tlb' = TLBGlobal

-----------------------------------------------------------------------------
(***************************************************************************)
(* The hardware and the handlers it calls while curpmap's LWP runs.        *)
(***************************************************************************)
\* The processor replaces an entry.
Evict(t, va) ==
    /\ halted = "no"
    /\ tlb[t][va] # NoEntry
    /\ tlb' = TLBUpdate(tlb, t, va, NoEntry)
    /\ UNCHANGED <<pm_count, pm_segtab, maps, modified, asids, halted>>

\* usertlbmiss: any PTE that is not zero is loaded, under the current ASID.
UserMiss(va) ==
    /\ halted = "no"
    /\ curpmap # Kernel
    /\ tlb[asid][va] = NoEntry
    /\ Segment[va] \in pm_segtab[curpmap]
    /\ pte[curpmap][va] # NoPTE
    /\ tlb' = TLBUpdate(tlb, asid, va, Hard(pte[curpmap][va]))
    /\ UNCHANGED <<pm_count, pm_segtab, maps, modified, asids, halted>>

\* avr32_tlb_miss for a kernel address.
KernelMiss(va) ==
    /\ halted = "no"
    /\ tlb[Global][va] = NoEntry
    /\ pte[Kernel][va].valid
    /\ tlb' = TLBUpdate(tlb, Global, va, Hard(pte[Kernel][va]))
    /\ UNCHANGED <<pm_count, pm_segtab, maps, modified, asids, halted>>

\* T_TLB_MOD panics on this PTE.
BadMod(e) == ~e.valid \/ e.dirty \/ ~e.write

\* A store to a page whose TLB entry is writable but clean: T_TLB_MOD.
TLBMod(va) ==
    LET e == [pte[curpmap][va] EXCEPT !.dirty = TRUE] IN
    /\ halted = "no"
    /\ curpmap # Kernel
    /\ tlb[asid][va].write /\ ~tlb[asid][va].dirty
    /\ IF BadMod(pte[curpmap][va])
       THEN halted' = "utlbmod" /\ UNCHANGED <<pte, tlb, modified>>
       ELSE /\ pte' = [pte EXCEPT ![curpmap][va] = e]
            /\ tlb' = TLBUpdate(tlb, pm_asid[curpmap], va, Hard(e))
            /\ modified' = modified \cup {e.pfn}
            /\ UNCHANGED halted
    /\ UNCHANGED <<pm_count, pm_segtab, pm_stats, pv, asids>>

-----------------------------------------------------------------------------
\* pmap_bootstrap() and pmap_init(): the kernel runs on its own pmap, which
\* has not been activated yet.
Init ==
    /\ pm_count = [p \in Pmaps |-> One(p = Kernel)]
    /\ pm_asid = [p \in Pmaps |-> PMAP_ASID_RESERVED]
    /\ pm_asidgen = [p \in Pmaps |-> 0]
    /\ pm_segtab = [p \in Pmaps |-> {}]
    /\ pm_stats = [p \in Pmaps |-> [resident |-> 0, wired |-> 0]]
    /\ pte = [p \in Pmaps |-> [va \in VA |-> NoPTE]]
    /\ pv = [g \in Page |-> << >>]
    /\ modified = {}
    /\ tlb = [t \in Tag |-> [va \in VA |-> NoEntry]]
    /\ pmap_next_asid = 1
    /\ pmap_asid_generation = 0
    /\ curpmap = Kernel
    /\ asid = 0
    /\ halted = "no"

UserOp(p) ==
    \/ \E S \in SUBSET UVA \ {{}} : Remove(p, S)
    \/ \E S \in SUBSET UVA \ {{}}, prot \in Prots : Protect(p, S, prot)
    \/ \E va \in UVA, g \in Page, prot \in Prots, wired \in Wirings :
          \E acc \in Access(prot) :
             \/ Enter(p, va, g, prot, acc, wired)
             \/ EnterNoMemory(p, va, g, acc)
    \/ \E va \in UVA, g \in Page : EnterForever(p, va, g) \/ EnterPanics(p, va, g)
    \/ Create(p) \/ Reference(p) \/ Destroy(p)

KernelOp ==
    \/ \E S \in SUBSET KVA \ {{}} : Remove(Kernel, S) \/ KRemove(S)
    \/ \E S \in SUBSET KVA \ {{}}, prot \in Prots : Protect(Kernel, S, prot)
    \/ \E va \in KVA, g \in Page, prot \in Prots :
          \/ KEnter(va, g, prot)
          \/ \E acc \in Access(prot), wired \in Wirings :
                EnterKernel(va, g, prot, acc, wired)
    \/ \E S \in SUBSET KVA \ {{}} : ProtectPanics(S)
    \/ \E va \in KVA, g \in Page :
          EnterForever(Kernel, va, g) \/ EnterPanics(Kernel, va, g)

Next ==
    \/ \E p \in UserPmap : UserOp(p)
    \/ KernelOp
    \/ \E p \in Pmaps : Activate(p) \/ ActivateAlloc(p) \/ ActivateRollover(p)
    \/ \E g \in Page : PageProtect(g) \/ ClearModify(g)
    \/ \E t \in Tag, va \in VA : Evict(t, va)
    \/ \E va \in UVA : UserMiss(va) \/ TLBMod(va)
    \/ \E va \in KVA : KernelMiss(va)

Spec == Init /\ [][Next]_vars

-----------------------------------------------------------------------------
(***************************************************************************)
(* What the variables hold.  MMUTypeOK is the part that the argument about *)
(* the TLB needs.                                                          *)
(***************************************************************************)
MMUTypeOK ==
    /\ pm_count \in [Pmaps -> Nat]
    /\ pm_asid \in [Pmaps -> ASID]
    /\ pm_asidgen \in [Pmaps -> Nat]
    /\ pte \in [Pmaps -> [VA -> PTE]]
    /\ tlb \in [Tag -> [VA -> Entry \cup {NoEntry}]]
    /\ pmap_next_asid \in 1 .. MaxASID
    /\ pmap_asid_generation \in Nat
    /\ curpmap \in Pmaps
    /\ asid \in ASID

TypeOK ==
    /\ MMUTypeOK
    /\ pm_segtab \in [Pmaps -> SUBSET {Segment[va] : va \in UVA}]
    /\ pm_stats \in [Pmaps -> [resident: Int, wired: Int]]
    /\ pv \in [Page -> Seq(Pmaps \X VA)]
    /\ modified \subseteq Page
    /\ halted \in {"no", "panic", "loop", "utlbmod"}

-----------------------------------------------------------------------------
(***************************************************************************)
(* ASIDs and the TLB.                                                      *)
(***************************************************************************)
Live(p) == pm_count[p] > 0

\* p has an ASID of its own.
Owns(p) == ~NeedsASID(p)

\* pmap_asid_alloc(): two address spaces never have the same ASID in the
\* current generation, whatever was created, destroyed and switched to.
ASIDUnique ==
    \A p, q \in Pmaps :
       p # q /\ Owns(p) /\ Owns(q) => pm_asid[p] # pm_asid[q]

\* No stale translation: what the TLB holds under an address space's ASID is
\* what its page table says, after any sequence of pmap_enter(),
\* pmap_remove(), pmap_protect(), page-out, ASID roll-overs and misses.
TLBMatchesPTE ==
    \A p \in UserPmap, va \in UVA :
       Owns(p) /\ tlb[pm_asid[p]][va] # NoEntry =>
          pte[p][va].valid /\ tlb[pm_asid[p]][va] = Hard(pte[p][va])

\* The processor runs under the ASID of the address space that runs, or under
\* the reserved one before the first pmap_activate().
RunsUnderOwnASID ==
    /\ Live(curpmap)
    /\ \/ asid = pm_asid[curpmap] /\ Owns(curpmap)
       \/ curpmap = Kernel

\* ASIDs still to be given out are above all that are in use, and the TLB has
\* no entry under them: an address space does not inherit the translations of
\* an earlier one.
FreeASIDsClean ==
    /\ \A p \in Pmaps : Owns(p) => pm_asid[p] < pmap_next_asid
    /\ \A t \in ASID, va \in UVA : t >= pmap_next_asid => tlb[t][va] = NoEntry

GenerationsPassed ==
    \A p \in Pmaps : pm_asidgen[p] <= pmap_asid_generation

\* usertlbmiss may take any user PTE that is not zero for a valid one.
UserPTEsValid ==
    \A p \in UserPmap, va \in UVA : pte[p][va].valid \/ pte[p][va] = NoPTE

\* The consistency checks of the T_TLB_MOD handler in trap.c never fail: a
\* store to a clean page always finds a valid, clean and writable PTE.
ModTrapFindsPTE == halted # "utlbmod"

\* The inductive invariant behind ASIDUnique, TLBMatchesPTE and
\* ModTrapFindsPTE: the running address space uses its own ASID, and what
\* pmap_asid_alloc() will give out next is new and has a clean TLB.
TLBInv ==
    /\ MMUTypeOK
    /\ ASIDUnique
    /\ TLBMatchesPTE
    /\ RunsUnderOwnASID
    /\ FreeASIDsClean
    /\ GenerationsPassed
    /\ UserPTEsValid
    /\ ModTrapFindsPTE

\* A kernel TLB entry translates as the kernel page table does (pmap_kremove()
\* leaves nothing behind); whether it is dirty is another matter, because
\* pmap_clear_modify() looks at the kernel's ASID generation.
KernelTLBMatchesPTE ==
    \A va \in KVA :
       tlb[Global][va] # NoEntry =>
          /\ tlb[Global][va].pfn = pte[Kernel][va].pfn
          /\ tlb[Global][va].write = pte[Kernel][va].write

-----------------------------------------------------------------------------
(***************************************************************************)
(* Page tables, pv lists and statistics.                                   *)
(***************************************************************************)
\* The pv list of a page holds each of its user mappings exactly once, and
\* no other: pmap_page_protect() and pmap_clear_modify() can find every
\* mapping there is by following the list.
PVListExact ==
    \A g \in Page :
       /\ \A p \in UserPmap, va \in UVA :
             <<p, va>> \in MappingsOf(g) <=> /\ pte[p][va].valid
                                             /\ pte[p][va].pfn = g
       /\ \A i, j \in 1 .. Len(pv[g]) : pv[g][i] = pv[g][j] => i = j

\* pmap_enter_pv(): all mappings of a page have the same cache index, so that
\* a store through one is seen through the others.
OneCacheIndex ==
    \A g \in Page : \A m, n \in MappingsOf(g) : Colour[m[2]] = Colour[n[2]]

\* resident_count is the number of valid mappings of a user pmap.
ResidentCountExact ==
    \A p \in UserPmap : Live(p) =>
       pm_stats[p].resident = Cardinality({va \in UVA : pte[p][va].valid})

\* pmap_enter(), T_TLB_MOD and pmap_clear_modify() together: a page that some
\* LWP can write to without a trap has PV_MODIFIED set, so no change of a page
\* goes unnoticed by the pager.
WritesNoticed ==
    \A p \in UserPmap, va \in UVA :
       /\ pte[p][va].dirty => pte[p][va].pfn \in modified
       /\ Owns(p) /\ tlb[pm_asid[p]][va].dirty =>
             tlb[pm_asid[p]][va].pfn \in modified

\* A valid PTE of a user address space is at a user address, and the address
\* space exists.
UserMapsLive ==
    \A p \in UserPmap, va \in VA : pte[p][va].valid => Live(p) /\ va \in UVA

\* The part of WritesNoticed that speaks of the page tables alone.
DirtyNoticed ==
    \A p \in UserPmap, va \in UVA :
       pte[p][va].dirty => pte[p][va].pfn \in modified

\* What is inductive, with TLBInv, about the mappings.
MapsInv ==
    /\ pv \in [Page -> Seq(Pmaps \X VA)]
    /\ pm_stats \in [Pmaps -> [resident: Int, wired: Int]]
    /\ KernelTLBMatchesPTE
    /\ PVListExact /\ OneCacheIndex
    /\ UserMapsLive /\ ResidentCountExact
    /\ DirtyNoticed

\* All of it: the state is well formed, every address space that runs has an
\* ASID of its own and the TLB follows the page tables, a page's list names
\* exactly its mappings, and they share a cache index and are counted.
PmapInv == TypeOK /\ TLBInv /\ MapsInv

-----------------------------------------------------------------------------
(***************************************************************************)
(* What the comments of pmap.c and uvm_pmap.h promise and the code does    *)
(* not do.                                                                 *)
(***************************************************************************)
\* pmap_extract() of a page outside P1
Extract(p, va) == IF pte[p][va].valid THEN pte[p][va].pfn ELSE NoPage

\* pmap_enter() "must actually insert this page into the given map NOW":
\* pmap_extract() finds what pmap_enter() has entered, in the kernel pmap too.
EnterInsertsNow ==
    [][\A va \in KVA, g \in Page, prot \in Prots, wired \in Wirings :
          \A acc \in Access(prot) :
             EnterKernel(va, g, prot, acc, wired) =>
                Extract(Kernel, va)' = g]_vars

\* pmap_page_protect() lowers "the permission for all mappings to a given
\* page": with VM_PROT_NONE no user mapping of the page is left.
PageProtectReachesAll ==
    [][\A g \in Page : PageProtect(g) =>
          \A p \in UserPmap, va \in UVA : Extract(p, va)' # g]_vars

\* pmap_clear_modify() removes "write access from any pages that are dirty so
\* we can tell if they are written to again later": it returns, and a store
\* to the page traps again.
ClearModifyReturns ==
    [][\A g \in Page : ClearModify(g) =>
          /\ halted' = "no"
          /\ \A m \in MappingsOf(g) : ~pte'[m[1]][m[2]].dirty]_vars

\* wired_count is "# of pages wired".
WiredCountExact ==
    \A p \in UserPmap : Live(p) =>
       pm_stats[p].wired = Cardinality({va \in UVA : pte[p][va].wired})
=============================================================================
