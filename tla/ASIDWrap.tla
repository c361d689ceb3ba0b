------------------------------ MODULE ASIDWrap ------------------------------
(***************************************************************************)
(* The ASIDs of the AVR32 pmap when their generation wraps around          *)
(* (sys/arch/avr32/avr32/pmap.c, pmap_asid_alloc: "ok to wrap to 0").      *)
(*                                                                         *)
(* Pmap has all of the pmap but a generation that only grows.  Here the    *)
(* generation is an unsigned int of few bits, and of the TLB there is only *)
(* whose entries it holds under which ASID (that the processor may replace *)
(* them changes nothing that matters here).  A pmap that is not activated  *)
(* while the generation goes round would find its old ASID valid again:    *)
(* MaxIdle is how many generations a pmap may miss.                        *)
(*                                                                         *)
(* A definition marked "Slip" is the one that follows it with a plausible  *)
(* mistake: the properties are shown to reject it.                         *)
(***************************************************************************)
EXTENDS Naturals

CONSTANTS
    PmapID,
    None,      \* no pmap runs
    MaxASID,   \* pmap_max_asid
    GenBits,   \* the width of pmap_asid_generation
    MaxIdle

ASSUME WrapAssumption ==
    /\ None \notin PmapID
    /\ MaxASID \in Nat \ {0, 1}
    /\ GenBits \in Nat
    /\ MaxIdle \in Nat /\ MaxIdle < 2^GenBits

VARIABLES
    live,                  \* the pmaps that have been created
    pm_asid, pm_asidgen,
    pmap_next_asid, pmap_asid_generation,
    curpmap,               \* whose translations the processor is to use
    tlb,                   \* <<a, p>>: an entry of p's under ASID a
    missed                 \* history: the generations since pm_asidgen was set

vars == <<live, pm_asid, pm_asidgen, pmap_next_asid, pmap_asid_generation,
          curpmap, tlb, missed>>

PMAP_ASID_RESERVED == 0

Current(p) == pm_asidgen[p] = pmap_asid_generation

-----------------------------------------------------------------------------
\* pmap_create()
Create(p) ==
    /\ p \notin live
    /\ live' = live \cup {p}
    /\ pm_asid' = [pm_asid EXCEPT ![p] = PMAP_ASID_RESERVED]
    /\ pm_asidgen' = [pm_asidgen EXCEPT ![p] = pmap_asid_generation]
    /\ missed' = [missed EXCEPT ![p] = 0]
    /\ UNCHANGED <<pmap_next_asid, pmap_asid_generation, curpmap, tlb>>

\* pmap_remove() of all that p maps, and pmap_destroy()
Destroy(p) ==
    /\ p \in live \ {curpmap}
    /\ live' = live \ {p}
    /\ tlb' = IF Current(p) THEN tlb \ {<<pm_asid[p], p>>} ELSE tlb
    /\ UNCHANGED <<pm_asid, pm_asidgen, pmap_next_asid, pmap_asid_generation,
                   curpmap, missed>>

\* pmap_enter(), and a miss of the pmap that runs: the page is in the TLB.
Enter(p) ==
    /\ p \in live
    /\ Current(p)
    /\ tlb' = tlb \cup {<<pm_asid[p], p>>}
    /\ UNCHANGED <<live, pm_asid, pm_asidgen, pmap_next_asid,
                   pmap_asid_generation, curpmap, missed>>

\* pmap_activate() when the pmap's ASID is good.
Activate(p) ==
    /\ p \in live
    /\ pm_asid[p] # PMAP_ASID_RESERVED /\ Current(p)
    /\ curpmap' = p
    /\ UNCHANGED <<live, pm_asid, pm_asidgen, pmap_next_asid,
                   pmap_asid_generation, tlb, missed>>

\* pmap_activate() when the next one is taken ...
ActivateNext(p) ==
    /\ p \in live
    /\ pm_asid[p] = PMAP_ASID_RESERVED \/ ~Current(p)
    /\ pmap_next_asid # MaxASID
    /\ pm_asid' = [pm_asid EXCEPT ![p] = pmap_next_asid]
    /\ pm_asidgen' = [pm_asidgen EXCEPT ![p] = pmap_asid_generation]
    /\ pmap_next_asid' = pmap_next_asid + 1
    /\ missed' = [missed EXCEPT ![p] = 0]
    /\ curpmap' = p
    /\ UNCHANGED <<live, pmap_asid_generation, tlb>>

\* Slip: ASIDs start again, and the generation stays what it is.
ActivateRolloverSame(p) ==
    /\ p \in live
    /\ pm_asid[p] = PMAP_ASID_RESERVED \/ ~Current(p)
    /\ pmap_next_asid = MaxASID
    /\ tlb' = {}
    /\ pm_asid' = [pm_asid EXCEPT ![p] = 1]
    /\ pm_asidgen' = [pm_asidgen EXCEPT ![p] = pmap_asid_generation]
    /\ pmap_next_asid' = 2
    /\ curpmap' = p
    /\ UNCHANGED <<live, pmap_asid_generation, missed>>

\* ... and when none are left.
ActivateRollover(p) ==
    /\ p \in live
    /\ pm_asid[p] = PMAP_ASID_RESERVED \/ ~Current(p)
    /\ pmap_next_asid = MaxASID
    /\ \A q \in live \ {p} : missed[q] < MaxIdle
    /\ tlb' = {}
    /\ pmap_asid_generation' = (pmap_asid_generation + 1) % 2^GenBits
    /\ pm_asid' = [pm_asid EXCEPT ![p] = 1]
    /\ pm_asidgen' = [pm_asidgen EXCEPT ![p] = pmap_asid_generation']
    /\ pmap_next_asid' = 2
    /\ missed' = [q \in PmapID |->
                     IF q \in live \ {p} THEN missed[q] + 1 ELSE 0]
    /\ curpmap' = p
    /\ UNCHANGED live

-----------------------------------------------------------------------------
Init ==
    /\ live = {}
    /\ pm_asid = [p \in PmapID |-> PMAP_ASID_RESERVED]
    /\ pm_asidgen = [p \in PmapID |-> 0]
    /\ pmap_next_asid = 1
    /\ pmap_asid_generation = 0
    /\ curpmap = None
    /\ tlb = {}
    /\ missed = [p \in PmapID |-> 0]

Next == \E p \in PmapID :
    \/ Create(p) \/ Destroy(p) \/ Enter(p)
    \/ Activate(p) \/ ActivateNext(p) \/ ActivateRollover(p)

Spec == Init /\ [][Next]_vars

-----------------------------------------------------------------------------
(***************************************************************************)
(* As long as no pmap misses all generations but one, the processor finds  *)
(* only translations of the pmap that runs: pm_asidgen equal to the        *)
(* generation means that pm_asid was given out in this round, and a pmap   *)
(* created anew does not meet what its predecessor left.                   *)
(***************************************************************************)
OwnTranslations ==
    /\ \A e \in tlb : e[1] # PMAP_ASID_RESERVED /\ e[1] = pm_asid[curpmap]
                          => e[2] = curpmap
    /\ \A p, q \in live : /\ p # q /\ Current(p) /\ Current(q)
                          /\ pm_asid[p] # PMAP_ASID_RESERVED
                          => pm_asid[p] # pm_asid[q]
    /\ \A p \in live : Current(p) <=> missed[p] = 0
    /\ \A e \in tlb : e[1] # PMAP_ASID_RESERVED => e[2] \in live

-----------------------------------------------------------------------------
(* The inductive invariant, in parts. *)
TypeOK ==
    /\ live \subseteq PmapID
    /\ pm_asid \in [PmapID -> 0 .. MaxASID - 1]
    /\ pm_asidgen \in [PmapID -> 0 .. 2^GenBits - 1]
    /\ pmap_next_asid \in 1 .. MaxASID
    /\ pmap_asid_generation \in 0 .. 2^GenBits - 1
    /\ curpmap \in live \cup {None}
    /\ tlb \subseteq (0 .. MaxASID - 1) \X PmapID
    /\ missed \in [PmapID -> 0 .. MaxIdle]

\* A pmap's generation and those it has missed make the present one, or have
\* gone round once.
Behind(p) ==
    \/ pm_asidgen[p] + missed[p] = pmap_asid_generation
    \/ pm_asidgen[p] + missed[p] = pmap_asid_generation + 2^GenBits

GivenOut(p) == Current(p) /\ pm_asid[p] # PMAP_ASID_RESERVED

\* The ASIDs of this generation are those below the next one, each a pmap's.
ASIDInv ==
    \A p \in live :
        /\ Behind(p)
        /\ GivenOut(p) => pm_asid[p] < pmap_next_asid
        /\ \A q \in live : GivenOut(p) /\ GivenOut(q) /\ pm_asid[p] = pm_asid[q]
                              => p = q

\* An entry is its pmap's of this generation, and so is what runs.
TLBInv ==
    /\ \A e \in tlb : e[1] # PMAP_ASID_RESERVED =>
          e[2] \in live /\ GivenOut(e[2]) /\ e[1] = pm_asid[e[2]]
    /\ curpmap # None => GivenOut(curpmap)
    /\ curpmap = None => \A p \in PmapID : pm_asid[p] = PMAP_ASID_RESERVED

WrapInv == TypeOK /\ ASIDInv /\ TLBInv
=============================================================================
