--------------------------- MODULE ASIDWrapProofs ---------------------------
(***************************************************************************)
(* Proofs about ASIDWrap, for any set of pmaps, any number of ASIDs and    *)
(* any width of pmap_asid_generation: a generation that wraps to 0 does no *)
(* harm to a pmap that has missed fewer generations than there are.        *)
(***************************************************************************)
EXTENDS ASIDWrap, TLAPS

\* There is at least one generation.
LEMMA Generations == 2^GenBits \in Nat \ {0}
BY WrapAssumption

\* Stepping a generation of M: the last one is followed by 0.
LEMMA Wraps ==
    ASSUME NEW M \in Nat \ {0}, NEW g \in 0 .. M - 1
    PROVE  (g + 1) % M = IF g + 1 = M THEN 0 ELSE g + 1
<1>1. CASE g + 1 = M
    BY <1>1, Z3
<1>2. CASE g + 1 < M
    BY <1>2, Z3
<1> QED
    BY <1>1, <1>2

\* Fewer than M steps lead from a generation to itself only if there are none.
LEMMA GoneRound ==
    ASSUME NEW M \in Nat \ {0}, NEW g \in 0 .. M - 1, NEW a \in 0 .. M - 1,
           NEW m \in Nat, m < M,
           a + m = g \/ a + m = g + M
    PROVE  a = g <=> m = 0
OBVIOUS

\* No pmap has been created.
LEMMA InitWrap ==
    ASSUME Init
    PROVE  WrapInv
BY WrapAssumption, Generations
   DEF Init, WrapInv, TypeOK, ASIDInv, TLBInv, PMAP_ASID_RESERVED

-----------------------------------------------------------------------------
(* One lemma per action. *)

\* pmap_create(): nothing in the TLB is of a pmap that is not there yet.
LEMMA CreateInv ==
    ASSUME WrapInv, NEW p \in PmapID, Create(p)
    PROVE  WrapInv'
<1> USE DEF WrapInv, Create, PMAP_ASID_RESERVED
<1>1. TypeOK'
    BY WrapAssumption DEF TypeOK
<1>2. ASIDInv'
    BY <1>1, Generations DEF TypeOK, ASIDInv, Behind, GivenOut, Current
<1>3. TLBInv'
    BY WrapAssumption DEF TypeOK, TLBInv, GivenOut, Current
<1> QED
    BY <1>1, <1>2, <1>3

\* pmap_destroy(): the entries go with the pmap.
LEMMA DestroyInv ==
    ASSUME WrapInv, NEW p \in PmapID, Destroy(p)
    PROVE  WrapInv'
<1> USE DEF WrapInv, Destroy, PMAP_ASID_RESERVED
<1>1. TypeOK'
    BY DEF TypeOK
<1>2. ASIDInv'
    BY DEF ASIDInv, Behind, GivenOut, Current
<1>3. TLBInv'
    BY DEF TypeOK, TLBInv, GivenOut, Current
<1> QED
    BY <1>1, <1>2, <1>3

\* pmap_enter(): an entry of a pmap with an ASID of this generation.
LEMMA EnterInv ==
    ASSUME WrapInv, NEW p \in PmapID, Enter(p)
    PROVE  WrapInv'
<1> USE DEF WrapInv, Enter, PMAP_ASID_RESERVED
<1>1. TypeOK'
    BY DEF TypeOK
<1>2. ASIDInv'
    BY DEF ASIDInv, Behind, GivenOut, Current
<1>3. TLBInv'
    BY DEF TypeOK, TLBInv, GivenOut, Current
<1> QED
    BY <1>1, <1>2, <1>3

\* pmap_activate() with a good ASID.
LEMMA ActivateInv ==
    ASSUME WrapInv, NEW p \in PmapID, Activate(p)
    PROVE  WrapInv'
<1> USE DEF WrapInv, Activate, PMAP_ASID_RESERVED
<1>1. TypeOK'
    BY DEF TypeOK
<1>2. ASIDInv'
    BY DEF ASIDInv, Behind, GivenOut, Current
<1>3. TLBInv'
    BY WrapAssumption DEF TypeOK, TLBInv, GivenOut, Current
<1> QED
    BY <1>1, <1>2, <1>3

\* pmap_asid_alloc() with a number left: the pmap has no entry yet.
LEMMA ActivateNextInv ==
    ASSUME WrapInv, NEW p \in PmapID, ActivateNext(p)
    PROVE  WrapInv'
<1> USE DEF WrapInv, ActivateNext, PMAP_ASID_RESERVED
<1>1. TypeOK'
    BY WrapAssumption DEF TypeOK
<1>2. ASIDInv'
    BY <1>1, WrapAssumption, Generations
       DEF TypeOK, ASIDInv, Behind, GivenOut, Current
<1>3. TLBInv'
    BY WrapAssumption DEF TypeOK, TLBInv, GivenOut, Current
<1> QED
    BY <1>1, <1>2, <1>3

\* pmap_asid_alloc() with none left: all others fall one generation behind.
LEMMA ActivateRolloverInv ==
    ASSUME WrapInv, NEW p \in PmapID, ActivateRollover(p)
    PROVE  WrapInv'
<1> USE DEF WrapInv, ActivateRollover, PMAP_ASID_RESERVED
<1> DEFINE M == 2^GenBits
<1>1. M \in Nat \ {0} /\ pmap_asid_generation \in 0 .. M - 1
    BY Generations DEF TypeOK
<1>2. pmap_asid_generation' = IF pmap_asid_generation + 1 = M
                              THEN 0 ELSE pmap_asid_generation + 1
    BY <1>1, Wraps
<1>3. TypeOK'
    <2>1. pmap_asid_generation' \in 0 .. M - 1
        BY <1>1, <1>2
    <2> QED
        BY <2>1, WrapAssumption DEF TypeOK
<1>4. ASSUME NEW q \in live, q # p
      PROVE  Behind(q)' /\ ~GivenOut(q)'
    <2>1. Behind(q) /\ q \in PmapID /\ missed[q] < MaxIdle
        BY <1>4 DEF ASIDInv, TypeOK
    <2>2. pm_asidgen'[q] = pm_asidgen[q] /\ missed'[q] = missed[q] + 1
        BY <1>4, <2>1 DEF TypeOK
    <2>3. /\ pm_asidgen[q] \in 0 .. M - 1 /\ missed[q] \in Nat
        BY <2>1, WrapAssumption DEF TypeOK
    <2>4. \/ pm_asidgen[q] + missed[q] = pmap_asid_generation
          \/ pm_asidgen[q] + missed[q] = pmap_asid_generation + M
        BY <2>1 DEF Behind
    <2>5. Behind(q)'
        <3> HIDE DEF M
        <3>1. \/ pm_asidgen'[q] + missed'[q] = pmap_asid_generation'
              \/ pm_asidgen'[q] + missed'[q] = pmap_asid_generation' + M
            BY <1>1, <1>2, <2>2, <2>3, <2>4, WrapAssumption, <2>1 DEF M
        <3> QED
            BY <3>1 DEF Behind, M
    <2>6. ~Current(q)'
        <3>1. pm_asidgen'[q] # pmap_asid_generation'
            BY <1>1, <1>2, <2>1, <2>2, <2>3, <2>4, WrapAssumption
        <3> QED
            BY <3>1 DEF Current
    <2> QED
        BY <2>5, <2>6 DEF GivenOut, Current
<1>5. Behind(p)' /\ pm_asid'[p] = 1 /\ GivenOut(p)' /\ p \in live
    BY <1>1, <1>3 DEF TypeOK, Behind, GivenOut, Current
<1>6. ASIDInv'
    BY <1>3, <1>4, <1>5 DEF ASIDInv
<1>7. TLBInv'
    BY <1>5, WrapAssumption DEF TypeOK, TLBInv
<1> QED
    BY <1>3, <1>6, <1>7

\* Every step keeps the invariant.
LEMMA NextWrap ==
    ASSUME WrapInv, [Next]_vars
    PROVE  WrapInv'
<1>1. CASE UNCHANGED vars
    BY <1>1 DEF vars, WrapInv, TypeOK, ASIDInv, TLBInv, Behind, GivenOut,
        Current
<1> QED
    BY <1>1, CreateInv, DestroyInv, EnterInv, ActivateInv, ActivateNextInv,
       ActivateRolloverInv DEF Next

(***************************************************************************)
(* The invariant of pmap_asid_alloc(): each ASID of the present generation *)
(* is below pmap_next_asid and is one pmap's, the TLB holds entries of     *)
(* such pmaps only, and a pmap's generation says how many it has missed.   *)
(***************************************************************************)
THEOREM WrapInvariance == Spec => []WrapInv
BY InitWrap, NextWrap, PTL DEF Spec

(***************************************************************************)
(* The processor finds only translations of the pmap that runs, although   *)
(* pmap_asid_generation wraps to 0, as long as no pmap misses all          *)
(* generations but one.                                                    *)
(***************************************************************************)
THEOREM WrapIsHarmless == Spec => []OwnTranslations
<1>1. WrapInv => OwnTranslations
    <2> SUFFICES ASSUME WrapInv
                 PROVE  OwnTranslations
        OBVIOUS
    <2> USE DEF WrapInv
    <2>1. \A p \in live : Current(p) <=> missed[p] = 0
        BY GoneRound, Generations, WrapAssumption
           DEF TypeOK, ASIDInv, Behind, Current
    <2>2. \A e \in tlb : e[1] # PMAP_ASID_RESERVED => e[2] \in live
        BY DEF TLBInv
    <2>3. \A e \in tlb : e[1] # PMAP_ASID_RESERVED
                            /\ e[1] = pm_asid[curpmap] => e[2] = curpmap
        BY DEF TypeOK, TLBInv, ASIDInv, GivenOut
    <2>4. \A p, q \in live : /\ p # q /\ Current(p) /\ Current(q)
                             /\ pm_asid[p] # PMAP_ASID_RESERVED
                             => pm_asid[p] # pm_asid[q]
        BY DEF ASIDInv, GivenOut
    <2> QED
        BY <2>1, <2>2, <2>3, <2>4 DEF OwnTranslations
<1> QED
    BY <1>1, WrapInvariance, PTL
=============================================================================
