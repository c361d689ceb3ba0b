----------------------------- MODULE PmapProofs -----------------------------
(***************************************************************************)
(* Proofs about module Pmap, for any number of address spaces, addresses,  *)
(* pages and ASIDs.                                                        *)
(*                                                                         *)
(* First the ASIDs and the TLB: TLBInv is inductive.  What an action does  *)
(* to the page tables and to the TLB is summed up in a few lemmas, and     *)
(* every action that leaves the ASIDs alone preserves TLBInv by Coherent.  *)
(* Then the mappings: the pv lists, the cache indexes, the statistics, the *)
(* modified pages and the kernel's translations.  MapsInv is inductive     *)
(* together with TLBInv; there come facts about lists, what each kind of   *)
(* change does to each part of MapsInv, then the actions.                  *)
(***************************************************************************)
EXTENDS Pmap, FiniteSetTheorems, WellFoundedInduction, TLAPS

USE PmapAssumption

-----------------------------------------------------------------------------
\* Facts about the sets the variables range over.

\* ASIDs are tags and the kernel's tag is none of them.
LEMMA Tags == /\ ASID \subseteq Tag /\ Global \in Tag /\ Global \notin ASID
              /\ ASID \subseteq Nat /\ Tag \subseteq Nat
BY DEF ASID, Tag, Global

LEMMA EmptyTypes == /\ NoPTE \in PTE
                    /\ NoEntry.pfn = NoPage
                    /\ Hard(NoPTE) = NoEntry
BY DEF NoPTE, PTE, NoEntry, Hard

\* The entry of a PTE that maps a page.
LEMMA HardType ==
    ASSUME NEW e \in PTE, e.pfn \in Page
    PROVE  Hard(e) \in Entry
BY DEF Hard, Entry, PTE

LEMMA MakePTEType ==
    ASSUME NEW e \in Entry, NEW v \in BOOLEAN, NEW w \in BOOLEAN
    PROVE  /\ MakePTE(e, v, w) \in PTE
           /\ Hard(MakePTE(e, v, w)) = e
           /\ MakePTE(e, v, w).valid = v
           /\ MakePTE(e, v, w).pfn \in Page
BY DEF MakePTE, PTE, Entry, Hard

\* The tag of a pmap: the kernel's differs from every user's, and two users
\* that both own an ASID have different ones.
LEMMA TagType ==
    ASSUME MMUTypeOK, NEW p \in Pmaps
    PROVE  /\ TagOf(p) \in Tag
           /\ p \in UserPmap => TagOf(p) = pm_asid[p] /\ pm_asid[p] \in ASID
BY Tags DEF MMUTypeOK, TagOf, Pmaps

LEMMA OwnerInTLB ==
    ASSUME NEW p \in Pmaps, Owns(p)
    PROVE  InTLB(p) /\ pm_asid[p] # PMAP_ASID_RESERVED
BY DEF Owns, NeedsASID, InTLB

\* Nobody else writes under the tag of an owner.
LEMMA OwnTag ==
    ASSUME MMUTypeOK, ASIDUnique, NEW p \in UserPmap, Owns(p),
           NEW q \in Pmaps, InTLB(q), TagOf(q) = pm_asid[p]
    PROVE  q = p
<1>1. p \in Pmaps /\ pm_asid[p] \in ASID
  BY DEF MMUTypeOK, Pmaps
<1>2. q # Kernel
  BY <1>1, Tags DEF TagOf
<1>3. pm_asid[q] = pm_asid[p] /\ pm_asidgen[q] = pmap_asid_generation
  BY <1>2 DEF TagOf, InTLB
<1>4. Owns(q)
  BY <1>3, OwnerInTLB, <1>1 DEF Owns, NeedsASID
<1> QED BY <1>1, <1>3, <1>4 DEF ASIDUnique

-----------------------------------------------------------------------------
\* Page tables and TLB after mappings have been removed.

LEMMA Removed ==
    ASSUME MMUTypeOK, UserPTEsValid, NEW R
    PROVE  /\ PTEWithout(R) \in [Pmaps -> [VA -> PTE]]
           /\ TLBWithout(R) \in [Tag -> [VA -> Entry \cup {NoEntry}]]
           /\ \A p \in Pmaps, va \in VA :
                 PTEWithout(R)[p][va] \in {pte[p][va], NoPTE}
           /\ \A t \in Tag, va \in VA :
                 TLBWithout(R)[t][va] \in {tlb[t][va], NoEntry}
           /\ \A p \in Pmaps, va \in VA :
                 InTLB(p) /\ PTEWithout(R)[p][va] # pte[p][va] =>
                    TLBWithout(R)[TagOf(p)][va] = NoEntry
BY TagType, EmptyTypes DEF MMUTypeOK, PTEWithout, TLBWithout

-----------------------------------------------------------------------------
\* The page tables P and the TLB T agree, for the ASIDs in use: what the
\* actions on mappings have to establish for the next state.
Agree(P, T) ==
    /\ P \in [Pmaps -> [VA -> PTE]]
    /\ T \in [Tag -> [VA -> Entry \cup {NoEntry}]]
    /\ \A p \in UserPmap, va \in UVA : P[p][va].valid \/ P[p][va] = NoPTE
    /\ \A p \in UserPmap, va \in UVA :
          Owns(p) /\ T[pm_asid[p]][va] # NoEntry =>
             P[p][va].valid /\ T[pm_asid[p]][va] = Hard(P[p][va])
    /\ \A t \in ASID, va \in UVA : t >= pmap_next_asid => T[t][va] = NoEntry

\* TLBInv is Agree for the state itself.
LEMMA AgreeNow ==
    ASSUME TLBInv
    PROVE  Agree(pte, tlb)
BY DEF TLBInv, MMUTypeOK, UserPTEsValid, TLBMatchesPTE, FreeASIDsClean, Agree

\* An action that leaves the ASIDs alone preserves TLBInv if what it leaves
\* in the page tables and in the TLB agrees.
LEMMA Coherent ==
    ASSUME TLBInv, UNCHANGED asids, Agree(pte', tlb'),
           pm_count' \in [Pmaps -> Nat], pm_count'[curpmap] > 0,
           halted' # "utlbmod"
    PROVE  TLBInv'
<1>1. /\ pm_asid' = pm_asid /\ pm_asidgen' = pm_asidgen
      /\ pmap_next_asid' = pmap_next_asid
      /\ pmap_asid_generation' = pmap_asid_generation
      /\ curpmap' = curpmap /\ asid' = asid
  BY DEF asids
<1>2. MMUTypeOK'
  BY <1>1 DEF TLBInv, MMUTypeOK, Agree
<1>3. \A p : Owns(p)' <=> Owns(p)
  BY <1>1 DEF Owns, NeedsASID
<1>4. ASIDUnique' /\ GenerationsPassed'
  BY <1>1, <1>3 DEF TLBInv, ASIDUnique, GenerationsPassed
<1>5. RunsUnderOwnASID'
  BY <1>1, <1>3 DEF TLBInv, RunsUnderOwnASID, Live
<1>6. FreeASIDsClean'
  BY <1>1, <1>3 DEF TLBInv, FreeASIDsClean, Agree
<1>7. UserPTEsValid' /\ TLBMatchesPTE'
  BY <1>1, <1>3 DEF UserPTEsValid, TLBMatchesPTE, Agree
<1> QED BY <1>2, <1>4, <1>5, <1>6, <1>7 DEF TLBInv, ModTrapFindsPTE

LEMMA CurpmapLives ==
    ASSUME TLBInv
    PROVE  /\ pm_count \in [Pmaps -> Nat]
           /\ curpmap \in Pmaps /\ pm_count[curpmap] > 0
BY DEF TLBInv, MMUTypeOK, RunsUnderOwnASID, Live

-----------------------------------------------------------------------------
\* What the actions on mappings leave behind agrees.

\* pmap_remove() and all that goes through it.
LEMMA RemovedAgree ==
    ASSUME TLBInv, NEW R
    PROVE  Agree(PTEWithout(R), TLBWithout(R))
<1>1. MMUTypeOK /\ UserPTEsValid /\ Agree(pte, tlb) /\ ASID \subseteq Tag
  BY AgreeNow, Tags DEF TLBInv
<1>2. ASSUME NEW p \in UserPmap, NEW va \in UVA, Owns(p),
             TLBWithout(R)[pm_asid[p]][va] # NoEntry
      PROVE  /\ PTEWithout(R)[p][va].valid
             /\ TLBWithout(R)[pm_asid[p]][va] = Hard(PTEWithout(R)[p][va])
  <2>1. p \in Pmaps /\ va \in VA /\ pm_asid[p] \in Tag
        /\ TagOf(p) = pm_asid[p] /\ InTLB(p)
    BY <1>1, <1>2, TagType, OwnerInTLB DEF Pmaps, VA
  <2>2. PTEWithout(R)[p][va] = pte[p][va]
    BY <1>1, <1>2, <2>1, Removed
  <2>3. TLBWithout(R)[pm_asid[p]][va] = tlb[pm_asid[p]][va]
    BY <1>1, <1>2, <2>1, Removed
  <2> QED BY <1>1, <1>2, <2>2, <2>3 DEF Agree
<1>3. \A p \in UserPmap, va \in UVA :
         PTEWithout(R)[p][va].valid \/ PTEWithout(R)[p][va] = NoPTE
  BY <1>1, Removed DEF UserPTEsValid, Pmaps, VA
<1>4. \A t \in ASID, va \in UVA :
         t >= pmap_next_asid => TLBWithout(R)[t][va] = NoEntry
  BY <1>1, Removed DEF Agree, VA
<1> QED BY <1>1, <1>2, <1>3, <1>4, Removed DEF Agree

\* A PTE and the TLB entry under its pmap's tag are written together.
LEMMA WrittenAgree ==
    ASSUME TLBInv, NEW P, NEW T, Agree(P, T),
           NEW p \in Pmaps, NEW va \in VA, NEW e \in PTE, e.pfn \in Page,
           p = Kernel => va \in KVA,
           p # Kernel => e.valid
    PROVE  Agree([P EXCEPT ![p][va] = e],
                 IF InTLB(p) THEN TLBUpdate(T, TagOf(p), va, Hard(e)) ELSE T)
<1> DEFINE P2 == [P EXCEPT ![p][va] = e]
           T2 == IF InTLB(p) THEN TLBUpdate(T, TagOf(p), va, Hard(e)) ELSE T
<1>1. /\ MMUTypeOK /\ ASIDUnique /\ FreeASIDsClean
      /\ Hard(e) \in Entry /\ TagOf(p) \in Tag
  BY HardType, TagType DEF TLBInv
<1>2. P2 \in [Pmaps -> [VA -> PTE]]
  BY DEF Agree
<1>3. T2 \in [Tag -> [VA -> Entry \cup {NoEntry}]]
  BY <1>1 DEF Agree, TLBUpdate
<1>4. \A q \in Pmaps, w \in VA :
         P2[q][w] = IF q = p /\ w = va THEN e ELSE P[q][w]
  BY DEF Agree
<1>5. \A t \in Tag, w \in VA :
         T2[t][w] = IF InTLB(p) /\ t = TagOf(p) /\ w = va THEN Hard(e)
                    ELSE T[t][w]
  BY <1>1 DEF Agree, TLBUpdate
<1>6. \A q \in UserPmap, w \in UVA : P2[q][w].valid \/ P2[q][w] = NoPTE
  BY <1>4 DEF Agree, Pmaps, VA
<1>7. ASSUME NEW q \in UserPmap, NEW w \in UVA, Owns(q),
             T2[pm_asid[q]][w] # NoEntry
      PROVE  P2[q][w].valid /\ T2[pm_asid[q]][w] = Hard(P2[q][w])
  <2>1. q \in Pmaps /\ w \in VA /\ pm_asid[q] \in Tag /\ InTLB(q)
        /\ TagOf(q) = pm_asid[q]
    BY <1>1, <1>7, TagType, OwnerInTLB, Tags DEF Pmaps, VA
  <2>2. CASE InTLB(p) /\ pm_asid[q] = TagOf(p) /\ w = va
    <3>1. p = q
      BY <1>1, <1>7, <2>2, OwnTag
    <3>2. p # Kernel
      BY <3>1
    <3> QED BY <1>4, <1>5, <2>1, <2>2, <3>1, <3>2
  <2>3. CASE ~(InTLB(p) /\ pm_asid[q] = TagOf(p) /\ w = va)
    <3>1. ~(q = p /\ w = va)
      BY <2>1, <2>3
    <3> QED BY <1>4, <1>5, <1>7, <2>1, <2>3, <3>1 DEF Agree
  <2> QED BY <2>2, <2>3
<1>8. ASSUME NEW t \in ASID, NEW w \in UVA, t >= pmap_next_asid
      PROVE  T2[t][w] = NoEntry
  <2>1. t \in Tag /\ w \in VA
    BY Tags DEF VA
  <2>2. ~(InTLB(p) /\ t = TagOf(p) /\ w = va)
    <3>1. CASE p = Kernel
      BY <3>1, Tags DEF TagOf
    <3>2. CASE p # Kernel /\ Owns(p)
      BY <1>1, <1>8, <3>2, Tags DEF FreeASIDsClean, TagOf, MMUTypeOK
    <3>3. CASE p # Kernel /\ ~Owns(p) /\ InTLB(p)
      <4>1. pm_asid[p] = 0
        BY <3>3 DEF Owns, NeedsASID, InTLB, PMAP_ASID_RESERVED
      <4> QED BY <1>1, <1>8, <3>3, <4>1 DEF TagOf, MMUTypeOK
    <3> QED BY <3>1, <3>2, <3>3
  <2> QED BY <1>5, <1>8, <2>1, <2>2 DEF Agree
<1> HIDE DEF P2, T2
<1>9. Agree(P2, T2)
  BY <1>2, <1>3, <1>6, <1>7, <1>8 DEF Agree
<1> QED BY <1>9 DEF P2, T2

\* An entry may leave the TLB at any time.
LEMMA EvictedAgree ==
    ASSUME TLBInv, NEW t \in Tag, NEW va \in VA
    PROVE  Agree(pte, TLBUpdate(tlb, t, va, NoEntry))
<1>1. Agree(pte, tlb) /\ MMUTypeOK
  BY AgreeNow DEF TLBInv
<1>2. /\ TLBUpdate(tlb, t, va, NoEntry) \in [Tag -> [VA -> Entry \cup {NoEntry}]]
      /\ \A u \in Tag, w \in VA :
            TLBUpdate(tlb, t, va, NoEntry)[u][w] \in {tlb[u][w], NoEntry}
  BY <1>1 DEF Agree, TLBUpdate
<1>3. \A p \in UserPmap : pm_asid[p] \in Tag /\ p \in Pmaps
  BY <1>1, TagType, Tags DEF Pmaps
<1> DEFINE T == TLBUpdate(tlb, t, va, NoEntry)
<1> HIDE DEF T
<1>4. \A p \in UserPmap, w \in UVA :
         Owns(p) /\ T[pm_asid[p]][w] # NoEntry =>
            pte[p][w].valid /\ T[pm_asid[p]][w] = Hard(pte[p][w])
  BY <1>1, <1>2, <1>3 DEF Agree, VA, T
<1>5. \A u \in ASID, w \in UVA : u >= pmap_next_asid => T[u][w] = NoEntry
  BY <1>1, <1>2, Tags DEF Agree, VA, T
<1> QED BY <1>1, <1>2, <1>4, <1>5 DEF Agree, T

\* pmap_protect().
LEMMA ProtectedAgree ==
    ASSUME TLBInv, NEW p \in Pmaps, NEW S, NEW prot,
           pte' = [pte EXCEPT ![p] = [va \in VA |->
                     IF va \in S /\ pte[p][va].valid
                     THEN Reprotected(pte[p][va], prot) ELSE pte[p][va]]],
           tlb' = TLBReprotected(p, S, prot)
    PROVE  Agree(pte', tlb')
<1>1. Agree(pte, tlb) /\ MMUTypeOK /\ ASIDUnique /\ FreeASIDsClean
  BY AgreeNow DEF TLBInv
<1>2. \A e \in PTE : /\ Reprotected(e, prot) \in PTE
                     /\ Reprotected(e, prot).valid = e.valid
                     /\ Reprotected(e, prot).pfn = e.pfn
  BY DEF Reprotected, PTE
<1>3. pte' \in [Pmaps -> [VA -> PTE]]
  BY <1>1, <1>2 DEF Agree
<1>4. tlb' \in [Tag -> [VA -> Entry \cup {NoEntry}]]
  <2>1. \A va \in VA : pte[p][va].valid =>
           Hard(Reprotected(pte[p][va], prot)) \in Entry
    BY <1>1, <1>2, HardType DEF Agree, PTE
  <2> QED BY <1>1, <2>1 DEF TLBReprotected, Agree
<1>5. \A q \in Pmaps, w \in VA :
         pte'[q][w] = IF q = p /\ w \in S /\ pte[p][w].valid
                      THEN Reprotected(pte[p][w], prot) ELSE pte[q][w]
  BY <1>1 DEF Agree
<1>6. \A t \in Tag, w \in VA :
         tlb'[t][w] = IF w \in S /\ pte[p][w].valid /\ InTLB(p) /\ TagOf(p) = t
                      THEN IF p = Kernel THEN NoEntry
                           ELSE Hard(Reprotected(pte[p][w], prot))
                      ELSE tlb[t][w]
  BY DEF TLBReprotected
<1>7. \A q \in UserPmap, w \in UVA : pte'[q][w].valid \/ pte'[q][w] = NoPTE
  BY <1>1, <1>2, <1>5 DEF Agree, Pmaps, VA
<1>8. ASSUME NEW q \in UserPmap, NEW w \in UVA, Owns(q),
             tlb'[pm_asid[q]][w] # NoEntry
      PROVE  pte'[q][w].valid /\ tlb'[pm_asid[q]][w] = Hard(pte'[q][w])
  <2>1. q \in Pmaps /\ w \in VA /\ pm_asid[q] \in Tag /\ InTLB(q)
        /\ TagOf(q) = pm_asid[q]
    BY <1>1, <1>8, TagType, OwnerInTLB, Tags DEF Pmaps, VA
  <2>2. CASE q = p /\ w \in S /\ pte[p][w].valid
    <3>1. p # Kernel
      BY <2>2
    <3>2. pte[p][w] \in PTE
      BY <1>1, <2>1 DEF Agree
    <3> QED BY <1>2, <1>5, <1>6, <2>1, <2>2, <3>1, <3>2
  <2>3. CASE ~(q = p /\ w \in S /\ pte[p][w].valid)
    <3>1. ~(w \in S /\ pte[p][w].valid /\ InTLB(p) /\ TagOf(p) = pm_asid[q])
      BY <1>1, <1>8, <2>3, OwnTag
    <3> QED BY <1>1, <1>5, <1>6, <1>8, <2>1, <2>3, <3>1 DEF Agree
  <2> QED BY <2>2, <2>3
<1>9. ASSUME NEW t \in ASID, NEW w \in UVA, t >= pmap_next_asid
      PROVE  tlb'[t][w] = NoEntry
  <2>1. t \in Tag /\ w \in VA
    BY Tags DEF VA
  <2>2. CASE ~(InTLB(p) /\ TagOf(p) = t)
    BY <1>1, <1>6, <1>9, <2>1, <2>2 DEF Agree
  <2>3. CASE p = Kernel
    BY <1>1, <1>6, <1>9, <2>1, <2>3, Tags DEF Agree, TagOf
  <2>4. CASE InTLB(p) /\ TagOf(p) = t /\ p # Kernel
    <3>1. CASE Owns(p)
      BY <1>1, <1>9, <2>4, <3>1, Tags DEF FreeASIDsClean, TagOf, MMUTypeOK
    <3>2. CASE ~Owns(p)
      <4>1. pm_asid[p] = 0
        BY <2>4, <3>2 DEF Owns, NeedsASID, InTLB, PMAP_ASID_RESERVED
      <4> QED BY <1>1, <1>9, <2>4, <4>1 DEF TagOf, MMUTypeOK
    <3> QED BY <3>1, <3>2
  <2> QED BY <2>2, <2>3, <2>4
<1>10. \A q \in UserPmap, w \in UVA :
          Owns(q) /\ tlb'[pm_asid[q]][w] # NoEntry =>
             pte'[q][w].valid /\ tlb'[pm_asid[q]][w] = Hard(pte'[q][w])
  BY <1>8
<1>11. \A t \in ASID, w \in UVA : t >= pmap_next_asid => tlb'[t][w] = NoEntry
  BY <1>9
<1> QED BY <1>3, <1>4, <1>7, <1>10, <1>11, Zenon DEF Agree

\* A TLB miss loads what the page table says.
LEMMA LoadedAgree ==
    ASSUME TLBInv, NEW p \in Pmaps, NEW va \in VA, InTLB(p),
           pte[p][va].valid, p = Kernel => va \in KVA
    PROVE  Agree(pte, TLBUpdate(tlb, TagOf(p), va, Hard(pte[p][va])))
<1>1. pte \in [Pmaps -> [VA -> PTE]] /\ Agree(pte, tlb)
  BY AgreeNow DEF Agree
<1>2. [pte EXCEPT ![p][va] = pte[p][va]] = pte
  BY <1>1
<1>3. pte[p][va] \in PTE /\ pte[p][va].pfn \in Page
  BY <1>1 DEF PTE
<1>4. Agree([pte EXCEPT ![p][va] = pte[p][va]],
            IF InTLB(p) THEN TLBUpdate(tlb, TagOf(p), va, Hard(pte[p][va]))
            ELSE tlb)
  BY <1>1, <1>3, WrittenAgree
<1> QED BY <1>2, <1>4

\* pmap_clear_modify() changes no PTE of a pmap that owns an ASID.
LEMMA ClearedAgree ==
    ASSUME TLBInv, NEW g \in Page, ClearModify(g)
    PROVE  Agree(pte', tlb')
<1>1. Agree(pte, tlb) /\ tlb' = tlb
  BY AgreeNow DEF ClearModify
<1>2. CASE pte' = pte
  BY <1>1, <1>2
<1>3. CASE pte' # pte
  <2>1. /\ \A m \in Dirty(g) : pm_asidgen[m[1]] # pmap_asid_generation
        /\ pte' = [p \in Pmaps |-> [va \in VA |->
                    IF <<p, va>> \in Dirty(g)
                    THEN [pte[p][va] EXCEPT !.dirty = FALSE] ELSE pte[p][va]]]
    BY <1>3 DEF ClearModify
  <2>2. \A p \in Pmaps, va \in VA :
           <<p, va>> \in Dirty(g) => ~Owns(p) /\ pte[p][va].dirty
    BY <2>1 DEF Dirty, Owns, NeedsASID
  <2>3. \A e \in PTE : [e EXCEPT !.dirty = FALSE] \in PTE
                       /\ [e EXCEPT !.dirty = FALSE].valid = e.valid
    BY DEF PTE
  <2>4. pte' \in [Pmaps -> [VA -> PTE]]
    BY <1>1, <2>1, <2>3 DEF Agree
  <2>5. \A p \in UserPmap, va \in UVA : pte'[p][va].valid \/ pte'[p][va] = NoPTE
    <3> TAKE p \in UserPmap, va \in UVA
    <3>1. p \in Pmaps /\ va \in VA /\ pte[p][va] \in PTE
      BY <1>1 DEF Pmaps, VA, Agree
    <3>2. pte'[p][va] = IF <<p, va>> \in Dirty(g)
                        THEN [pte[p][va] EXCEPT !.dirty = FALSE]
                        ELSE pte[p][va]
      BY <2>1, <3>1
    <3>3. <<p, va>> \in Dirty(g) => pte[p][va] # NoPTE
      BY <2>2, <3>1 DEF NoPTE
    <3> QED BY <1>1, <2>3, <3>1, <3>2, <3>3 DEF Agree
  <2>6. \A p \in UserPmap, va \in UVA : Owns(p) => pte'[p][va] = pte[p][va]
    BY <2>1, <2>2 DEF Pmaps, VA
  <2> QED BY <1>1, <2>4, <2>5, <2>6 DEF Agree
<1> QED BY <1>2, <1>3

-----------------------------------------------------------------------------
\* Every action preserves TLBInv: first those that leave the ASIDs alone.

LEMMA RemoveStep ==
    ASSUME TLBInv, NEW p \in Pmaps, NEW S, Remove(p, S)
    PROVE  TLBInv'
<1>1. pte' = PTEWithout({p} \X S) /\ tlb' = TLBWithout({p} \X S)
  BY DEF Remove, RemoveMappings
<1> QED BY <1>1, RemovedAgree, Coherent, CurpmapLives DEF Remove

\* pmap_enter_pv() and pmap_enter() for the pmap p, user or kernel: n is the
\* new PTE and e the new TLB entry.
LEMMA EnterMappingAgree ==
    ASSUME TLBInv, NEW p \in Pmaps, NEW va \in VA, NEW n \in PTE, NEW e, NEW R,
           Hard(n) = e, n.pfn \in Page,
           pte' = [PTEWithout(R) EXCEPT ![p][va] = n],
           tlb' = IF InTLB(p) THEN TLBUpdate(TLBWithout(R), TagOf(p), va, e)
                  ELSE TLBWithout(R),
           p = Kernel => va \in KVA,
           p # Kernel => n.valid
    PROVE  Agree(pte', tlb')
<1>1. Agree(PTEWithout(R), TLBWithout(R))
  BY RemovedAgree
<1>2. Agree([PTEWithout(R) EXCEPT ![p][va] = n],
            IF InTLB(p) THEN TLBUpdate(TLBWithout(R), TagOf(p), va, Hard(n))
            ELSE TLBWithout(R))
  BY <1>1, WrittenAgree
<1> QED BY <1>2

LEMMA NewEntryType ==
    ASSUME NEW g \in Page, NEW prot, NEW acc
    PROVE  NewEntry(g, prot, acc) \in Entry
BY DEF NewEntry, Entry

LEMMA EnterStep ==
    ASSUME TLBInv, NEW p \in UserPmap, NEW va \in UVA,
           NEW g \in Page, NEW prot, NEW acc, NEW wired \in Wirings,
           Enter(p, va, g, prot, acc, wired)
    PROVE  TLBInv'
<1> DEFINE R == Conflicts(g, va) \cup Replaced(p, va, g)
           e == NewEntry(g, prot, acc)
           n == MakePTE(e, TRUE, wired)
<1>1. p \in Pmaps /\ p # Kernel /\ va \in VA /\ wired \in BOOLEAN
  BY DEF Pmaps, VA
<1>2. n \in PTE /\ Hard(n) = e /\ n.valid /\ n.pfn \in Page
  BY <1>1, NewEntryType, MakePTEType
<1>3. /\ pte' = [PTEWithout(R) EXCEPT ![p][va] = n]
      /\ tlb' = IF InTLB(p) THEN TLBUpdate(TLBWithout(R), TagOf(p), va, e)
                ELSE TLBWithout(R)
  BY DEF Enter, EnterMapping
<1> HIDE DEF R, e, n
<1>4. Agree(pte', tlb')
  BY <1>1, <1>2, <1>3, EnterMappingAgree
<1> QED BY <1>4, Coherent, CurpmapLives DEF Enter

LEMMA EnterKernelStep ==
    ASSUME TLBInv, NEW va \in KVA,
           NEW g \in Page, NEW prot, NEW acc, NEW wired \in Wirings,
           EnterKernel(va, g, prot, acc, wired)
    PROVE  TLBInv'
<1> DEFINE R == Conflicts(g, va)
           e == NewEntry(g, prot, acc)
           n == MakePTE(e, FALSE, wired)
<1>1. Kernel \in Pmaps /\ va \in VA /\ wired \in BOOLEAN
  BY DEF Pmaps, VA
<1>2. n \in PTE /\ Hard(n) = e /\ n.pfn \in Page
  BY <1>1, NewEntryType, MakePTEType
<1>3. /\ pte' = [PTEWithout(R) EXCEPT ![Kernel][va] = n]
      /\ tlb' = IF InTLB(Kernel)
                THEN TLBUpdate(TLBWithout(R), TagOf(Kernel), va, e)
                ELSE TLBWithout(R)
  BY DEF EnterKernel, EnterMapping
<1> HIDE DEF R, e, n
<1>4. Agree(pte', tlb')
  BY <1>1, <1>2, <1>3, EnterMappingAgree
<1> QED BY <1>4, Coherent, CurpmapLives DEF EnterKernel

LEMMA EnterFailsStep ==
    ASSUME TLBInv, NEW p, NEW va, NEW g, NEW acc,
           \/ EnterNoMemory(p, va, g, acc)
           \/ EnterForever(p, va, g) \/ EnterPanics(p, va, g)
    PROVE  TLBInv'
BY AgreeNow, Coherent, CurpmapLives
   DEF EnterNoMemory, EnterForever, EnterPanics, maps

LEMMA ProtectPanicsStep ==
    ASSUME TLBInv, NEW S, ProtectPanics(S)
    PROVE  TLBInv'
BY AgreeNow, Coherent, CurpmapLives DEF ProtectPanics, maps

LEMMA ProtectStep ==
    ASSUME TLBInv, NEW p \in Pmaps, NEW S, NEW prot,
           Protect(p, S, prot)
    PROVE  TLBInv'
BY ProtectedAgree, Coherent, CurpmapLives DEF Protect

LEMMA PageProtectStep ==
    ASSUME TLBInv, NEW g \in Page, PageProtect(g)
    PROVE  TLBInv'
<1> DEFINE R == {pv[g][i] : i \in Reached(g)}
<1>1. pte' = PTEWithout(R) /\ tlb' = TLBWithout(R)
  BY DEF PageProtect, RemoveMappings
<1> HIDE DEF R
<1>2. Agree(pte', tlb')
  BY <1>1, RemovedAgree
<1> QED BY <1>2, Coherent, CurpmapLives DEF PageProtect

LEMMA ClearModifyStep ==
    ASSUME TLBInv, NEW g \in Page, ClearModify(g)
    PROVE  TLBInv'
<1>1. /\ UNCHANGED asids /\ pm_count' = pm_count /\ halted' # "utlbmod"
  BY DEF ClearModify
<1> QED BY <1>1, ClearedAgree, Coherent, CurpmapLives

LEMMA KEnterStep ==
    ASSUME TLBInv, NEW va \in KVA, NEW g \in Page, NEW prot,
           KEnter(va, g, prot)
    PROVE  TLBInv'
<1> DEFINE e == [pfn |-> g, write |-> prot = "rw", dirty |-> prot = "rw"]
           n == MakePTE(e, TRUE, TRUE)
<1>1. e \in Entry
  BY DEF Entry
<1>2. n \in PTE /\ Hard(n) = e /\ n.pfn \in Page
  BY <1>1, MakePTEType
<1>3. /\ pte' = [pte EXCEPT ![Kernel][va] = n]
      /\ tlb' = TLBUpdate(tlb, Global, va, e)
  BY DEF KEnter
<1>4. /\ Kernel \in Pmaps /\ va \in VA
      /\ InTLB(Kernel) /\ TagOf(Kernel) = Global
  BY DEF Pmaps, VA, InTLB, TagOf
<1> HIDE DEF n, e
<1>5. Agree([pte EXCEPT ![Kernel][va] = n],
            IF InTLB(Kernel) THEN TLBUpdate(tlb, TagOf(Kernel), va, Hard(n))
            ELSE tlb)
  BY <1>2, <1>4, AgreeNow, WrittenAgree
<1>6. Agree(pte', tlb')
  BY <1>2, <1>3, <1>4, <1>5
<1> QED BY <1>6, Coherent, CurpmapLives DEF KEnter

LEMMA KRemoveStep ==
    ASSUME TLBInv, NEW S, KRemove(S)
    PROVE  TLBInv'
BY RemovedAgree, Coherent, CurpmapLives DEF KRemove

LEMMA CountStep ==
    ASSUME TLBInv, NEW p \in Pmaps, Reference(p) \/ Destroy(p)
    PROVE  TLBInv'
<1>1. pm_count' \in [Pmaps -> Nat] /\ pm_count'[curpmap] > 0
  BY CurpmapLives DEF Reference, Destroy
<1> QED BY <1>1, AgreeNow, Coherent DEF Reference, Destroy, maps

LEMMA EvictStep ==
    ASSUME TLBInv, NEW t \in Tag, NEW va \in VA, Evict(t, va)
    PROVE  TLBInv'
BY EvictedAgree, Coherent, CurpmapLives DEF Evict, maps

\* A user LWP runs under its own ASID.
LEMMA UserRuns ==
    ASSUME TLBInv, curpmap # Kernel
    PROVE  /\ curpmap \in UserPmap /\ Owns(curpmap) /\ InTLB(curpmap)
           /\ asid = pm_asid[curpmap] /\ TagOf(curpmap) = asid
BY OwnerInTLB DEF TLBInv, MMUTypeOK, RunsUnderOwnASID, Pmaps, TagOf

LEMMA MissStep ==
    ASSUME TLBInv,
           \/ \E va \in UVA : UserMiss(va)
           \/ \E va \in KVA : KernelMiss(va)
    PROVE  TLBInv'
<1>1. ASSUME NEW va \in UVA, UserMiss(va)
      PROVE  Agree(pte', tlb')
  <2>1. curpmap \in Pmaps /\ va \in VA /\ curpmap # Kernel
        /\ pte[curpmap][va].valid
    BY <1>1, UserRuns DEF UserMiss, TLBInv, UserPTEsValid, Pmaps, VA
  <2>2. Agree(pte, TLBUpdate(tlb, TagOf(curpmap), va, Hard(pte[curpmap][va])))
    BY <2>1, UserRuns, LoadedAgree
  <2> QED BY <1>1, <2>1, <2>2, UserRuns DEF UserMiss, maps
<1>2. ASSUME NEW va \in KVA, KernelMiss(va)
      PROVE  Agree(pte', tlb')
  <2>1. /\ Kernel \in Pmaps /\ va \in VA
        /\ InTLB(Kernel) /\ TagOf(Kernel) = Global
    BY DEF Pmaps, VA, InTLB, TagOf
  <2> QED BY <1>2, <2>1, LoadedAgree DEF KernelMiss, maps
<1> QED BY <1>1, <1>2, Coherent, CurpmapLives DEF UserMiss, KernelMiss

\* The TLB entry that trapped is the PTE's, so its checks do not fail.
LEMMA TLBModStep ==
    ASSUME TLBInv, NEW va \in UVA, TLBMod(va)
    PROVE  TLBInv'
<1> DEFINE e == [pte[curpmap][va] EXCEPT !.dirty = TRUE]
<1>1. /\ curpmap # Kernel /\ curpmap \in UserPmap /\ curpmap \in Pmaps
      /\ va \in VA /\ tlb[asid][va].write /\ ~tlb[asid][va].dirty
  BY UserRuns DEF TLBMod, Pmaps, VA
<1>2. tlb[asid][va] # NoEntry
  BY <1>1 DEF NoEntry
<1>3. /\ pte[curpmap][va].valid /\ tlb[asid][va] = Hard(pte[curpmap][va])
      /\ pte[curpmap][va] \in PTE
  BY <1>1, <1>2, UserRuns DEF TLBInv, TLBMatchesPTE, MMUTypeOK
<1>4. ~BadMod(pte[curpmap][va])
  BY <1>1, <1>3 DEF BadMod, Hard
<1>5. e \in PTE /\ e.valid /\ e.pfn \in Page
  BY <1>3 DEF PTE
<1>6. /\ pte' = [pte EXCEPT ![curpmap][va] = e]
      /\ tlb' = TLBUpdate(tlb, pm_asid[curpmap], va, Hard(e))
      /\ halted' = halted /\ pm_count' = pm_count /\ UNCHANGED asids
  BY <1>4 DEF TLBMod
<1> HIDE DEF e
<1>7. Agree([pte EXCEPT ![curpmap][va] = e],
            IF InTLB(curpmap)
            THEN TLBUpdate(tlb, TagOf(curpmap), va, Hard(e)) ELSE tlb)
  BY <1>1, <1>5, AgreeNow, WrittenAgree
<1>8. Agree(pte', tlb')
  BY <1>1, <1>6, <1>7, UserRuns
<1>9. halted = "no"
  BY DEF TLBMod
<1> QED BY <1>6, <1>8, <1>9, Coherent, CurpmapLives

-----------------------------------------------------------------------------
\* The actions that give out ASIDs, change the address space or create one.

\* A new pmap owns no ASID; the one that runs is not new.
LEMMA CreateStep ==
    ASSUME TLBInv, NEW p \in UserPmap, Create(p)
    PROVE  TLBInv'
<1>1. /\ p \in Pmaps /\ p # curpmap /\ p # Kernel
      /\ \A q \in Pmaps \ {p} : /\ pm_asid'[q] = pm_asid[q]
                                /\ pm_asidgen'[q] = pm_asidgen[q]
                                /\ pm_count'[q] = pm_count[q]
      /\ pm_asid'[p] = 0 /\ pm_asidgen'[p] = pmap_asid_generation
      /\ pte' = pte /\ tlb' = tlb /\ pmap_next_asid' = pmap_next_asid
      /\ pmap_asid_generation' = pmap_asid_generation
      /\ curpmap' = curpmap /\ asid' = asid /\ halted' = halted
  BY CurpmapLives
     DEF Create, TLBInv, MMUTypeOK, Pmaps, PMAP_ASID_RESERVED
<1>2. MMUTypeOK'
  BY <1>1 DEF Create, TLBInv, MMUTypeOK, PMAP_ASID_RESERVED, ASID
<1>3. /\ ~Owns(p)'
      /\ \A q \in Pmaps \ {p} : Owns(q)' <=> Owns(q)
  BY <1>1 DEF Owns, NeedsASID, PMAP_ASID_RESERVED
<1>4. ASIDUnique'
  BY <1>1, <1>3 DEF TLBInv, ASIDUnique
<1>5. TLBMatchesPTE' /\ UserPTEsValid'
  BY <1>1, <1>3 DEF TLBInv, TLBMatchesPTE, UserPTEsValid, Pmaps
<1>6. RunsUnderOwnASID'
  BY <1>1, <1>3, CurpmapLives DEF TLBInv, RunsUnderOwnASID, Live
<1>7. FreeASIDsClean'
  BY <1>1, <1>3 DEF TLBInv, FreeASIDsClean
<1>8. GenerationsPassed'
  BY <1>1 DEF TLBInv, GenerationsPassed, MMUTypeOK
<1> QED BY <1>1, <1>2, <1>4, <1>5, <1>6, <1>7, <1>8
        DEF TLBInv, ModTrapFindsPTE

LEMMA ActivateStep ==
    ASSUME TLBInv, NEW p \in Pmaps, Activate(p)
    PROVE  TLBInv'
<1>1. /\ pm_asid' = pm_asid /\ pm_asidgen' = pm_asidgen /\ pte' = pte
      /\ tlb' = tlb /\ pmap_next_asid' = pmap_next_asid
      /\ pmap_asid_generation' = pmap_asid_generation
      /\ pm_count' = pm_count /\ halted' = halted
      /\ curpmap' = p /\ asid' = pm_asid[p] /\ pm_count[p] > 0 /\ Owns(p)
  BY DEF Activate, maps, Owns
<1>2. \A q : Owns(q)' <=> Owns(q)
  BY <1>1 DEF Owns, NeedsASID
<1>3. MMUTypeOK'
  BY <1>1 DEF TLBInv, MMUTypeOK
<1>4. ASIDUnique' /\ GenerationsPassed' /\ UserPTEsValid'
  BY <1>1, <1>2 DEF TLBInv, ASIDUnique, GenerationsPassed, UserPTEsValid
<1>5. TLBMatchesPTE' /\ FreeASIDsClean'
  BY <1>1, <1>2 DEF TLBInv, TLBMatchesPTE, FreeASIDsClean
<1>6. RunsUnderOwnASID'
  BY <1>1, <1>2 DEF RunsUnderOwnASID, Live
<1> QED BY <1>1, <1>3, <1>4, <1>5, <1>6 DEF TLBInv, ModTrapFindsPTE

\* The next ASID is above all in use and the TLB has nothing under it.
LEMMA AllocStep ==
    ASSUME TLBInv, NEW p \in Pmaps, ActivateAlloc(p)
    PROVE  TLBInv'
<1>1. /\ pm_asid' = [pm_asid EXCEPT ![p] = pmap_next_asid]
      /\ pm_asidgen' = [pm_asidgen EXCEPT ![p] = pmap_asid_generation]
      /\ pmap_next_asid' = pmap_next_asid + 1
      /\ pmap_asid_generation' = pmap_asid_generation
      /\ curpmap' = p /\ asid' = pmap_next_asid
      /\ pte' = pte /\ tlb' = tlb /\ pm_count' = pm_count
      /\ halted' = halted /\ pm_count[p] > 0 /\ pmap_next_asid # MaxASID
  BY DEF ActivateAlloc, TakeASID, maps
<1>2. /\ MMUTypeOK /\ pmap_next_asid \in ASID /\ pmap_next_asid # 0
      /\ pmap_next_asid + 1 \in 1 .. MaxASID
  BY <1>1 DEF TLBInv, MMUTypeOK, ASID
<1>3. MMUTypeOK'
  BY <1>1, <1>2 DEF MMUTypeOK
<1>4. /\ pm_asid'[p] = pmap_next_asid
      /\ pm_asidgen'[p] = pmap_asid_generation
      /\ \A q \in Pmaps \ {p} : /\ pm_asid'[q] = pm_asid[q]
                                /\ pm_asidgen'[q] = pm_asidgen[q]
  BY <1>1, <1>2 DEF MMUTypeOK
<1>5. /\ Owns(p)'
      /\ \A q \in Pmaps \ {p} : Owns(q)' <=> Owns(q)
  BY <1>1, <1>2, <1>4 DEF Owns, NeedsASID, PMAP_ASID_RESERVED
<1>6. \A q \in Pmaps : /\ pm_asid[q] \in Nat
                       /\ Owns(q) => pm_asid[q] < pmap_next_asid
  BY <1>2, Tags DEF TLBInv, FreeASIDsClean, MMUTypeOK
<1>7. ASIDUnique'
  BY <1>2, <1>4, <1>5, <1>6 DEF TLBInv, ASIDUnique, ASID
<1>8. TLBMatchesPTE'
  <2>1. \A va \in UVA : tlb[pmap_next_asid][va] = NoEntry
    BY <1>2, Tags DEF TLBInv, FreeASIDsClean
  <2> QED BY <1>1, <1>4, <1>5, <2>1 DEF TLBInv, TLBMatchesPTE, Pmaps
<1>9. FreeASIDsClean'
  <2>1. \A q \in Pmaps : Owns(q)' => pm_asid'[q] < pmap_next_asid'
    BY <1>1, <1>2, <1>4, <1>5, <1>6, Tags
  <2>2. \A t \in ASID, va \in UVA : t >= pmap_next_asid' => tlb'[t][va] = NoEntry
    BY <1>1, <1>2, Tags DEF TLBInv, FreeASIDsClean
  <2> QED BY <2>1, <2>2 DEF FreeASIDsClean
<1>10. GenerationsPassed' /\ UserPTEsValid'
  BY <1>1, <1>2, <1>4
     DEF TLBInv, GenerationsPassed, UserPTEsValid, MMUTypeOK
<1>11. RunsUnderOwnASID'
  BY <1>1, <1>4, <1>5 DEF RunsUnderOwnASID, Live
<1> QED BY <1>1, <1>3, <1>7, <1>8, <1>9, <1>10, <1>11
        DEF TLBInv, ModTrapFindsPTE

\* After the roll-over p alone owns an ASID and only global entries are left.
LEMMA RolloverStep ==
    ASSUME TLBInv, NEW p \in Pmaps, ActivateRollover(p)
    PROVE  TLBInv'
<1>1. /\ pm_asid' = [pm_asid EXCEPT ![p] = 1]
      /\ pm_asidgen' = [pm_asidgen EXCEPT ![p] = pmap_asid_generation + 1]
      /\ pmap_next_asid' = 2
      /\ pmap_asid_generation' = pmap_asid_generation + 1
      /\ curpmap' = p /\ asid' = 1
      /\ pte' = pte /\ tlb' = TLBGlobal /\ pm_count' = pm_count
      /\ halted' = halted /\ pm_count[p] > 0
  BY DEF ActivateRollover, TakeASID, maps
<1>2. MMUTypeOK /\ 1 \in ASID /\ 2 \in 1 .. MaxASID
  BY DEF TLBInv, ASID
<1>3. /\ tlb' \in [Tag -> [VA -> Entry \cup {NoEntry}]]
      /\ \A t \in ASID, va \in VA : tlb'[t][va] = NoEntry
  BY <1>1, <1>2, Tags DEF TLBGlobal, MMUTypeOK
<1>4. MMUTypeOK'
  BY <1>1, <1>2, <1>3 DEF MMUTypeOK
<1>5. /\ pm_asid'[p] = 1 /\ pm_asidgen'[p] = pmap_asid_generation + 1
      /\ \A q \in Pmaps \ {p} : pm_asidgen'[q] = pm_asidgen[q]
  BY <1>1, <1>2 DEF MMUTypeOK
<1>6. \A q \in Pmaps : /\ pm_asidgen[q] \in Nat
                       /\ pm_asidgen[q] <= pmap_asid_generation
  BY <1>2 DEF TLBInv, GenerationsPassed, MMUTypeOK
<1>7. /\ Owns(p)'
      /\ \A q \in Pmaps \ {p} : ~Owns(q)'
  BY <1>1, <1>2, <1>5, <1>6 DEF Owns, NeedsASID, PMAP_ASID_RESERVED, MMUTypeOK
<1>8. ASIDUnique'
  BY <1>7 DEF ASIDUnique
<1>9. TLBMatchesPTE'
  BY <1>2, <1>3, <1>5, <1>7 DEF TLBMatchesPTE, Pmaps, VA
<1>10. FreeASIDsClean'
  BY <1>1, <1>3, <1>5, <1>7 DEF FreeASIDsClean, VA
<1>11. GenerationsPassed' /\ UserPTEsValid'
  BY <1>1, <1>2, <1>5, <1>6
     DEF TLBInv, GenerationsPassed, UserPTEsValid, MMUTypeOK
<1>12. RunsUnderOwnASID'
  BY <1>1, <1>5, <1>7 DEF RunsUnderOwnASID, Live
<1> QED BY <1>1, <1>4, <1>8, <1>9, <1>10, <1>11, <1>12
        DEF TLBInv, ModTrapFindsPTE

-----------------------------------------------------------------------------
LEMMA TLBInvInit == Init => TLBInv
<1> SUFFICES ASSUME Init PROVE TLBInv
  OBVIOUS
<1>1. MMUTypeOK
  BY EmptyTypes DEF Init, MMUTypeOK, ASID, One, Pmaps, PMAP_ASID_RESERVED
<1>2. \A p \in Pmaps : ~Owns(p)
  BY DEF Init, Owns, NeedsASID
<1>3. ASIDUnique /\ TLBMatchesPTE
  BY <1>2 DEF ASIDUnique, TLBMatchesPTE, Pmaps
<1>4. RunsUnderOwnASID
  BY DEF Init, RunsUnderOwnASID, Live, One, Pmaps
<1>5. FreeASIDsClean
  BY <1>2, Tags DEF Init, FreeASIDsClean, VA
<1>6. GenerationsPassed /\ UserPTEsValid
  BY DEF Init, GenerationsPassed, UserPTEsValid, Pmaps, VA
<1> QED BY <1>1, <1>3, <1>4, <1>5, <1>6 DEF Init, TLBInv, ModTrapFindsPTE

LEMMA TLBInvNext == TLBInv /\ [Next]_vars => TLBInv'
<1> SUFFICES ASSUME TLBInv, [Next]_vars PROVE TLBInv'
  OBVIOUS
<1>1. CASE UNCHANGED vars
  BY <1>1, AgreeNow, Coherent, CurpmapLives
     DEF vars, asids, TLBInv, ModTrapFindsPTE
<1>2. CASE Next
  <2>1. UserPmap \subseteq Pmaps /\ Kernel \in Pmaps
    BY DEF Pmaps
  <2>2. ASSUME NEW p \in UserPmap, UserOp(p) PROVE TLBInv'
    <3>1. ASSUME NEW S, Remove(p, S) PROVE TLBInv'
      BY <2>1, <3>1, RemoveStep
    <3>2. ASSUME NEW S, NEW prot, Protect(p, S, prot) PROVE TLBInv'
      BY <2>1, <3>2, ProtectStep
    <3>3. ASSUME NEW va \in UVA, NEW g \in Page, NEW prot, NEW acc,
                 NEW wired \in Wirings,
                 \/ Enter(p, va, g, prot, acc, wired)
                 \/ EnterNoMemory(p, va, g, acc)
          PROVE  TLBInv'
      BY <2>1, <3>3, EnterStep, EnterFailsStep
    <3>4. ASSUME NEW va, NEW g, EnterForever(p, va, g) \/ EnterPanics(p, va, g)
          PROVE  TLBInv'
      BY <2>1, <3>4, EnterFailsStep
    <3>5. ASSUME Create(p) \/ Reference(p) \/ Destroy(p) PROVE TLBInv'
      BY <2>1, <3>5, CreateStep, CountStep
    <3> QED BY <2>2, <3>1, <3>2, <3>3, <3>4, <3>5 DEF UserOp
  <2>3. ASSUME KernelOp PROVE TLBInv'
    <3>1. ASSUME NEW S, Remove(Kernel, S) \/ KRemove(S) PROVE TLBInv'
      BY <2>1, <3>1, RemoveStep, KRemoveStep
    <3>2. ASSUME NEW S, NEW prot, Protect(Kernel, S, prot) PROVE TLBInv'
      BY <2>1, <3>2, ProtectStep
    <3>3. ASSUME NEW va \in KVA, NEW g \in Page, NEW prot, KEnter(va, g, prot)
          PROVE  TLBInv'
      BY <2>1, <3>3, KEnterStep
    <3>4. ASSUME NEW va \in KVA, NEW g \in Page, NEW prot, NEW acc,
                 NEW wired \in Wirings, EnterKernel(va, g, prot, acc, wired)
          PROVE  TLBInv'
      BY <2>1, <3>4, EnterKernelStep
    <3>5. ASSUME NEW va, NEW g,
                 EnterForever(Kernel, va, g) \/ EnterPanics(Kernel, va, g)
          PROVE  TLBInv'
      BY <2>1, <3>5, EnterFailsStep
    <3>6. ASSUME NEW S, ProtectPanics(S) PROVE TLBInv'
      BY <2>1, <3>6, ProtectPanicsStep
    <3> QED BY <2>3, <3>1, <3>2, <3>3, <3>4, <3>5, <3>6 DEF KernelOp
  <2>4. ASSUME NEW p \in Pmaps,
               Activate(p) \/ ActivateAlloc(p) \/ ActivateRollover(p)
        PROVE  TLBInv'
    BY <2>1, <2>4, ActivateStep, AllocStep, RolloverStep
  <2>5. ASSUME NEW g \in Page, PageProtect(g) \/ ClearModify(g) PROVE TLBInv'
    BY <2>1, <2>5, PageProtectStep, ClearModifyStep
  <2>6. ASSUME NEW t \in Tag, NEW va \in VA, Evict(t, va) PROVE TLBInv'
    BY <2>1, <2>6, EvictStep
  <2>7. ASSUME NEW va \in UVA, UserMiss(va) \/ TLBMod(va) PROVE TLBInv'
    BY <2>1, <2>7, MissStep, TLBModStep
  <2>8. ASSUME NEW va \in KVA, KernelMiss(va) PROVE TLBInv'
    BY <2>1, <2>8, MissStep
  <2> QED BY <1>2, <2>2, <2>3, <2>4, <2>5, <2>6, <2>7, <2>8 DEF Next
<1> QED BY <1>1, <1>2

\* TLBInv holds in every reachable state.
THEOREM TLBInvariance == Spec => []TLBInv
BY TLBInvInit, TLBInvNext, PTL DEF Spec

\* pmap_asid_alloc() never gives two address spaces the same ASID of the
\* current generation.
THEOREM ASIDsAreUnique == Spec => []ASIDUnique
<1>1. TLBInv => ASIDUnique
  BY DEF TLBInv
<1> QED BY <1>1, TLBInvariance, PTL

\* The TLB never holds a stale translation for an address space: the flushes
\* and updates of pmap.c and the ASID generations are enough.
THEOREM NoStaleTranslation == Spec => []TLBMatchesPTE
<1>1. TLBInv => TLBMatchesPTE
  BY DEF TLBInv
<1> QED BY <1>1, TLBInvariance, PTL

\* The T_TLB_MOD handler never panics on a user store.
THEOREM ModTrapSafe == Spec => []ModTrapFindsPTE
<1>1. TLBInv => ModTrapFindsPTE
  BY DEF TLBInv
<1> QED BY <1>1, TLBInvariance, PTL

-----------------------------------------------------------------------------
\* Lists.  What Without() returns is shown by induction over the positions,
\* with the least position at which it would go wrong.

\* Every set of natural numbers has a least element.
LEMMA Least ==
    ASSUME NEW T, T \subseteq Nat, T # {}
    PROVE  \E x \in T : \A y \in T : ~(y < x)
<1>0. IsWellFoundedOn({ss \in Nat \X Nat : ss[1] < ss[2]}, Nat)
  BY NatLessThanWellFounded DEF OpToRel
<1> DEFINE R == {ss \in Nat \X Nat : ss[1] < ss[2]}
<1> HIDE DEF R
<1>1. \E x \in T : \A y \in T : ~(<<y, x>> \in R)
  BY <1>0, WFMin DEF R
<1> QED BY <1>1 DEF R

\* f is the function kept of Without(), up to position n.
Keeps(f, list, D, n) ==
    f = [i \in 0 .. n |->
            IF i = 0 THEN << >>
            ELSE IF list[i] \in D THEN f[i - 1]
                                  ELSE Append(f[i - 1], list[i])]

LEMMA KeepsExists ==
    ASSUME NEW S, NEW list \in Seq(S), NEW D, NEW n \in Nat
    PROVE  \E f : Keeps(f, list, D, n)
<1> DEFINE Bad == {k \in Nat : ~\E f : Keeps(f, list, D, k)}
<1> SUFFICES ASSUME Bad # {} PROVE FALSE
  OBVIOUS
<1>1. PICK k \in Bad : \A y \in Bad : ~(y < k)
  BY Least
<1>2. k # 0
  <2>1. Keeps([i \in 0 .. 0 |-> << >>], list, D, 0)
    BY DEF Keeps
  <2> QED BY <2>1
<1>3. k \in Nat /\ k - 1 \in Nat /\ k - 1 < k
  BY <1>2
<1>4. k - 1 \notin Bad
  BY <1>1, <1>3
<1>5. PICK f : Keeps(f, list, D, k - 1)
  BY <1>3, <1>4
<1> DEFINE g == [i \in 0 .. k |->
                   IF i # k THEN f[i]
                   ELSE IF list[k] \in D THEN f[k - 1]
                                         ELSE Append(f[k - 1], list[k])]
<1>6. Keeps(g, list, D, k)
  <2>1. \A i \in 0 .. k :
          g[i] = IF i = 0 THEN << >>
            ELSE IF list[i] \in D THEN g[i - 1]
                                  ELSE Append(g[i - 1], list[i])
    <3> TAKE i \in 0 .. k
    <3>1. CASE i = k
      BY <3>1, <1>3, <1>2
    <3>2. CASE i # k
      <4>1. i \in 0 .. k - 1
        BY <3>2, <1>3
      <4>2. f[i] = IF i = 0 THEN << >>
            ELSE IF list[i] \in D THEN f[i - 1]
                                  ELSE Append(f[i - 1], list[i])
        BY <4>1, <1>5 DEF Keeps
      <4>3. g[i] = f[i] /\ (i # 0 => g[i - 1] = f[i - 1])
        BY <4>1, <3>2, <1>3
      <4> QED BY <4>2, <4>3
    <3> QED BY <3>1, <3>2
  <2> HIDE DEF g
  <2>2. g = [i \in 0 .. k |-> g[i]]
    BY DEF g
  <2> QED BY <2>1, <2>2 DEF Keeps
<1> QED BY <1>1, <1>6

\* So Without() is what its recursion says.
LEMMA WithoutIs ==
    ASSUME NEW S, NEW list \in Seq(S), NEW D
    PROVE  \E f : Keeps(f, list, D, Len(list)) /\ Without(list, D) = f[Len(list)]
<1> DEFINE f == CHOOSE h : Keeps(h, list, D, Len(list))
<1>1. Keeps(f, list, D, Len(list))
  BY KeepsExists, Len(list) \in Nat
<1>2. Without(list, D) = f[Len(list)]
  BY DEF Without, Keeps
<1> QED BY <1>1, <1>2

\* The elements of a list, and whether each is there once.
Elems(list) == {list[i] : i \in 1 .. Len(list)}
Distinct(list) == \A i, j \in 1 .. Len(list) : list[i] = list[j] => i = j

LEMMA Appended ==
    ASSUME NEW S, NEW s \in Seq(S), NEW x \in S
    PROVE  /\ Append(s, x) \in Seq(S)
           /\ Elems(Append(s, x)) = Elems(s) \cup {x}
           /\ Distinct(s) /\ x \notin Elems(s) => Distinct(Append(s, x))
<1>1. /\ Append(s, x) \in Seq(S) /\ Len(Append(s, x)) = Len(s) + 1
      /\ \A i \in 1 .. Len(s) : Append(s, x)[i] = s[i]
      /\ Append(s, x)[Len(s) + 1] = x /\ Len(s) \in Nat
  OBVIOUS
<1> DEFINE a == Append(s, x)
<1> HIDE DEF a
<1>2. Elems(a) = Elems(s) \cup {x}
  <2>1. \A i \in 1 .. Len(a) : i \in 1 .. Len(s) \/ i = Len(s) + 1
    BY <1>1 DEF a
  <2>2. 1 .. Len(s) \subseteq 1 .. Len(a) /\ Len(s) + 1 \in 1 .. Len(a)
    BY <1>1 DEF a
  <2> QED BY <1>1, <2>1, <2>2 DEF a, Elems
<1>3. Distinct(s) /\ x \notin Elems(s) => Distinct(a)
  BY <1>1 DEF a, Elems, Distinct
<1> QED BY <1>1, <1>2, <1>3 DEF a

\* Without() removes the elements of D, and them alone.
LEMMA WithoutList ==
    ASSUME NEW S, NEW list \in Seq(S), NEW D
    PROVE  /\ Without(list, D) \in Seq(S)
           /\ Elems(Without(list, D)) = Elems(list) \ D
           /\ Distinct(list) => Distinct(Without(list, D))
<1>1. PICK f : Keeps(f, list, D, Len(list)) /\ Without(list, D) = f[Len(list)]
  BY WithoutIs
<1> DEFINE First(i) == {list[j] : j \in 1 .. i}
           Good(i) == /\ f[i] \in Seq(S)
                      /\ Elems(f[i]) = First(i) \ D
                      /\ Distinct(list) => Distinct(f[i])
           Bad == {i \in Nat : i <= Len(list) /\ ~Good(i)}
<1>2. Bad = {}
  <2> SUFFICES ASSUME Bad # {} PROVE FALSE
    OBVIOUS
  <2>1. PICK k \in Bad : \A y \in Bad : ~(y < k)
    BY Least
  <2>2. k # 0
    <3>1. f[0] = << >>
      BY <1>1 DEF Keeps
    <3>2. Good(0)
      BY <3>1 DEF Elems, Distinct
    <3> QED BY <3>2
  <2>3. k \in Nat /\ k - 1 \in Nat /\ k - 1 < k /\ k <= Len(list)
        /\ k \in 1 .. Len(list) /\ list[k] \in S
    BY <2>2
  <2>4. Good(k - 1)
    <3> HIDE DEF Good
    <3>1. k - 1 <= Len(list)
      BY <2>3
    <3>2. k - 1 \notin Bad
      <4> HIDE DEF Bad
      <4> QED BY <2>1, <2>3
    <3> QED BY <2>3, <3>1, <3>2
  <2>5. f[k] = IF list[k] \in D THEN f[k - 1] ELSE Append(f[k - 1], list[k])
    <3>1. k \in 0 .. Len(list)
      BY <2>3
    <3> QED BY <1>1, <2>2, <3>1 DEF Keeps
  <2>6. First(k) = First(k - 1) \cup {list[k]}
    <3>1. \A j \in 1 .. k : j \in 1 .. k - 1 \/ j = k
      BY <2>3
    <3>2. 1 .. k - 1 \subseteq 1 .. k /\ k \in 1 .. k
      BY <2>3
    <3> QED BY <3>1, <3>2
  <2>7. Distinct(list) => list[k] \notin First(k - 1)
    BY <2>3 DEF Distinct
  <2> HIDE DEF First
  <2>8. Good(k)
    <3>1. CASE list[k] \in D
      BY <2>4, <2>5, <2>6, <3>1
    <3>2. CASE list[k] \notin D
      BY <2>3, <2>4, <2>5, <2>6, <2>7, <3>2, Appended
    <3> QED BY <3>1, <3>2
  <2> QED BY <2>1, <2>8
<1>3. Good(Len(list))
  <2>1. Len(list) \in Nat /\ Len(list) <= Len(list)
    OBVIOUS
  <2> HIDE DEF Good
  <2> QED BY <1>2, <2>1
<1> QED BY <1>1, <1>3 DEF Elems

\* Insert() adds its element once.
LEMMA Inserted ==
    ASSUME NEW S, NEW list \in Seq(S), NEW m \in S
    PROVE  /\ Insert(list, m) \in Seq(S)
           /\ Elems(Insert(list, m)) = Elems(list) \cup {m}
           /\ Distinct(list) => Distinct(Insert(list, m))
<1>1. CASE list = << >>
  BY <1>1 DEF Insert, Elems, Distinct
<1>2. CASE list # << >> /\ \E i \in 1 .. Len(list) : list[i] = m
  BY <1>2 DEF Insert, Elems
<1>3. CASE list # << >> /\ ~\E i \in 1 .. Len(list) : list[i] = m
  <2> DEFINE n == <<list[1], m>> \o Tail(list)
  <2>1. Insert(list, m) = n
    BY <1>3 DEF Insert
  <2>2. /\ Len(list) \in Nat \ {0} /\ list[1] \in S
        /\ Tail(list) \in Seq(S) /\ Len(Tail(list)) = Len(list) - 1
        /\ \A i \in 1 .. Len(list) - 1 : Tail(list)[i] = list[i + 1]
    BY <1>3
  <2>3. /\ n \in Seq(S) /\ Len(n) = Len(list) + 1
        /\ n[1] = list[1] /\ n[2] = m
        /\ \A i \in 3 .. Len(list) + 1 : n[i] = list[i - 1]
    BY <2>2
  <2> HIDE DEF n
  <2>4. Elems(n) = Elems(list) \cup {m}
    <3>1. ASSUME NEW i \in 1 .. Len(n) PROVE n[i] \in Elems(list) \cup {m}
      <4>1. CASE i = 1
        BY <2>2, <2>3, <4>1 DEF Elems
      <4>2. CASE i = 2
        BY <2>3, <4>2
      <4>3. CASE i \in 3 .. Len(list) + 1
        BY <2>2, <2>3, <4>3 DEF Elems
      <4> QED BY <2>2, <2>3, <4>1, <4>2, <4>3
    <3>2. ASSUME NEW i \in 1 .. Len(list) PROVE list[i] \in Elems(n)
      <4>1. CASE i = 1
        BY <2>2, <2>3, <4>1 DEF Elems
      <4>2. CASE i # 1
        <5>1. i + 1 \in 3 .. Len(list) + 1 /\ n[i + 1] = list[i]
              /\ i + 1 \in 1 .. Len(n)
          BY <2>2, <2>3, <4>2
        <5> QED BY <5>1 DEF Elems
      <4> QED BY <4>1, <4>2
    <3>3. m \in Elems(n)
      BY <2>2, <2>3 DEF Elems
    <3> QED BY <3>1, <3>2, <3>3 DEF Elems
  <2>5. Distinct(list) => Distinct(n)
    BY <1>3, <2>2, <2>3 DEF Distinct
  <2> QED BY <2>1, <2>3, <2>4, <2>5
<1> QED BY <1>1, <1>2, <1>3

-----------------------------------------------------------------------------
\* The kernel's translations.

\* The kernel's entries of the TLB T follow the page tables P.
Follows(P, T) ==
    \A va \in KVA : T[Global][va] # NoEntry =>
        /\ T[Global][va].pfn = P[Kernel][va].pfn
        /\ T[Global][va].write = P[Kernel][va].write

\* The kernel's addresses, tag and page table.
LEMMA KernelTag ==
    /\ KVA \subseteq VA /\ Kernel \in Pmaps /\ Global \in Tag
    /\ InTLB(Kernel) /\ TagOf(Kernel) = Global
BY Tags DEF VA, Pmaps, InTLB, TagOf

\* A user pmap never writes under the kernel's tag.
LEMMA UserTag ==
    ASSUME MMUTypeOK, NEW p \in UserPmap
    PROVE  p # Kernel /\ TagOf(p) # Global
<1>1. p \in Pmaps
  BY DEF Pmaps
<1> QED BY <1>1, TagType, Tags

LEMMA RemovedFollows ==
    ASSUME TLBInv, KernelTLBMatchesPTE, NEW R
    PROVE  Follows(PTEWithout(R), TLBWithout(R))
<1>1. MMUTypeOK /\ UserPTEsValid
  BY DEF TLBInv
<1>2. SUFFICES ASSUME NEW va \in KVA, TLBWithout(R)[Global][va] # NoEntry
               PROVE  /\ PTEWithout(R)[Kernel][va] = pte[Kernel][va]
                      /\ TLBWithout(R)[Global][va] = tlb[Global][va]
  BY DEF Follows, KernelTLBMatchesPTE
<1> QED BY <1>1, <1>2, KernelTag, Removed

\* A PTE and the TLB entry under its pmap's tag are written together.
LEMMA WrittenFollows ==
    ASSUME MMUTypeOK, NEW P, NEW T, Follows(P, T),
           P \in [Pmaps -> [VA -> PTE]],
           T \in [Tag -> [VA -> Entry \cup {NoEntry}]],
           NEW p \in Pmaps, NEW va \in VA, NEW e
    PROVE  Follows([P EXCEPT ![p][va] = e],
                   IF InTLB(p) THEN TLBUpdate(T, TagOf(p), va, Hard(e)) ELSE T)
<1>1. p # Kernel => TagOf(p) # Global
  BY UserTag DEF Pmaps
<1>2. TagOf(p) \in Tag
  BY TagType
<1> QED BY <1>1, <1>2, KernelTag DEF Follows, TLBUpdate, Hard

\* pmap_enter(), whose PTE for the kernel is not valid and is in the TLB all
\* the same.
LEMMA EnterFollows ==
    ASSUME TLBInv, KernelTLBMatchesPTE, NEW p \in Pmaps, NEW va \in VA,
           NEW g, NEW e \in Entry, NEW wired, NEW v, NEW R,
           EnterMapping(p, va, g, e, wired, v, R)
    PROVE  KernelTLBMatchesPTE'
<1> DEFINE n == MakePTE(e, v, wired)
<1>1. Hard(n) = e
  BY DEF Hard, MakePTE, Entry
<1>2. /\ pte' = [PTEWithout(R) EXCEPT ![p][va] = n]
      /\ tlb' = IF InTLB(p) THEN TLBUpdate(TLBWithout(R), TagOf(p), va, e)
                ELSE TLBWithout(R)
  BY DEF EnterMapping
<1> HIDE DEF n
<1>3. /\ Follows(PTEWithout(R), TLBWithout(R)) /\ MMUTypeOK
      /\ PTEWithout(R) \in [Pmaps -> [VA -> PTE]]
      /\ TLBWithout(R) \in [Tag -> [VA -> Entry \cup {NoEntry}]]
  BY RemovedFollows, Removed DEF TLBInv
<1>4. Follows([PTEWithout(R) EXCEPT ![p][va] = n],
              IF InTLB(p) THEN TLBUpdate(TLBWithout(R), TagOf(p), va, Hard(n))
              ELSE TLBWithout(R))
  BY <1>3, WrittenFollows
<1> QED BY <1>1, <1>2, <1>4 DEF Follows, KernelTLBMatchesPTE

LEMMA KEnterFollows ==
    ASSUME TLBInv, KernelTLBMatchesPTE, NEW va \in KVA, NEW g \in Page,
           NEW prot, KEnter(va, g, prot)
    PROVE  KernelTLBMatchesPTE'
BY KernelTag
   DEF TLBInv, MMUTypeOK, KEnter, KernelTLBMatchesPTE, TLBUpdate, MakePTE

LEMMA ProtectFollows ==
    ASSUME TLBInv, KernelTLBMatchesPTE, NEW p \in Pmaps, NEW S, NEW prot,
           Protect(p, S, prot)
    PROVE  KernelTLBMatchesPTE'
<1>1. \A w \in KVA : tlb'[Global][w] # NoEntry =>
         tlb'[Global][w] = tlb[Global][w] /\ pte'[Kernel][w] = pte[Kernel][w]
  <2>1. \A w \in KVA :
           tlb'[Global][w] =
             IF w \in S /\ pte[p][w].valid /\ InTLB(p) /\ TagOf(p) = Global
             THEN IF p = Kernel THEN NoEntry
                  ELSE Hard(Reprotected(pte[p][w], prot))
             ELSE tlb[Global][w]
    BY KernelTag DEF Protect, TLBReprotected
  <2>2. \A w \in KVA :
           pte'[Kernel][w] = IF Kernel = p /\ w \in S /\ pte[p][w].valid
                             THEN Reprotected(pte[p][w], prot)
                             ELSE pte[Kernel][w]
    BY KernelTag DEF Protect, TLBInv, MMUTypeOK
  <2>3. p # Kernel => TagOf(p) # Global
    BY UserTag DEF TLBInv, Pmaps
  <2> QED BY <2>1, <2>2, <2>3, KernelTag
<1> QED BY <1>1 DEF KernelTLBMatchesPTE

\* pmap_clear_modify() changes neither the page nor the protection.
LEMMA ClearModifyFollows ==
    ASSUME TLBInv, KernelTLBMatchesPTE, NEW g \in Page, ClearModify(g)
    PROVE  KernelTLBMatchesPTE'
<1>1. tlb' = tlb
  BY DEF ClearModify
<1>2. \A w \in KVA : /\ pte'[Kernel][w].pfn = pte[Kernel][w].pfn
                     /\ pte'[Kernel][w].write = pte[Kernel][w].write
  <2> TAKE w \in KVA
  <2>1. pte[Kernel][w] \in PTE
    BY KernelTag DEF TLBInv, MMUTypeOK
  <2>2. pte'[Kernel][w] \in {pte[Kernel][w],
                             [pte[Kernel][w] EXCEPT !.dirty = FALSE]}
    <3>1. CASE pte' = pte
      BY <3>1
    <3>2. CASE pte' = [p \in Pmaps |-> [va \in VA |->
                  IF <<p, va>> \in Dirty(g)
                  THEN [pte[p][va] EXCEPT !.dirty = FALSE] ELSE pte[p][va]]]
      BY <3>2, KernelTag
    <3> QED BY <3>1, <3>2 DEF ClearModify
  <2> QED BY <2>1, <2>2 DEF PTE
<1> QED BY <1>1, <1>2 DEF KernelTLBMatchesPTE

\* The other actions on the TLB: kernel entries leave it at any time, are
\* loaded from the kernel's page table and stay when a new generation starts.
LEMMA TLBFollows ==
    ASSUME TLBInv, KernelTLBMatchesPTE,
           \/ \E t \in Tag, va \in VA : Evict(t, va)
           \/ \E va \in UVA : UserMiss(va)
           \/ \E va \in KVA : KernelMiss(va)
           \/ \E p \in Pmaps : ActivateRollover(p)
    PROVE  KernelTLBMatchesPTE'
<1>1. ASSUME NEW t \in Tag, NEW va \in VA, Evict(t, va)
      PROVE  KernelTLBMatchesPTE'
  BY <1>1, KernelTag
     DEF Evict, maps, TLBUpdate, KernelTLBMatchesPTE, TLBInv, MMUTypeOK
<1>2. ASSUME NEW va \in UVA, UserMiss(va)
      PROVE  KernelTLBMatchesPTE'
  <2>1. asid \in Tag /\ asid # Global
    BY Tags DEF TLBInv, MMUTypeOK
  <2> QED BY <1>2, <2>1, KernelTag
          DEF UserMiss, maps, TLBUpdate, KernelTLBMatchesPTE, TLBInv, MMUTypeOK, VA
<1>3. ASSUME NEW va \in KVA, KernelMiss(va)
      PROVE  KernelTLBMatchesPTE'
  BY <1>3, KernelTag
     DEF KernelMiss, maps, TLBUpdate, KernelTLBMatchesPTE, TLBInv, MMUTypeOK, Hard
<1>4. ASSUME NEW p \in Pmaps, ActivateRollover(p)
      PROVE  KernelTLBMatchesPTE'
  BY <1>4, KernelTag
     DEF ActivateRollover, TakeASID, maps, TLBGlobal, KernelTLBMatchesPTE
<1> QED BY <1>1, <1>2, <1>3, <1>4

\* T_TLB_MOD is about the running user address space.
LEMMA TLBModFollows ==
    ASSUME TLBInv, KernelTLBMatchesPTE, NEW va \in UVA, TLBMod(va)
    PROVE  KernelTLBMatchesPTE'
<1>1. /\ curpmap \in Pmaps /\ curpmap # Kernel
      /\ pm_asid[curpmap] \in Tag /\ pm_asid[curpmap] # Global
  BY Tags DEF TLBMod, TLBInv, MMUTypeOK
<1>2. \A w \in KVA : /\ tlb'[Global][w] = tlb[Global][w]
                     /\ pte'[Kernel][w] = pte[Kernel][w]
  BY <1>1, KernelTag DEF TLBMod, TLBUpdate, TLBInv, MMUTypeOK, VA
<1> QED BY <1>2 DEF KernelTLBMatchesPTE

-----------------------------------------------------------------------------
\* The pv lists.

\* The pv lists L hold each user mapping of the page tables P once, and the
\* mappings in a list have the same cache index.
Listed(P, L) ==
    /\ L \in [Page -> Seq(Pmaps \X VA)]
    /\ \A g \in Page :
          /\ \A p \in UserPmap, va \in UVA :
                <<p, va>> \in Elems(L[g]) <=> P[p][va].valid /\ P[p][va].pfn = g
          /\ Distinct(L[g])
          /\ \A m, n \in Elems(L[g]) : Colour[m[2]] = Colour[n[2]]

\* The part of MapsInv about the lists.
ListsInv ==
    /\ pv \in [Page -> Seq(Pmaps \X VA)]
    /\ PVListExact /\ OneCacheIndex

LEMMA ListedNow == ListsInv <=> Listed(pte, pv)
<1>1. \A g : MappingsOf(g) = Elems(pv[g])
  BY DEF MappingsOf, Elems
<1>2. ASSUME ListsInv PROVE Listed(pte, pv)
  BY <1>1, <1>2 DEF ListsInv, PVListExact, OneCacheIndex, Listed, Distinct
<1>3. ASSUME Listed(pte, pv) PROVE ListsInv
  BY <1>1, <1>3 DEF ListsInv, PVListExact, OneCacheIndex, Listed, Distinct
<1> QED BY <1>2, <1>3

LEMMA ListedNext ==
    ASSUME Listed(pte', pv')
    PROVE  ListsInv'
<1>1. \A g : MappingsOf(g)' = Elems(pv'[g])
  BY DEF MappingsOf, Elems
<1> QED BY <1>1 DEF ListsInv, PVListExact, OneCacheIndex, Listed, Distinct

\* pmap_remove().
LEMMA RemovedListed ==
    ASSUME TLBInv, ListsInv, NEW R
    PROVE  Listed(PTEWithout(R), PVWithout(R))
<1>1. Listed(pte, pv) /\ MMUTypeOK
  BY ListedNow DEF TLBInv
<1> DEFINE D(g) == {m \in R : MapsPage(m, g)}
<1>2. ASSUME NEW g \in Page
      PROVE  /\ PVWithout(R)[g] = Without(pv[g], D(g))
             /\ PVWithout(R)[g] \in Seq(Pmaps \X VA)
             /\ Elems(PVWithout(R)[g]) = Elems(pv[g]) \ D(g)
             /\ Distinct(PVWithout(R)[g])
  <2>1. PVWithout(R)[g] = Without(pv[g], D(g))
    BY DEF PVWithout
  <2>2. pv[g] \in Seq(Pmaps \X VA) /\ Distinct(pv[g])
    BY <1>1 DEF Listed
  <2> HIDE DEF D
  <2> QED BY <2>1, <2>2, WithoutList
<1>3. PVWithout(R) \in [Page -> Seq(Pmaps \X VA)]
  <2>1. PVWithout(R) = [g \in Page |-> PVWithout(R)[g]]
    BY DEF PVWithout
  <2> QED BY <1>2, <2>1
<1>4. ASSUME NEW g \in Page, NEW p \in UserPmap, NEW va \in UVA
      PROVE  <<p, va>> \in Elems(PVWithout(R)[g]) <=>
                /\ PTEWithout(R)[p][va].valid
                /\ PTEWithout(R)[p][va].pfn = g
  <2>1. p \in Pmaps /\ va \in VA
    BY DEF Pmaps, VA
  <2>2. PTEWithout(R)[p][va] = IF <<p, va>> \in Valid(R) THEN NoPTE
                               ELSE pte[p][va]
    BY <2>1 DEF PTEWithout
  <2>3. <<p, va>> \in Elems(pv[g]) <=> pte[p][va].valid /\ pte[p][va].pfn = g
    BY <1>1 DEF Listed
  <2>4. <<p, va>> \in D(g) <=> <<p, va>> \in Valid(R) /\ pte[p][va].pfn = g
    BY DEF MapsPage, Valid
  <2> HIDE DEF D
  <2> QED BY <1>2, <2>2, <2>3, <2>4 DEF NoPTE
<1>5. \A g \in Page : \A m, n \in Elems(PVWithout(R)[g]) :
         Colour[m[2]] = Colour[n[2]]
  <2> TAKE g \in Page
  <2>1. Elems(PVWithout(R)[g]) \subseteq Elems(pv[g])
    BY <1>2
  <2> QED BY <1>1, <2>1 DEF Listed
<1> QED BY <1>2, <1>3, <1>4, <1>5 DEF Listed

\* When pmap_enter_pv() has removed the conflicting mappings, all that are
\* left in the list have the cache index of va.
LEMMA ConflictsGone ==
    ASSUME ListsInv, NEW g \in Page, NEW va, NEW R,
           ~EnterSpins(g, va), Conflicts(g, va) \subseteq R,
           NEW m \in Elems(PVWithout(R)[g])
    PROVE  Colour[m[2]] = Colour[va]
<1> DEFINE D == {n \in R : MapsPage(n, g)}
<1>1. pv[g] \in Seq(Pmaps \X VA) /\ PVWithout(R)[g] = Without(pv[g], D)
  BY DEF ListsInv, PVWithout
<1>2. \A n \in Conflicts(g, va) : n \in D
  BY DEF EnterSpins
<1> HIDE DEF D
<1>3. m \in Elems(pv[g]) /\ m \notin D
  BY <1>1, WithoutList
<1>4. m \in MappingsOf(g) /\ m \in Pmaps \X VA
  BY <1>1, <1>3 DEF Elems, MappingsOf
<1> QED BY <1>2, <1>3, <1>4 DEF Conflicts

\* pmap_enter().
LEMMA EnteredListed ==
    ASSUME TLBInv, ListsInv, NEW p \in Pmaps, NEW va \in VA, NEW g \in Page,
           NEW e \in Entry, NEW wired, NEW v, NEW R,
           EnterMapping(p, va, g, e, wired, v, R), e.pfn = g,
           ~EnterSpins(g, va), Conflicts(g, va) \subseteq R,
           p # Kernel => va \in UVA /\ v = TRUE /\ Replaced(p, va, g) \subseteq R
    PROVE  ListsInv'
<1> DEFINE P == PTEWithout(R)
           L == PVWithout(R)
<1>1. Listed(P, L)
  BY RemovedListed
<1>2. P \in [Pmaps -> [VA -> PTE]]
  BY Removed DEF TLBInv
<1>3. /\ pv' = [L EXCEPT ![g] = Insert(@, <<p, va>>)]
      /\ pte' = [P EXCEPT ![p][va] = MakePTE(e, v, wired)]
  BY DEF EnterMapping
<1>4. p # Kernel => p \in UserPmap /\ va \in UVA
        /\ (P[p][va].valid => P[p][va].pfn = g)
  BY DEF PTEWithout, Replaced, Valid, NoPTE, Pmaps
<1>0. \A m \in Elems(L[g]) : Colour[m[2]] = Colour[va]
  BY ConflictsGone
<1> HIDE DEF P, L
<1>5. /\ pv' \in [Page -> Seq(Pmaps \X VA)]
      /\ Elems(pv'[g]) = Elems(L[g]) \cup {<<p, va>>} /\ Distinct(pv'[g])
      /\ \A h \in Page \ {g} : pv'[h] = L[h]
  <2>1. L \in [Page -> Seq(Pmaps \X VA)] /\ Distinct(L[g])
    BY <1>1 DEF Listed
  <2>2. /\ Insert(L[g], <<p, va>>) \in Seq(Pmaps \X VA)
        /\ Elems(Insert(L[g], <<p, va>>)) = Elems(L[g]) \cup {<<p, va>>}
        /\ Distinct(Insert(L[g], <<p, va>>))
    <3> DEFINE m == <<p, va>>
               S == Pmaps \X VA
    <3>1. L[g] \in Seq(S) /\ m \in S
      BY <2>1
    <3> HIDE DEF m, S
    <3>2. /\ Insert(L[g], m) \in Seq(S)
          /\ Elems(Insert(L[g], m)) = Elems(L[g]) \cup {m}
          /\ Distinct(Insert(L[g], m))
      BY <2>1, <3>1, Inserted
    <3> QED BY <3>2 DEF m, S
  <2>3. pv'[g] = Insert(L[g], <<p, va>>) /\ \A h \in Page \ {g} : pv'[h] = L[h]
    BY <1>3, <2>1
  <2>4. pv' \in [Page -> Seq(Pmaps \X VA)]
    BY <1>3, <2>1, <2>2
  <2> QED BY <2>2, <2>3, <2>4
<1>6. \A q \in UserPmap, w \in UVA :
         pte'[q][w] = IF q = p /\ w = va THEN MakePTE(e, v, wired) ELSE P[q][w]
  BY <1>2, <1>3 DEF Pmaps, VA
<1>7. ASSUME NEW h \in Page, NEW q \in UserPmap, NEW w \in UVA
      PROVE  <<q, w>> \in Elems(pv'[h]) <=>
                pte'[q][w].valid /\ pte'[q][w].pfn = h
  <2>1. <<q, w>> \in Elems(L[h]) <=> P[q][w].valid /\ P[q][w].pfn = h
    BY <1>1 DEF Listed
  <2>2. CASE q = p /\ w = va
    <3>1. p # Kernel
      BY <2>2
    <3>2. pte'[q][w].valid /\ pte'[q][w].pfn = g
      BY <1>6, <2>2, <3>1 DEF MakePTE
    <3>3. CASE h = g
      BY <1>5, <2>2, <3>2, <3>3
    <3>4. CASE h # g
      BY <1>4, <1>5, <2>1, <2>2, <3>1, <3>2, <3>4
    <3> QED BY <3>3, <3>4
  <2>3. CASE ~(q = p /\ w = va)
    <3>1. <<q, w>> # <<p, va>>
      BY <2>3
    <3> QED BY <1>5, <1>6, <2>1, <2>3, <3>1
  <2> QED BY <2>2, <2>3
<1>8. \A h \in Page : Distinct(pv'[h])
  BY <1>1, <1>5 DEF Listed
<1>9. \A h \in Page : \A m, n \in Elems(pv'[h]) : Colour[m[2]] = Colour[n[2]]
  <2> TAKE h \in Page
  <2>1. CASE h = g
    <3>1. \A m \in Elems(pv'[g]) : Colour[m[2]] = Colour[va]
      BY <1>0, <1>5
    <3> QED BY <2>1, <3>1
  <2>2. CASE h # g
    BY <1>1, <1>5, <2>2 DEF Listed
  <2> QED BY <2>1, <2>2
<1>10. Listed(pte', pv')
  BY <1>5, <1>7, <1>8, <1>9 DEF Listed
<1> QED BY <1>10, ListedNext

-----------------------------------------------------------------------------
\* The actions that leave the lists alone and every user PTE on its page.
SamePages ==
    /\ pv' = pv
    /\ \A p \in UserPmap, va \in VA : /\ pte'[p][va].valid = pte[p][va].valid
                                      /\ pte'[p][va].pfn = pte[p][va].pfn

LEMMA SameListed ==
    ASSUME ListsInv, SamePages
    PROVE  ListsInv'
<1>1. \A g : MappingsOf(g)' = MappingsOf(g)
  BY DEF SamePages, MappingsOf
<1> QED BY <1>1 DEF ListsInv, PVListExact, OneCacheIndex, SamePages, VA

LEMMA ProtectKeeps ==
    ASSUME TLBInv, NEW p \in Pmaps, NEW S, NEW prot, Protect(p, S, prot)
    PROVE  SamePages
<1>1. \A e \in PTE : Reprotected(e, prot).valid = e.valid
                     /\ Reprotected(e, prot).pfn = e.pfn
  BY DEF Reprotected, PTE
<1>2. \A q \in UserPmap, w \in VA :
         /\ pte[q][w] \in PTE
         /\ pte'[q][w] \in {pte[q][w], Reprotected(pte[q][w], prot)}
  BY DEF Protect, TLBInv, MMUTypeOK, Pmaps, VA
<1> QED BY <1>1, <1>2 DEF SamePages, Protect

LEMMA ClearModifyKeeps ==
    ASSUME TLBInv, NEW g \in Page, ClearModify(g)
    PROVE  SamePages
<1>1. ASSUME NEW q \in UserPmap, NEW w \in VA
      PROVE  pte'[q][w] \in {pte[q][w], [pte[q][w] EXCEPT !.dirty = FALSE]}
  <2>1. q \in Pmaps /\ w \in VA
    BY DEF Pmaps, VA
  <2>2. CASE pte' = pte
    BY <2>2
  <2>3. CASE pte' = [p \in Pmaps |-> [va \in VA |->
                IF <<p, va>> \in Dirty(g)
                THEN [pte[p][va] EXCEPT !.dirty = FALSE] ELSE pte[p][va]]]
    BY <2>1, <2>3
  <2> QED BY <2>2, <2>3 DEF ClearModify
<1>2. \A q \in UserPmap, w \in VA : pte[q][w] \in PTE
  BY DEF TLBInv, MMUTypeOK, Pmaps, VA
<1> QED BY <1>1, <1>2 DEF SamePages, ClearModify, PTE

LEMMA KernelKeeps ==
    ASSUME TLBInv,
           \/ \E va \in KVA, g \in Page : \E prot : KEnter(va, g, prot)
           \/ \E S : KRemove(S)
    PROVE  SamePages
<1>1. ASSUME NEW va \in KVA, NEW g \in Page, NEW prot, KEnter(va, g, prot)
      PROVE  SamePages
  <2>1. \A q \in UserPmap, w \in VA : pte'[q][w] = pte[q][w]
    BY <1>1 DEF KEnter, TLBInv, MMUTypeOK, Pmaps, VA
  <2> QED BY <1>1, <2>1 DEF SamePages, KEnter
<1>2. ASSUME NEW S, KRemove(S) PROVE SamePages
  <2>1. \A q \in UserPmap, w \in VA : pte'[q][w] = pte[q][w]
    <3> TAKE q \in UserPmap, w \in VA
    <3>1. q \in Pmaps /\ w \in VA /\ q # Kernel
      BY DEF Pmaps, VA
    <3>2. <<q, w>> \notin Valid({Kernel} \X S)
      BY <3>1 DEF Valid
    <3> QED BY <1>2, <3>1, <3>2 DEF KRemove, PTEWithout
  <2> QED BY <1>2, <2>1 DEF SamePages, KRemove
<1> QED BY <1>1, <1>2

LEMMA TLBModKeeps ==
    ASSUME TLBInv, NEW va \in UVA, TLBMod(va)
    PROVE  SamePages
<1>1. \A q \in UserPmap, w \in VA :
         /\ pte[q][w] \in PTE
         /\ pte'[q][w] \in {pte[q][w], [pte[q][w] EXCEPT !.dirty = TRUE]}
  BY DEF TLBMod, TLBInv, MMUTypeOK, Pmaps, VA
<1> QED BY <1>1 DEF SamePages, TLBMod, PTE

-----------------------------------------------------------------------------
\* No write goes unnoticed.

\* An action that makes no user PTE dirty and forgets no page.
NothingDirtied ==
    /\ modified \subseteq modified'
    /\ \A p \in UserPmap, va \in UVA :
          pte'[p][va].dirty => /\ pte[p][va].dirty
                               /\ pte'[p][va].pfn = pte[p][va].pfn

LEMMA StaysNoticed ==
    ASSUME DirtyNoticed, NothingDirtied
    PROVE  DirtyNoticed'
BY DEF DirtyNoticed, NothingDirtied

LEMMA RemovedNoticed ==
    ASSUME TLBInv, NEW R, pte' = PTEWithout(R), modified' = modified
    PROVE  NothingDirtied
<1>1. \A p \in UserPmap, va \in UVA : pte'[p][va] \in {pte[p][va], NoPTE}
  BY Removed DEF TLBInv, Pmaps, VA
<1> QED BY <1>1 DEF NothingDirtied, NoPTE

\* pmap_enter() makes a PTE dirty only for a page it has marked modified.
LEMMA EnterNoticed ==
    ASSUME TLBInv, DirtyNoticed, NEW p \in Pmaps, NEW va \in VA,
           NEW g \in Page, NEW prot, NEW acc, NEW wired, NEW v, NEW R,
           EnterMapping(p, va, g, NewEntry(g, prot, acc), wired, v, R),
           modified' = MarkedModified(g, acc)
    PROVE  DirtyNoticed'
<1> DEFINE n == MakePTE(NewEntry(g, prot, acc), v, wired)
<1>1. modified \subseteq modified'
  BY DEF MarkedModified
<1>2. n.dirty => n.pfn \in modified'
  BY DEF NewEntry, MakePTE
<1>3. pte' = [PTEWithout(R) EXCEPT ![p][va] = n]
  BY DEF EnterMapping
<1> HIDE DEF n
<1>4. PTEWithout(R) \in [Pmaps -> [VA -> PTE]]
  BY Removed DEF TLBInv
<1>5. \A q \in UserPmap, w \in UVA : pte'[q][w] \in {pte[q][w], NoPTE, n}
  BY <1>3, <1>4, Removed DEF TLBInv, Pmaps, VA
<1> QED BY <1>1, <1>2, <1>5 DEF DirtyNoticed, NoPTE

LEMMA ProtectNoticed ==
    ASSUME TLBInv, NEW p \in Pmaps, NEW S, NEW prot, Protect(p, S, prot)
    PROVE  NothingDirtied
<1>1. \A e \in PTE : ~Reprotected(e, prot).dirty
  BY DEF Reprotected, PTE
<1>2. \A q \in UserPmap, w \in UVA :
         /\ pte[q][w] \in PTE
         /\ pte'[q][w] \in {pte[q][w], Reprotected(pte[q][w], prot)}
  BY DEF Protect, TLBInv, MMUTypeOK, Pmaps, VA
<1> QED BY <1>1, <1>2 DEF NothingDirtied, Protect

LEMMA KEnterNoticed ==
    ASSUME TLBInv, NEW va \in KVA, NEW g \in Page, NEW prot,
           KEnter(va, g, prot)
    PROVE  NothingDirtied
<1>1. \A q \in UserPmap, w \in UVA : pte'[q][w] = pte[q][w]
  BY DEF KEnter, TLBInv, MMUTypeOK, Pmaps, VA
<1> QED BY <1>1 DEF NothingDirtied, KEnter

\* pmap_clear_modify() finds every mapping of the page in its list, so none
\* is left dirty when it forgets that the page was modified.
LEMMA ClearModifyNoticed ==
    ASSUME TLBInv, ListsInv, DirtyNoticed, NEW g \in Page, ClearModify(g)
    PROVE  DirtyNoticed'
<1>1. CASE pte' = pte /\ modified' = modified
  BY <1>1 DEF DirtyNoticed
<1>2. CASE /\ modified' = modified \ {g}
           /\ pte' = [p \in Pmaps |-> [va \in VA |->
                IF <<p, va>> \in Dirty(g)
                THEN [pte[p][va] EXCEPT !.dirty = FALSE] ELSE pte[p][va]]]
  <2> SUFFICES ASSUME NEW p \in UserPmap, NEW va \in UVA, pte'[p][va].dirty
               PROVE  pte'[p][va].pfn \in modified'
    BY DEF DirtyNoticed
  <2>1. p \in Pmaps /\ va \in VA /\ pte[p][va] \in PTE
    BY DEF TLBInv, MMUTypeOK, Pmaps, VA
  <2>2. pte'[p][va] = IF <<p, va>> \in Dirty(g)
                      THEN [pte[p][va] EXCEPT !.dirty = FALSE]
                      ELSE pte[p][va]
    BY <1>2, <2>1
  <2>3. <<p, va>> \notin Dirty(g) /\ pte'[p][va] = pte[p][va]
    BY <2>1, <2>2 DEF PTE
  <2>4. pte[p][va].valid
    BY <2>3 DEF TLBInv, UserPTEsValid, NoPTE
  <2>5. pte[p][va].pfn # g
    BY <2>3, <2>4 DEF ListsInv, PVListExact, Dirty
  <2> QED BY <1>2, <2>3, <2>5 DEF DirtyNoticed
<1> QED BY <1>1, <1>2 DEF ClearModify

\* The trap of the first store to a clean page sets both.
LEMMA TLBModNoticed ==
    ASSUME TLBInv, DirtyNoticed, NEW va \in UVA, TLBMod(va)
    PROVE  DirtyNoticed'
<1> DEFINE e == [pte[curpmap][va] EXCEPT !.dirty = TRUE]
<1>1. curpmap \in Pmaps /\ va \in VA /\ pte \in [Pmaps -> [VA -> PTE]]
  BY DEF TLBInv, MMUTypeOK, VA
<1>2. CASE pte' = pte /\ modified' = modified
  BY <1>2 DEF DirtyNoticed
<1>3. CASE /\ pte' = [pte EXCEPT ![curpmap][va] = e]
           /\ modified' = modified \cup {e.pfn}
  <2> HIDE DEF e
  <2>1. \A q \in UserPmap, w \in UVA : pte'[q][w] \in {pte[q][w], e}
    BY <1>1, <1>3 DEF Pmaps, VA
  <2> QED BY <1>3, <2>1 DEF DirtyNoticed
<1> QED BY <1>2, <1>3 DEF TLBMod

\* The second part of WritesNoticed follows from TLBMatchesPTE.
LEMMA TLBNoticed ==
    ASSUME TLBInv, DirtyNoticed
    PROVE  WritesNoticed
<1> SUFFICES ASSUME NEW p \in UserPmap, NEW va \in UVA, Owns(p),
                    tlb[pm_asid[p]][va].dirty
             PROVE  tlb[pm_asid[p]][va].pfn \in modified
  BY DEF WritesNoticed, DirtyNoticed
<1>1. tlb[pm_asid[p]][va] # NoEntry
  BY DEF NoEntry
<1>2. tlb[pm_asid[p]][va] = Hard(pte[p][va])
  BY <1>1 DEF TLBInv, TLBMatchesPTE
<1> QED BY <1>2 DEF Hard, DirtyNoticed

-----------------------------------------------------------------------------
\* The statistics.

\* The user addresses that p maps in the page tables P.
Mapped(P, p) == {va \in UVA : P[p][va].valid}

LEMMA FiniteAddresses ==
    ASSUME NEW S \in SUBSET VA
    PROVE  IsFiniteSet(S) /\ Cardinality(S) \in Nat
BY FS_Subset, FS_CardinalityType

\* As many mappings of p as addresses.
LEMMA OfCount ==
    ASSUME NEW Y \in SUBSET (Pmaps \X VA), NEW p
    PROVE  Cardinality(Of(p, Y)) = Cardinality({va \in VA : <<p, va>> \in Y})
<1> DEFINE X == {va \in VA : <<p, va>> \in Y}
           f == [va \in X |-> <<p, va>>]
<1>1. IsFiniteSet(X)
  BY FiniteAddresses
<1>2. \A m \in Of(p, Y) : m[2] \in X /\ m = <<p, m[2]>>
  BY DEF Of
<1>3. \A va \in X : <<p, va>> \in Of(p, Y)
  BY DEF Of
<1>4. f \in Bijection(X, Of(p, Y))
  <2>1. f \in [X -> Of(p, Y)]
    BY <1>3
  <2>2. \A a, b \in X : f[a] = f[b] => a = b
    OBVIOUS
  <2>3. \A m \in Of(p, Y) : \E a \in X : f[a] = m
    BY <1>2
  <2> HIDE DEF X, f
  <2>4. f \in Injection(X, Of(p, Y))
    BY <2>1, <2>2 DEF Injection, IsInjective
  <2>5. f \in Surjection(X, Of(p, Y))
    BY <2>1, <2>3 DEF Surjection
  <2> QED BY <2>4, <2>5 DEF Bijection
<1> HIDE DEF X, f
<1>5. ExistsBijection(X, Of(p, Y))
  BY <1>4 DEF ExistsBijection
<1>6. Cardinality(Of(p, Y)) = Cardinality(X)
  BY <1>1, <1>5, FS_Bijection
<1> QED BY <1>6 DEF X

\* pmap_remove() takes as much off resident_count as it removes.
LEMMA RemovedCount ==
    ASSUME TLBInv, UserMapsLive, NEW R \in SUBSET (Pmaps \X VA),
           NEW p \in UserPmap
    PROVE  Cardinality(Mapped(PTEWithout(R), p)) =
              Cardinality(Mapped(pte, p)) - Cardinality(Of(p, Valid(R)))
<1> DEFINE X == {va \in VA : <<p, va>> \in Valid(R)}
<1>1. p \in Pmaps /\ UVA \subseteq VA
  BY DEF Pmaps, VA
<1>2. X \subseteq Mapped(pte, p)
  BY DEF Valid, UserMapsLive, Mapped
<1>3. Mapped(PTEWithout(R), p) = Mapped(pte, p) \ X
  BY <1>1 DEF Mapped, PTEWithout, NoPTE
<1>4. Mapped(pte, p) \in SUBSET VA
  BY <1>1 DEF Mapped
<1>5. Valid(R) \in SUBSET (Pmaps \X VA)
  BY DEF Valid
<1>6. Cardinality(Of(p, Valid(R))) = Cardinality(X)
  BY <1>5, OfCount
<1> HIDE DEF X
<1>7. Mapped(pte, p) \cap X = X
  BY <1>2
<1>8. IsFiniteSet(Mapped(pte, p))
  BY <1>4, FiniteAddresses
<1>9. Cardinality(Mapped(pte, p) \ X) =
         Cardinality(Mapped(pte, p)) - Cardinality(Mapped(pte, p) \cap X)
  BY <1>8, FS_Difference
<1> QED BY <1>3, <1>6, <1>7, <1>9

StatsType == pm_stats \in [Pmaps -> [resident: Int, wired: Int]]

LEMMA StatsWithoutType ==
    ASSUME StatsType, NEW R \in SUBSET (Pmaps \X VA)
    PROVE  StatsWithout(R) \in [Pmaps -> [resident: Int, wired: Int]]
<1>1. \A p : /\ Cardinality(Of(p, Valid(R))) \in Nat
             /\ Cardinality(Of(p, Wired(R))) \in Nat
  <2> TAKE p
  <2>1. Valid(R) \in SUBSET (Pmaps \X VA) /\ Wired(R) \in SUBSET (Pmaps \X VA)
    BY DEF Valid, Wired
  <2>2. /\ {va \in VA : <<p, va>> \in Valid(R)} \in SUBSET VA
        /\ {va \in VA : <<p, va>> \in Wired(R)} \in SUBSET VA
    OBVIOUS
  <2> QED BY <2>1, <2>2, OfCount, FiniteAddresses
<1> QED BY <1>1 DEF StatsType, StatsWithout

\* The part of MapsInv about the statistics.
StatsInv == StatsType /\ UserMapsLive /\ ResidentCountExact

LEMMA RemoveCounted ==
    ASSUME TLBInv, StatsInv, NEW R \in SUBSET (Pmaps \X VA),
           RemoveMappings(R), pm_count' = pm_count
    PROVE  StatsInv'
<1>1. StatsType /\ UserMapsLive /\ ResidentCountExact
  BY DEF StatsInv
<1>2. StatsType'
  BY <1>1, StatsWithoutType DEF RemoveMappings, StatsType
<1>3. UserMapsLive'
  <2>1. \A p \in UserPmap, va \in VA : pte'[p][va] \in {pte[p][va], NoPTE}
    BY Removed DEF TLBInv, RemoveMappings, Pmaps
  <2> QED BY <1>1, <2>1 DEF UserMapsLive, Live, NoPTE
<1>4. ASSUME NEW p \in UserPmap, Live(p)'
      PROVE  pm_stats'[p].resident = Cardinality(Mapped(pte', p))
  <2>1. Live(p) /\ p \in Pmaps
    BY <1>4 DEF Live, Pmaps
  <2>2. pm_stats[p].resident = Cardinality(Mapped(pte, p))
    BY <1>1, <2>1 DEF ResidentCountExact, Mapped
  <2>3. pm_stats'[p].resident =
           pm_stats[p].resident - Cardinality(Of(p, Valid(R)))
    BY <2>1 DEF RemoveMappings, StatsWithout
  <2>4. pte' = PTEWithout(R)
    BY DEF RemoveMappings
  <2> QED BY <1>1, <2>2, <2>3, <2>4, RemovedCount
<1>5. ResidentCountExact'
  BY <1>4 DEF ResidentCountExact, Mapped
<1> QED BY <1>2, <1>3, <1>5 DEF StatsInv

LEMMA EnterCounted ==
    ASSUME TLBInv, StatsInv, NEW p \in Pmaps, NEW va \in VA, NEW g,
           NEW e, NEW wired, NEW v, NEW R \in SUBSET (Pmaps \X VA),
           EnterMapping(p, va, g, e, wired, v, R), pm_count' = pm_count,
           p # Kernel => v = TRUE /\ va \in UVA /\ Live(p)
    PROVE  StatsInv'
<1> DEFINE P == PTEWithout(R)
           C == StatsWithout(R)
           n == MakePTE(e, v, wired)
           a == One(wired)
           b == NewResident(p, va, R)
<1>1. StatsType /\ UserMapsLive /\ ResidentCountExact
  BY DEF StatsInv
<1>2. /\ pte' = [P EXCEPT ![p][va] = n]
      /\ pm_stats' = [C EXCEPT ![p].wired = @ + a, ![p].resident = @ + b]
      /\ n.valid = v
  BY DEF EnterMapping, MakePTE
<1>3. a \in Int /\ b = One(~P[p][va].valid) /\ b \in Int
  BY DEF One, NewResident
<1>4. C \in [Pmaps -> [resident: Int, wired: Int]]
  BY <1>1, StatsWithoutType
<1>5. /\ P \in [Pmaps -> [VA -> PTE]]
      /\ \A q \in UserPmap, w \in VA : P[q][w] \in {pte[q][w], NoPTE}
  BY Removed DEF TLBInv, Pmaps
<1>6. ASSUME NEW q \in UserPmap, Live(q)
      PROVE  C[q].resident = Cardinality(Mapped(P, q))
  <2>1. C[q].resident = pm_stats[q].resident - Cardinality(Of(q, Valid(R)))
    BY DEF StatsWithout, Pmaps
  <2>2. pm_stats[q].resident = Cardinality(Mapped(pte, q))
    BY <1>1, <1>6 DEF ResidentCountExact, Mapped
  <2> QED BY <1>1, <2>1, <2>2, RemovedCount
<1> HIDE DEF P, C, n, a, b
<1>7. /\ \A q \in Pmaps \ {p} : pm_stats'[q] = C[q]
      /\ pm_stats'[p].resident = C[p].resident + b
      /\ pm_stats' \in [Pmaps -> [resident: Int, wired: Int]]
  <2>1. C[p] \in [resident: Int, wired: Int]
    BY <1>4
  <2> DEFINE B == [C EXCEPT ![p].wired = @ + a]
  <2>2. /\ B \in [Pmaps -> [resident: Int, wired: Int]]
        /\ B[p].resident = C[p].resident
        /\ \A q \in Pmaps \ {p} : B[q] = C[q]
    BY <1>3, <1>4, <2>1
  <2>3. pm_stats' = [B EXCEPT ![p].resident = @ + b]
    BY <1>2
  <2> HIDE DEF B
  <2> QED BY <1>3, <2>1, <2>2, <2>3
<1>8. \A q \in Pmaps, w \in VA :
         pte'[q][w] = IF q = p /\ w = va THEN n ELSE P[q][w]
  BY <1>2, <1>5
<1>9. UserMapsLive'
  <2> SUFFICES ASSUME NEW q \in UserPmap, NEW w \in VA, pte'[q][w].valid
               PROVE  Live(q)' /\ w \in UVA
    BY DEF UserMapsLive
  <2>1. CASE q = p /\ w = va
    BY <2>1 DEF Live
  <2>2. CASE ~(q = p /\ w = va)
    <3>1. pte'[q][w] \in {pte[q][w], NoPTE}
      BY <1>5, <1>8, <2>2 DEF Pmaps
    <3> QED BY <1>1, <3>1 DEF UserMapsLive, Live, NoPTE
  <2> QED BY <2>1, <2>2
<1>10. ASSUME NEW q \in UserPmap, Live(q)'
       PROVE  pm_stats'[q].resident = Cardinality(Mapped(pte', q))
  <2>1. Live(q) /\ q \in Pmaps /\ UVA \subseteq VA
    BY <1>10 DEF Live, Pmaps, VA
  <2>2. CASE q # p
    <3>1. Mapped(pte', q) = Mapped(P, q)
      BY <1>8, <2>1, <2>2 DEF Mapped
    <3> QED BY <1>6, <1>7, <2>1, <2>2, <3>1
  <2>3. CASE q = p
    <3>1. n.valid /\ va \in UVA
      BY <1>2, <2>3
    <3>2. Mapped(pte', q) = Mapped(P, q) \cup {va}
      BY <1>8, <2>1, <2>3, <3>1 DEF Mapped
    <3>3. Mapped(P, q) \in SUBSET VA
      BY <2>1 DEF Mapped
    <3>4. va \in Mapped(P, q) <=> P[p][va].valid
      BY <2>3, <3>1 DEF Mapped
    <3>5. Cardinality(Mapped(pte', q)) = Cardinality(Mapped(P, q)) + b
      BY <1>3, <3>2, <3>3, <3>4, FiniteAddresses, FS_AddElement DEF One
    <3> QED BY <1>6, <1>7, <2>1, <2>3, <3>5
  <2> QED BY <2>2, <2>3
<1>11. ResidentCountExact'
  BY <1>10 DEF ResidentCountExact, Mapped
<1> QED BY <1>7, <1>9, <1>11 DEF StatsInv, StatsType

LEMMA SameCounted ==
    ASSUME StatsInv, SamePages, pm_stats' = pm_stats, pm_count' = pm_count
    PROVE  StatsInv'
<1>1. ASSUME NEW p \in UserPmap PROVE Mapped(pte', p) = Mapped(pte, p)
  BY DEF SamePages, Mapped, VA
<1>2. ResidentCountExact'
  BY <1>1 DEF StatsInv, ResidentCountExact, Mapped, Live
<1> QED BY <1>2 DEF StatsInv, StatsType, UserMapsLive, SamePages, Live

\* A pmap is created with no mapping and goes with none.
LEMMA CountCounted ==
    ASSUME TLBInv, StatsInv, NEW p \in UserPmap,
           Create(p) \/ Reference(p) \/ Destroy(p)
    PROVE  StatsInv'
<1>1. /\ pte' = pte /\ p \in Pmaps
      /\ pm_count' \in [Pmaps -> Int]
      /\ \A q \in Pmaps \ {p} : pm_count'[q] = pm_count[q]
  BY DEF TLBInv, MMUTypeOK, Create, Reference, Destroy, maps, Pmaps
<1>2. CASE Create(p)
  <2>1. /\ ~Live(p) /\ pm_stats'[p].resident = 0 /\ StatsType'
        /\ \A q \in Pmaps \ {p} : pm_stats'[q] = pm_stats[q]
    BY <1>1, <1>2 DEF StatsInv, StatsType, Create, Live
  <2>2. Mapped(pte, p) = {}
    BY <2>1 DEF StatsInv, UserMapsLive, Mapped, VA
  <2>3. Cardinality(Mapped(pte, p)) = 0
    BY <2>2, FS_EmptySet
  <2>4. ResidentCountExact'
    <3>1. ASSUME NEW q \in UserPmap, Live(q)'
          PROVE  pm_stats'[q].resident = Cardinality(Mapped(pte, q))
      <4>1. CASE q = p
        BY <2>1, <2>3, <4>1
      <4>2. CASE q # p
        BY <1>1, <2>1, <3>1, <4>2
           DEF StatsInv, ResidentCountExact, Mapped, Live, Pmaps
      <4> QED BY <4>1, <4>2
    <3> QED BY <1>1, <3>1 DEF ResidentCountExact, Mapped
  <2>5. UserMapsLive'
    BY <1>1, <2>1 DEF StatsInv, UserMapsLive, Live, Pmaps
  <2> QED BY <2>1, <2>4, <2>5 DEF StatsInv
<1>3. CASE Reference(p) \/ Destroy(p)
  <2>1. pm_stats' = pm_stats /\ Live(p)
    BY <1>3 DEF Reference, Destroy, maps, Live
  <2>2. ~Live(p)' => \A va \in UVA : ~pte[p][va].valid
    BY <1>1, <1>3 DEF Reference, Destroy, Live, TLBInv, MMUTypeOK
  <2>3. ResidentCountExact'
    BY <1>1, <2>1 DEF StatsInv, ResidentCountExact, Live, Pmaps
  <2>4. UserMapsLive'
    BY <1>1, <2>1, <2>2 DEF StatsInv, UserMapsLive, Live, Pmaps
  <2> QED BY <2>1, <2>3, <2>4 DEF StatsInv, StatsType
<1> QED BY <1>2, <1>3

-----------------------------------------------------------------------------
\* Every action preserves MapsInv.

LEMMA Parts == MapsInv <=> /\ KernelTLBMatchesPTE /\ ListsInv
                           /\ StatsInv /\ DirtyNoticed
BY DEF MapsInv, ListsInv, StatsInv, StatsType

LEMMA PartsNext ==
    ASSUME KernelTLBMatchesPTE', ListsInv', StatsInv', DirtyNoticed'
    PROVE  MapsInv'
BY DEF MapsInv, ListsInv, StatsInv, StatsType

LEMMA RemoveMaps ==
    ASSUME TLBInv, MapsInv, NEW R \in SUBSET (Pmaps \X VA), RemoveMappings(R),
           pm_count' = pm_count, modified' = modified
    PROVE  MapsInv'
<1>1. KernelTLBMatchesPTE /\ ListsInv /\ StatsInv /\ DirtyNoticed
  BY Parts
<1>2. pte' = PTEWithout(R) /\ tlb' = TLBWithout(R) /\ pv' = PVWithout(R)
  BY DEF RemoveMappings
<1>3. KernelTLBMatchesPTE'
  BY <1>1, <1>2, RemovedFollows DEF Follows, KernelTLBMatchesPTE
<1>4. ListsInv'
  <2>1. Listed(pte', pv')
    BY <1>1, <1>2, RemovedListed
  <2> QED BY <2>1, ListedNext
<1>5. StatsInv'
  BY <1>1, RemoveCounted
<1>6. DirtyNoticed'
  BY <1>1, <1>2, RemovedNoticed, StaysNoticed
<1> QED BY <1>3, <1>4, <1>5, <1>6, PartsNext

LEMMA RemovalMaps ==
    ASSUME TLBInv, MapsInv,
           \/ \E p \in Pmaps : \E S \in SUBSET VA : Remove(p, S)
           \/ \E g \in Page : PageProtect(g)
    PROVE  MapsInv'
<1>1. ASSUME NEW p \in Pmaps, NEW S \in SUBSET VA, Remove(p, S)
      PROVE  MapsInv'
  <2>1. {p} \X S \in SUBSET (Pmaps \X VA)
    OBVIOUS
  <2> QED BY <1>1, <2>1, RemoveMaps DEF Remove
<1>2. ASSUME NEW g \in Page, PageProtect(g)
      PROVE  MapsInv'
  <2> DEFINE R == {pv[g][i] : i \in Reached(g)}
  <2>1. R \in SUBSET (Pmaps \X VA)
    BY DEF MapsInv, Reached
  <2>2. RemoveMappings(R) /\ pm_count' = pm_count /\ modified' = modified
    BY <1>2 DEF PageProtect
  <2> HIDE DEF R
  <2> QED BY <2>1, <2>2, RemoveMaps
<1> QED BY <1>1, <1>2

\* pmap_enter() for the pmap p, user or kernel.
LEMMA EnterMaps ==
    ASSUME TLBInv, MapsInv, NEW p \in Pmaps, NEW va \in VA, NEW g \in Page,
           NEW prot, NEW acc, NEW wired, NEW v, NEW R \in SUBSET (Pmaps \X VA),
           EnterMapping(p, va, g, NewEntry(g, prot, acc), wired, v, R),
           modified' = MarkedModified(g, acc), pm_count' = pm_count,
           ~EnterSpins(g, va), Conflicts(g, va) \subseteq R,
           p # Kernel => /\ va \in UVA /\ v = TRUE /\ Live(p)
                         /\ Replaced(p, va, g) \subseteq R
    PROVE  MapsInv'
<1>1. KernelTLBMatchesPTE /\ ListsInv /\ StatsInv /\ DirtyNoticed
  BY Parts
<1>2. NewEntry(g, prot, acc) \in Entry /\ NewEntry(g, prot, acc).pfn = g
  BY NewEntryType DEF NewEntry
<1>3. KernelTLBMatchesPTE'
  BY <1>1, <1>2, EnterFollows
<1>4. ListsInv'
  BY <1>1, <1>2, EnteredListed
<1>5. StatsInv'
  BY <1>1, EnterCounted
<1>6. DirtyNoticed'
  BY <1>1, EnterNoticed
<1> QED BY <1>3, <1>4, <1>5, <1>6, PartsNext

LEMMA EnterActionsMap ==
    ASSUME TLBInv, MapsInv, NEW g \in Page, NEW prot, NEW acc, NEW wired,
           \/ \E p \in UserPmap, va \in UVA : Enter(p, va, g, prot, acc, wired)
           \/ \E va \in KVA : EnterKernel(va, g, prot, acc, wired)
    PROVE  MapsInv'
<1>1. ASSUME NEW p \in UserPmap, NEW va \in UVA,
             Enter(p, va, g, prot, acc, wired)
      PROVE  MapsInv'
  <2> DEFINE R == Conflicts(g, va) \cup Replaced(p, va, g)
  <2>1. p \in Pmaps /\ va \in VA /\ Live(p)
    BY <1>1 DEF Enter, Pmaps, VA, Live
  <2>2. R \in SUBSET (Pmaps \X VA)
    BY <2>1 DEF Conflicts, Replaced
  <2>3. /\ EnterMapping(p, va, g, NewEntry(g, prot, acc), wired, TRUE, R)
        /\ modified' = MarkedModified(g, acc) /\ pm_count' = pm_count
        /\ ~EnterSpins(g, va)
    BY <1>1 DEF Enter
  <2>4. Conflicts(g, va) \subseteq R /\ Replaced(p, va, g) \subseteq R
    OBVIOUS
  <2> HIDE DEF R
  <2> QED BY <2>1, <2>2, <2>3, <2>4, EnterMaps
<1>2. ASSUME NEW va \in KVA, EnterKernel(va, g, prot, acc, wired)
      PROVE  MapsInv'
  <2>1. Kernel \in Pmaps /\ va \in VA
        /\ Conflicts(g, va) \in SUBSET (Pmaps \X VA)
    BY DEF Pmaps, VA, Conflicts
  <2>2. /\ EnterMapping(Kernel, va, g, NewEntry(g, prot, acc), wired, FALSE,
                        Conflicts(g, va))
        /\ modified' = MarkedModified(g, acc) /\ pm_count' = pm_count
        /\ ~EnterSpins(g, va)
    BY <1>2 DEF EnterKernel
  <2> QED BY <2>1, <2>2, EnterMaps
<1> QED BY <1>1, <1>2

\* pmap_protect(), pmap_clear_modify() and T_TLB_MOD change bits of the PTEs,
\* pmap_kenter_pa() and pmap_kremove() the kernel's PTEs alone.
LEMMA ChangeMaps ==
    ASSUME TLBInv, MapsInv,
           \/ \E p \in Pmaps : \E S, prot : Protect(p, S, prot)
           \/ \E g \in Page : ClearModify(g)
           \/ \E va \in UVA : TLBMod(va)
           \/ \E va \in KVA, g \in Page : \E prot : KEnter(va, g, prot)
           \/ \E S : KRemove(S)
    PROVE  MapsInv'
<1>1. KernelTLBMatchesPTE /\ ListsInv /\ StatsInv /\ DirtyNoticed
  BY Parts
<1>2. KernelTLBMatchesPTE'
  <2>1. ASSUME NEW S, KRemove(S) PROVE KernelTLBMatchesPTE'
    BY <1>1, <2>1, RemovedFollows DEF KRemove, Follows, KernelTLBMatchesPTE
  <2> QED BY <1>1, <2>1, ProtectFollows, ClearModifyFollows, TLBModFollows,
             KEnterFollows
<1>3. SamePages
  BY ProtectKeeps, ClearModifyKeeps, TLBModKeeps, KernelKeeps
<1>4. pm_stats' = pm_stats /\ pm_count' = pm_count
  BY DEF Protect, ClearModify, TLBMod, KEnter, KRemove
<1>5. ListsInv' /\ StatsInv'
  BY <1>1, <1>3, <1>4, SameListed, SameCounted
<1>6. DirtyNoticed'
  <2>1. ASSUME NEW S, KRemove(S) PROVE DirtyNoticed'
    BY <1>1, <2>1, RemovedNoticed, StaysNoticed DEF KRemove
  <2> QED BY <1>1, <2>1, ProtectNoticed, ClearModifyNoticed, TLBModNoticed,
             KEnterNoticed, StaysNoticed
<1> QED BY <1>2, <1>5, <1>6, PartsNext

\* What leaves the mappings alone.
LEMMA OtherMaps ==
    ASSUME MapsInv, KernelTLBMatchesPTE', UNCHANGED <<pte, pv, pm_stats>>,
           pm_count' = pm_count, modified \subseteq modified'
    PROVE  MapsInv'
<1>1. KernelTLBMatchesPTE /\ ListsInv /\ StatsInv /\ DirtyNoticed
  BY Parts
<1>2. SamePages /\ NothingDirtied
  BY DEF SamePages, NothingDirtied
<1> QED BY <1>1, <1>2, SameListed, SameCounted, StaysNoticed, PartsNext

LEMMA CountMaps ==
    ASSUME TLBInv, MapsInv, NEW p \in UserPmap,
           Create(p) \/ Reference(p) \/ Destroy(p)
    PROVE  MapsInv'
<1>1. KernelTLBMatchesPTE /\ ListsInv /\ StatsInv /\ DirtyNoticed
  BY Parts
<1>2. UNCHANGED <<pte, pv, tlb, modified>>
  BY DEF Create, Reference, Destroy, maps
<1>3. SamePages /\ NothingDirtied /\ KernelTLBMatchesPTE'
  BY <1>1, <1>2 DEF SamePages, NothingDirtied, KernelTLBMatchesPTE
<1> QED BY <1>1, <1>3, SameListed, CountCounted, StaysNoticed, PartsNext

LEMMA MapsInvInit == Init => MapsInv
<1> SUFFICES ASSUME Init PROVE MapsInv
  OBVIOUS
<1>1. /\ pv \in [Page -> Seq(Pmaps \X VA)]
      /\ pm_stats \in [Pmaps -> [resident: Int, wired: Int]]
  BY DEF Init
<1>2. \A p \in Pmaps, va \in VA : ~pte[p][va].valid /\ ~pte[p][va].dirty
  BY DEF Init, NoPTE
<1>3. PVListExact /\ OneCacheIndex
  BY <1>2 DEF Init, PVListExact, OneCacheIndex, MappingsOf, Pmaps, VA
<1>4. UserMapsLive /\ DirtyNoticed
  BY <1>2 DEF UserMapsLive, DirtyNoticed, Pmaps, VA
<1>5. KernelTLBMatchesPTE
  BY KernelTag DEF Init, KernelTLBMatchesPTE
<1>6. ResidentCountExact
  <2>1. \A p \in UserPmap : {va \in UVA : pte[p][va].valid} = {}
    BY <1>2 DEF Pmaps, VA
  <2> QED BY <2>1, FS_EmptySet DEF Init, ResidentCountExact, Pmaps
<1> QED BY <1>1, <1>3, <1>4, <1>5, <1>6 DEF MapsInv

LEMMA MapsInvNext == TLBInv /\ MapsInv /\ [Next]_vars => MapsInv'
<1> SUFFICES ASSUME TLBInv, MapsInv, [Next]_vars PROVE MapsInv'
  OBVIOUS
<1>1. UserPmap \subseteq Pmaps /\ Kernel \in Pmaps
      /\ UVA \subseteq VA /\ KVA \subseteq VA
  BY DEF Pmaps, VA
<1>2. ASSUME UNCHANGED <<pte, pv, pm_stats, pm_count, tlb>>,
             modified \subseteq modified'
      PROVE  MapsInv'
  BY <1>2, OtherMaps DEF MapsInv, KernelTLBMatchesPTE
<1>3. CASE UNCHANGED vars
  BY <1>2, <1>3 DEF vars
<1>4. ASSUME NEW p \in UserPmap, UserOp(p) PROVE MapsInv'
  <2>1. ASSUME NEW va, NEW g, NEW acc,
               \/ EnterNoMemory(p, va, g, acc)
               \/ EnterForever(p, va, g) \/ EnterPanics(p, va, g)
        PROVE  MapsInv'
    BY <1>2, <2>1 DEF EnterNoMemory, EnterForever, EnterPanics, maps,
                      MarkedModified
  <2>2. ASSUME NEW S \in SUBSET UVA, Remove(p, S) PROVE MapsInv'
    BY <1>1, <2>2, RemovalMaps
  <2>3. ASSUME NEW S, NEW prot, Protect(p, S, prot) PROVE MapsInv'
    BY <1>1, <2>3, ChangeMaps
  <2> QED BY <1>4, <2>1, <2>2, <2>3, EnterActionsMap, CountMaps DEF UserOp
<1>5. ASSUME KernelOp PROVE MapsInv'
  <2>1. ASSUME NEW va, NEW g,
               EnterForever(Kernel, va, g) \/ EnterPanics(Kernel, va, g)
        PROVE  MapsInv'
    BY <1>2, <2>1 DEF EnterForever, EnterPanics, maps
  <2>2. ASSUME NEW S, ProtectPanics(S) PROVE MapsInv'
    BY <1>2, <2>2 DEF ProtectPanics, maps
  <2>3. ASSUME NEW S \in SUBSET KVA, Remove(Kernel, S) \/ KRemove(S)
        PROVE  MapsInv'
    BY <1>1, <2>3, RemovalMaps, ChangeMaps
  <2>4. ASSUME NEW S, NEW prot, Protect(Kernel, S, prot) PROVE MapsInv'
    BY <1>1, <2>4, ChangeMaps
  <2>5. ASSUME NEW va \in KVA, NEW g \in Page, NEW prot, KEnter(va, g, prot)
        PROVE  MapsInv'
    BY <2>5, ChangeMaps
  <2> QED BY <1>5, <2>1, <2>2, <2>3, <2>4, <2>5, EnterActionsMap DEF KernelOp
<1>6. ASSUME NEW p \in Pmaps,
             Activate(p) \/ ActivateAlloc(p) \/ ActivateRollover(p)
      PROVE  MapsInv'
  <2>1. CASE Activate(p) \/ ActivateAlloc(p)
    BY <1>2, <2>1 DEF Activate, ActivateAlloc, TakeASID, maps
  <2>2. CASE ActivateRollover(p)
    <3>1. KernelTLBMatchesPTE'
      BY <2>2, TLBFollows DEF MapsInv
    <3> QED BY <2>2, <3>1, OtherMaps DEF ActivateRollover, TakeASID, maps
  <2> QED BY <1>6, <2>1, <2>2
<1>7. ASSUME \/ \E t \in Tag, va \in VA : Evict(t, va)
             \/ \E va \in UVA : UserMiss(va)
             \/ \E va \in KVA : KernelMiss(va)
      PROVE  MapsInv'
  <2>1. KernelTLBMatchesPTE'
    BY <1>7, TLBFollows DEF MapsInv
  <2> QED BY <1>7, <2>1, OtherMaps DEF Evict, UserMiss, KernelMiss, maps
<1> QED BY <1>3, <1>4, <1>5, <1>6, <1>7, RemovalMaps, ChangeMaps DEF Next

\* MapsInv holds in every reachable state.
THEOREM MapsInvariance == Spec => []MapsInv
BY MapsInvInit, MapsInvNext, TLBInvariance, PTL DEF Spec

\* The kernel never uses a translation that its page table does not have any
\* more: pmap_kremove(), pmap_protect() and the removals of pmap.c flush what
\* they have to.
THEOREM KernelTranslationsFollow == Spec => []KernelTLBMatchesPTE
<1>1. MapsInv => KernelTLBMatchesPTE
  BY DEF MapsInv
<1> QED BY <1>1, MapsInvariance, PTL

\* pmap_enter_pv() and pmap_remove_pv() keep in the list of a page each of
\* its user mappings, once.
THEOREM PVListsExact == Spec => []PVListExact
<1>1. MapsInv => PVListExact
  BY DEF MapsInv
<1> QED BY <1>1, MapsInvariance, PTL

\* "each page will only be mapped with one index at any given time", as the
\* comment in pmap_enter_pv() says.
THEOREM OneIndexPerPage == Spec => []OneCacheIndex
<1>1. MapsInv => OneCacheIndex
  BY DEF MapsInv
<1> QED BY <1>1, MapsInvariance, PTL

\* resident_count of a user address space is the number of its mappings,
\* whatever is entered, changed, removed or lost to conflicts.
THEOREM ResidentCountsExact == Spec => []ResidentCountExact
<1>1. MapsInv => ResidentCountExact
  BY DEF MapsInv
<1> QED BY <1>1, MapsInvariance, PTL

\* A page that some LWP can write to without a trap has PV_MODIFIED set:
\* pmap_clear_modify() finds all its dirty mappings in the pv list.
THEOREM NoWriteUnnoticed == Spec => []WritesNoticed
<1>1. TLBInv /\ MapsInv => WritesNoticed
  BY TLBNoticed DEF MapsInv
<1> QED BY <1>1, MapsInvariance, TLBInvariance, PTL

-----------------------------------------------------------------------------
\* The rest of the type invariant.

LEMMA TypeInit == Init => TypeOK
<1> SUFFICES ASSUME Init PROVE TypeOK
  OBVIOUS
<1>1. MMUTypeOK
  BY TLBInvInit DEF TLBInv
<1>2. /\ pm_stats \in [Pmaps -> [resident: Int, wired: Int]]
      /\ pv \in [Page -> Seq(Pmaps \X VA)]
  BY MapsInvInit DEF MapsInv
<1>3. pm_segtab \in [Pmaps -> SUBSET {Segment[va] : va \in UVA}]
  BY DEF Init
<1>4. modified \subseteq Page /\ halted \in {"no", "panic", "loop", "utlbmod"}
  BY DEF Init
<1> QED BY <1>1, <1>2, <1>3, <1>4 DEF TypeOK

\* pmap_enter() marks a page of its own.
LEMMA MarkedPages ==
    ASSUME modified \subseteq Page, NEW g \in Page, NEW acc
    PROVE  MarkedModified(g, acc) \subseteq Page
BY DEF MarkedModified

LEMMA TypeNext ==
    ASSUME TypeOK, TLBInv, TLBInv', MapsInv', [Next]_vars
    PROVE  TypeOK'
<1> DEFINE Segs == {Segment[va] : va \in UVA}
           Rest == /\ pm_segtab' \in [Pmaps -> SUBSET Segs]
                   /\ modified' \subseteq Page
                   /\ halted' \in {"no", "panic", "loop", "utlbmod"}
<1>0. /\ pm_segtab \in [Pmaps -> SUBSET Segs]
      /\ modified \subseteq Page
      /\ halted \in {"no", "panic", "loop", "utlbmod"}
      /\ UserPmap \subseteq Pmaps
  BY DEF TypeOK, Pmaps
<1>1. SUFFICES Rest
  BY <1>1 DEF TypeOK, TLBInv, MapsInv
<1> HIDE DEF Segs
<1>2. ASSUME UNCHANGED <<pm_segtab, modified>>,
             halted' \in {halted, "panic", "loop"}
      PROVE  Rest
  BY <1>0, <1>2
<1>3. CASE UNCHANGED vars
  BY <1>2, <1>3 DEF vars
<1>4. ASSUME NEW p \in UserPmap, UserOp(p) PROVE Rest
  <2>1. ASSUME NEW S, NEW prot, Remove(p, S) \/ Protect(p, S, prot)
        PROVE  Rest
    BY <1>2, <2>1 DEF Remove, RemoveMappings, Protect
  <2>2. ASSUME NEW va \in UVA, NEW g \in Page, NEW prot, NEW acc, NEW wired,
               Enter(p, va, g, prot, acc, wired)
        PROVE  Rest
    <3>1. Segment[va] \in Segs
      BY DEF Segs
    <3> QED BY <1>0, <2>2, <3>1, MarkedPages DEF Enter
  <2>3. ASSUME NEW va \in UVA, NEW g \in Page, NEW acc,
               EnterNoMemory(p, va, g, acc)
        PROVE  Rest
    BY <1>0, <2>3, MarkedPages DEF EnterNoMemory
  <2>4. ASSUME NEW va, NEW g, EnterForever(p, va, g) \/ EnterPanics(p, va, g)
        PROVE  Rest
    BY <1>2, <2>4 DEF EnterForever, EnterPanics
  <2>5. CASE Create(p) \/ Destroy(p)
    BY <1>0, <2>5 DEF Create, Destroy
  <2>6. CASE Reference(p)
    BY <1>2, <2>6 DEF Reference
  <2> QED BY <1>4, <2>1, <2>2, <2>3, <2>4, <2>5, <2>6 DEF UserOp
<1>5. ASSUME KernelOp PROVE Rest
  <2>1. ASSUME NEW S, NEW prot,
               \/ Remove(Kernel, S) \/ KRemove(S) \/ ProtectPanics(S)
               \/ Protect(Kernel, S, prot)
        PROVE  Rest
    BY <1>2, <2>1 DEF Remove, RemoveMappings, KRemove, ProtectPanics, Protect
  <2>2. ASSUME NEW va, NEW g, NEW prot,
               \/ KEnter(va, g, prot) \/ EnterForever(Kernel, va, g)
               \/ EnterPanics(Kernel, va, g)
        PROVE  Rest
    BY <1>2, <2>2 DEF KEnter, EnterForever, EnterPanics
  <2>3. ASSUME NEW va, NEW g \in Page, NEW prot, NEW acc, NEW wired,
               EnterKernel(va, g, prot, acc, wired)
        PROVE  Rest
    BY <1>0, <2>3, MarkedPages DEF EnterKernel
  <2> QED BY <1>5, <2>1, <2>2, <2>3 DEF KernelOp
<1>6. ASSUME NEW p, Activate(p) \/ ActivateAlloc(p) \/ ActivateRollover(p)
      PROVE  Rest
  BY <1>2, <1>6 DEF Activate, ActivateAlloc, ActivateRollover, TakeASID
<1>7. ASSUME NEW t, NEW va, Evict(t, va) \/ UserMiss(va) \/ KernelMiss(va)
      PROVE  Rest
  BY <1>2, <1>7 DEF Evict, UserMiss, KernelMiss
<1>8. ASSUME NEW g, PageProtect(g) \/ ClearModify(g) PROVE Rest
  <2>1. CASE PageProtect(g)
    BY <1>2, <2>1 DEF PageProtect
  <2>2. CASE ClearModify(g)
    BY <1>0, <2>2 DEF ClearModify
  <2> QED BY <1>8, <2>1, <2>2
<1>9. ASSUME NEW va \in UVA, TLBMod(va) PROVE Rest
  <2>1. CASE BadMod(pte[curpmap][va])
    BY <1>0, <1>9, <2>1 DEF TLBMod
  <2>2. CASE ~BadMod(pte[curpmap][va])
    <3> DEFINE e == [pte[curpmap][va] EXCEPT !.dirty = TRUE]
    <3>1. pte[curpmap][va] \in PTE
      BY DEF TypeOK, MMUTypeOK, VA
    <3>2. e.pfn = pte[curpmap][va].pfn /\ e.pfn \in Page
      BY <2>2, <3>1 DEF BadMod, PTE
    <3>3. /\ modified' = modified \cup {e.pfn}
          /\ UNCHANGED <<pm_segtab, halted>>
      BY <1>9, <2>2 DEF TLBMod
    <3> QED BY <1>0, <3>2, <3>3
  <2> QED BY <2>1, <2>2
<1> QED BY <1>3, <1>4, <1>5, <1>6, <1>7, <1>8, <1>9 DEF Next

\* The pmap is consistent in every reachable state: the type invariant, the
\* ASIDs and the TLB, and the mappings.
THEOREM PmapInvariance == Spec => []PmapInv
<1>1. Spec => []TypeOK
  BY TypeInit, TypeNext, TLBInvariance, MapsInvariance, PTL DEF Spec
<1> QED BY <1>1, TLBInvariance, MapsInvariance, PTL DEF PmapInv
=============================================================================
