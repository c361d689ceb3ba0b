--------------------------- MODULE FileDescProofs ---------------------------
(***************************************************************************)
(* Proofs about file descriptors, for any finite sets of LWPs and of       *)
(* descriptors, any set of files and any number of calls: look-ups without *)
(* a lock, closes and dup2 that meet in one slot count every reference,    *)
(* and a closer frees a slot only when the users of its file are gone.     *)
(***************************************************************************)
EXTENDS FileDesc, FiniteSetTheorems, TLAPS

USE FDAssumption

\* One element more or less is counted as one.
LEMMA OneMore ==
    ASSUME NEW S, IsFiniteSet(S), NEW x
    PROVE  /\ Cardinality(S) \in Nat
           /\ x \notin S => Cardinality(S \cup {x}) = Cardinality(S) + 1
           /\ x \in S => /\ Cardinality(S \ {x}) = Cardinality(S) - 1
                         /\ Cardinality(S) > 0
<1>1. Cardinality(S) \in Nat
    BY FS_CardinalityType
<1>2. x \notin S => Cardinality(S \cup {x}) = Cardinality(S) + 1
    BY FS_AddElement
<1>3. x \in S => Cardinality(S \ {x}) = Cardinality(S) - 1
    BY FS_RemoveElement
<1>4. x \in S => Cardinality(S) # 0
    BY FS_EmptySet
<1> QED
    BY <1>1, <1>2, <1>3, <1>4

\* The sets of references are finite.
LEMMA FiniteRefs ==
    /\ \A d \in FD : IsFiniteSet(SlotRefs(d))
    /\ \A f \in File : /\ IsFiniteSet(InSlots(f))
                       /\ IsFiniteSet(Takers(f))
                       /\ IsFiniteSet(Dups(f))
<1>1. \A S \in SUBSET LWP : IsFiniteSet(S)
    BY FS_Subset
<1>2. \A S \in SUBSET FD : IsFiniteSet(S)
    BY FS_Subset
<1>3. ASSUME NEW d \in FD PROVE SlotRefs(d) \in SUBSET LWP
    BY DEF SlotRefs
<1>4. ASSUME NEW f \in File
      PROVE  /\ InSlots(f) \in SUBSET FD
             /\ Takers(f) \in SUBSET LWP
             /\ Dups(f) \in SUBSET LWP
    BY DEF InSlots, Takers, Dups
<1> QED
    BY <1>1, <1>2, <1>3, <1>4

\* An LWP that has a reference to a slot is counted; if it is the only one
\* counted it is alone.
LEMMA Counted ==
    ASSUME DescInv, NEW t \in LWP, pc[t] \in Referring
    PROVE  /\ ff_refcnt[fd[t]] > 0
           /\ ff_refcnt[fd[t]] = 1 =>
                 \A x \in LWP \ {t} : pc[x] \in Referring => fd[x] # fd[t]
<1>1. fd[t] \in FD
    BY DEF DescInv, ControlInv, Referring
<1> DEFINE S == SlotRefs(fd[t])
<1>2. IsFiniteSet(S) /\ t \in S /\ ff_refcnt[fd[t]] = Cardinality(S)
    BY <1>1, FiniteRefs DEF DescInv, SlotsCounted, SlotRefs
<1>3. Cardinality(S) > 0
    BY <1>2, OneMore
<1>4. ASSUME Cardinality(S) = 1, NEW x \in LWP \ {t}, pc[x] \in Referring,
             fd[x] = fd[t]
      PROVE  FALSE
  <2>1. IsFiniteSet(S \ {t}) /\ Cardinality(S \ {t}) = 0
      BY <1>2, <1>4, OneMore, FS_RemoveElement
  <2>2. x \in S \ {t}
      BY <1>4 DEF SlotRefs
  <2> QED
      BY <2>1, <2>2, FS_EmptySet
<1> QED
    BY <1>2, <1>3, <1>4

\* A slot that is not referred to has no users.
LEMMA NotCounted ==
    ASSUME DescInv, NEW x \in LWP, pc[x] = "Using", ff_refcnt[fd[x]] = 0
    PROVE  FALSE
BY Counted DEF Referring

-----------------------------------------------------------------------------
(* What an action does to the counts. *)

\* Nobody takes or drops a reference to a slot.
LEMMA SlotsKept ==
    ASSUME DescInv, ff_refcnt' = ff_refcnt,
           \A d \in FD : SlotRefs(d)' = SlotRefs(d)
    PROVE  SlotsCounted'
BY DEF DescInv, SlotsCounted

\* One LWP drops its reference to a slot.
LEMMA SlotDropped ==
    ASSUME DescInv, NEW t \in LWP, pc[t] \in Referring,
           ff_refcnt' = [ff_refcnt EXCEPT ![fd[t]] = @ - 1],
           \A d \in FD : SlotRefs(d)' = SlotRefs(d) \ {t}
    PROVE  /\ ff_refcnt' \in [FD -> Nat]
           /\ SlotsCounted'
<1> USE DEF DescInv, TypeOK
<1>1. fd[t] \in FD
    BY DEF ControlInv, Referring
<1>2. ff_refcnt[fd[t]] \in Nat /\ ff_refcnt[fd[t]] > 0
    BY <1>1, Counted
<1>3. ff_refcnt' \in [FD -> Nat]
    BY <1>1, <1>2
<1>4. ASSUME NEW d \in FD PROVE ff_refcnt'[d] = Cardinality(SlotRefs(d)')
  <2>1. CASE d = fd[t]
    <3>1. t \in SlotRefs(d) /\ IsFiniteSet(SlotRefs(d))
        BY <2>1, FiniteRefs DEF SlotRefs
    <3>2. Cardinality(SlotRefs(d) \ {t}) = Cardinality(SlotRefs(d)) - 1
        BY <3>1, OneMore
    <3> QED
        BY <1>1, <2>1, <3>2 DEF SlotsCounted
  <2>2. CASE d # fd[t]
    <3>1. SlotRefs(d) \ {t} = SlotRefs(d)
        BY <2>2 DEF SlotRefs
    <3> QED
        BY <1>1, <2>2, <3>1 DEF SlotsCounted
  <2> QED
      BY <2>1, <2>2
<1> QED
    BY <1>3, <1>4 DEF SlotsCounted

\* Nobody takes or drops a reference to a file.
LEMMA FilesKept ==
    ASSUME DescInv, f_count' = f_count,
           \A f \in File : /\ InSlots(f)' = InSlots(f)
                           /\ Takers(f)' = Takers(f)
                           /\ Dups(f)' = Dups(f)
    PROVE  FilesCounted'
BY DEF DescInv, FilesCounted

\* The three kinds of references to a file are numbers that f_count adds up.
LEMMA Sizes ==
    ASSUME DescInv, NEW f \in File
    PROVE  /\ Cardinality(InSlots(f)) \in Nat
           /\ Cardinality(Takers(f)) \in Nat
           /\ Cardinality(Dups(f)) \in Nat
           /\ f_count[f] = Cardinality(InSlots(f)) + Cardinality(Takers(f))
                         + Cardinality(Dups(f))
<1>1. /\ Cardinality(InSlots(f)) \in Nat
      /\ Cardinality(Takers(f)) \in Nat
      /\ Cardinality(Dups(f)) \in Nat
    BY FiniteRefs, FS_CardinalityType
<1> QED
    BY <1>1 DEF DescInv, FilesCounted

\* A file that is in a slot or that an LWP has taken is not free.
LEMMA InUse ==
    ASSUME DescInv, NEW f \in File,
           \/ \E d \in FD : ff_file[d] = f
           \/ \E t \in LWP : pc[t] \in Taken /\ fp[t] = f
    PROVE  f_count[f] > 0
<1>1. InSlots(f) # {} \/ Takers(f) # {}
    BY DEF InSlots, Takers
<1>2. Cardinality(InSlots(f)) # 0 \/ Cardinality(Takers(f)) # 0
    BY <1>1, FiniteRefs, FS_EmptySet
<1> QED
    BY <1>2, Sizes

-----------------------------------------------------------------------------
(* The invariant holds initially, and every step preserves it. *)

LEMMA InitDesc == Init => DescInv
<1> SUFFICES ASSUME Init PROVE DescInv
    OBVIOUS
<1>1. TypeOK
    BY DEF Init, TypeOK, Places
<1>2. ControlInv /\ OwnerInv /\ ClosingInv /\ UsersInv
    BY DEF Init, ControlInv, OwnerInv, ClosingInv, UsersInv, Taken, Owning, Flagged
<1>3. SlotsCounted
  <2>1. \A d \in FD : SlotRefs(d) = {}
      BY DEF Init, SlotRefs, Referring
  <2> QED
      BY <2>1, FS_EmptySet DEF Init, SlotsCounted
<1>4. FilesCounted
  <2>1. \A f \in File : InSlots(f) = {} /\ Takers(f) = {} /\ Dups(f) = {}
      BY DEF Init, InSlots, Takers, Dups, Taken
  <2> QED
      BY <2>1, FS_EmptySet DEF Init, FilesCounted
<1> QED
    BY <1>1, <1>2, <1>3, <1>4 DEF DescInv

\* A system call begins with a descriptor, or dup2 looks for the file that is
\* in its way.
LEMMA GetDesc ==
    ASSUME DescInv, NEW t \in LWP,
           (\E d \in FD : Get(t, d)) \/ Dup2Used(t)
    PROVE  DescInv'
<1> USE DEF DescInv, TypeOK
<1>1. TypeOK'
    BY DEF Get, Call, Goto, Dup2Used, slots, dup, ControlInv, Places
<1>2. ControlInv'
    BY DEF Get, Call, Goto, Dup2Used, slots, dup, ControlInv, Taken
<1>3. OwnerInv' /\ ClosingInv'
    BY DEF Get, Call, Goto, Dup2Used, slots, dup, OwnerInv, ClosingInv, Owning,
           Taken, Flagged
<1>4. UsersInv'
    BY DEF Get, Call, Goto, Dup2Used, slots, dup, UsersInv, Draining
<1>5. SlotsCounted'
  <2>1. \A d \in FD : SlotRefs(d)' = SlotRefs(d)
      BY DEF Get, Call, Goto, Dup2Used, slots, dup, SlotRefs, Referring
  <2> QED
      BY <2>1, SlotsKept DEF Get, Dup2Used, slots
<1>6. FilesCounted'
  <2>1. \A f \in File : /\ InSlots(f)' = InSlots(f) /\ Takers(f)' = Takers(f)
                        /\ Dups(f)' = Dups(f)
      BY DEF Get, Call, Goto, Dup2Used, slots, dup, InSlots, Takers, Dups, Taken
  <2> QED
      BY <2>1, FilesKept DEF Get, Dup2Used
<1> QED
    BY <1>1, <1>2, <1>3, <1>4, <1>5, <1>6

\* The reference to the slot is counted before the file is looked at.
LEMMA GetIncDesc ==
    ASSUME DescInv, NEW t \in LWP, GetInc(t)
    PROVE  DescInv'
<1> USE DEF DescInv, TypeOK
<1>0. fd[t] \in FD
    BY DEF GetInc, ControlInv
<1>1. TypeOK'
    BY <1>0 DEF GetInc, Goto, dup, Places
<1>2. ControlInv'
    BY DEF GetInc, Goto, dup, ControlInv, Taken
<1>3. OwnerInv' /\ ClosingInv'
    BY DEF GetInc, Goto, dup, OwnerInv, ClosingInv, Owning, Taken, Flagged
<1>4. UsersInv'
    BY DEF GetInc, Goto, dup, UsersInv, Draining
<1>5. ASSUME NEW d \in FD PROVE ff_refcnt'[d] = Cardinality(SlotRefs(d)')
  <2>1. CASE d = fd[t]
    <3>1. SlotRefs(d)' = SlotRefs(d) \cup {t} /\ t \notin SlotRefs(d)
        BY <2>1 DEF GetInc, Goto, SlotRefs, Referring
    <3>2. Cardinality(SlotRefs(d) \cup {t}) = Cardinality(SlotRefs(d)) + 1
        BY <3>1, FiniteRefs, OneMore
    <3> QED
        BY <2>1, <3>1, <3>2 DEF GetInc, SlotsCounted
  <2>2. CASE d # fd[t]
    <3>1. SlotRefs(d)' = SlotRefs(d)
        BY <2>2 DEF GetInc, Goto, SlotRefs, Referring
    <3> QED
        BY <2>2, <3>1 DEF GetInc, SlotsCounted
  <2> QED
      BY <2>1, <2>2
<1>6. FilesCounted'
  <2>1. \A f \in File : /\ InSlots(f)' = InSlots(f) /\ Takers(f)' = Takers(f)
                        /\ Dups(f)' = Dups(f)
      BY DEF GetInc, Goto, dup, InSlots, Takers, Dups, Taken
  <2> QED
      BY <2>1, FilesKept DEF GetInc
<1> QED
    BY <1>1, <1>2, <1>3, <1>4, <1>5, <1>6 DEF SlotsCounted

\* An LWP that finds the slot filled has its file for as long as it uses it.
LEMMA GetReadDesc ==
    ASSUME DescInv, NEW t \in LWP, GetRead(t)
    PROVE  DescInv'
<1> USE DEF DescInv, TypeOK
<1>0. fd[t] \in FD
    BY DEF GetRead, ControlInv
<1>1. TypeOK'
    BY <1>0 DEF GetRead, Goto, slots, dup, Places
<1>2. ControlInv'
    BY <1>0 DEF GetRead, Goto, slots, dup, ControlInv, Taken
<1>3. OwnerInv' /\ ClosingInv'
    BY DEF GetRead, Goto, slots, dup, OwnerInv, ClosingInv, Owning, Taken, Flagged
<1>4. UsersInv'
    BY <1>0 DEF GetRead, Goto, slots, dup, UsersInv, OwnerInv, Draining
<1>5. SlotsCounted'
  <2>1. \A d \in FD : SlotRefs(d)' = SlotRefs(d)
      BY DEF GetRead, Goto, slots, dup, SlotRefs, Referring
  <2> QED
      BY <2>1, SlotsKept DEF GetRead, slots
<1>6. FilesCounted'
  <2>1. \A f \in File : /\ InSlots(f)' = InSlots(f) /\ Takers(f)' = Takers(f)
                        /\ Dups(f)' = Dups(f)
      BY DEF GetRead, Goto, slots, dup, InSlots, Takers, Dups, Taken
  <2> QED
      BY <2>1, FilesKept DEF GetRead
<1> QED
    BY <1>1, <1>2, <1>3, <1>4, <1>5, <1>6

\* What an LWP does with a file changes no slot, and dup2's reference to the
\* file is counted.
LEMMA UseDesc ==
    ASSUME DescInv, NEW t \in LWP, Use(t)
    PROVE  DescInv'
<1> USE DEF DescInv, TypeOK
<1>0. /\ pc[t] = "Using" /\ fd[t] \in FD /\ fp[t] \in File /\ held[t] = Null
      /\ UNCHANGED <<fd_used, ff_file, ff_refcnt, closing, ff_lock, fd, fp, u, calls>>
    BY DEF Use, ControlInv, slots
<1>1. /\ pc' = [pc EXCEPT ![t] = pc'[t]] /\ pc'[t] \in {"Put", "Close"}
      /\ \/ UNCHANGED <<f_count, held, new>>
         \/ /\ f_count' = [f_count EXCEPT ![fp[t]] = @ + 1]
            /\ held' = [held EXCEPT ![t] = fp[t]]
            /\ new' = [new EXCEPT ![t] = new'[t]] /\ new'[t] \in FD
    BY DEF Use, Goto, dup
<1>2. TypeOK'
    BY <1>0, <1>1 DEF Places
<1>3. ControlInv'
    BY <1>0, <1>1 DEF ControlInv, Taken
<1>4. OwnerInv' /\ ClosingInv'
    BY <1>0, <1>1 DEF OwnerInv, ClosingInv, Owning, Taken, Flagged
<1>5. UsersInv'
    BY <1>0, <1>1 DEF UsersInv, Draining
<1>6. SlotsCounted'
  <2>1. \A d \in FD : SlotRefs(d)' = SlotRefs(d)
      BY <1>0, <1>1 DEF SlotRefs, Referring
  <2> QED
      BY <1>0, <2>1, SlotsKept
<1>7. \A f \in File : InSlots(f)' = InSlots(f) /\ Takers(f)' = Takers(f)
    BY <1>0, <1>1 DEF InSlots, Takers, Taken
<1>8. CASE UNCHANGED <<f_count, held, new>>
  <2>1. \A f \in File : Dups(f)' = Dups(f)
      BY <1>8 DEF Dups
  <2>2. FilesCounted'
      BY <1>7, <1>8, <2>1, FilesKept
  <2> QED
      BY <1>2, <1>3, <1>4, <1>5, <1>6, <2>2
<1>9. CASE /\ f_count' = [f_count EXCEPT ![fp[t]] = @ + 1]
           /\ held' = [held EXCEPT ![t] = fp[t]]
  <2>1. ASSUME NEW f \in File
        PROVE  f_count'[f] = Cardinality(InSlots(f)') + Cardinality(Takers(f)')
                           + Cardinality(Dups(f)')
    <3>2. CASE f = fp[t]
      <4>1. Dups(f)' = Dups(f) \cup {t} /\ t \notin Dups(f)
          BY <1>0, <1>9, <3>2 DEF Dups
      <4>2. Cardinality(Dups(f)') = Cardinality(Dups(f)) + 1
          BY <4>1, FiniteRefs, OneMore
      <4>3. f_count'[f] = f_count[f] + 1
          BY <1>9, <3>2
      <4> QED
          BY <1>7, <4>2, <4>3, Sizes
    <3>3. CASE f # fp[t]
      <4>1. Dups(f)' = Dups(f)
          BY <1>0, <1>9, <3>3 DEF Dups
      <4>2. f_count'[f] = f_count[f]
          BY <1>0, <1>9, <3>3
      <4> QED
          BY <1>7, <4>1, <4>2, Sizes
    <3> QED
        BY <3>2, <3>3
  <2> QED
      BY <1>2, <1>3, <1>4, <1>5, <1>6, <2>1 DEF FilesCounted
<1> QED
    BY <1>1, <1>8, <1>9

\* fd_putfile() looks at the count, or looks again.
LEMMA PutDesc ==
    ASSUME DescInv, NEW t \in LWP, Put(t) \/ PutCASFails(t)
    PROVE  DescInv'
<1> USE DEF DescInv, TypeOK
<1>0. fd[t] \in FD
    BY DEF Put, PutCASFails, ControlInv
<1>1. TypeOK'
    BY <1>0 DEF Put, PutCASFails, Goto, slots, dup, Places
<1>2. ControlInv'
    BY DEF Put, PutCASFails, Goto, slots, dup, ControlInv, Taken
<1>3. OwnerInv' /\ ClosingInv'
    BY DEF Put, PutCASFails, Goto, slots, dup, OwnerInv, ClosingInv, Owning,
           Taken, Flagged
<1>4. UsersInv'
    BY DEF Put, PutCASFails, Goto, slots, dup, UsersInv, Draining
<1>5. SlotsCounted'
  <2>1. \A d \in FD : SlotRefs(d)' = SlotRefs(d)
      BY DEF Put, PutCASFails, Goto, slots, dup, SlotRefs, Referring
  <2> QED
      BY <2>1, SlotsKept DEF Put, PutCASFails, slots
<1>6. FilesCounted'
  <2>1. \A f \in File : /\ InSlots(f)' = InSlots(f) /\ Takers(f)' = Takers(f)
                        /\ Dups(f)' = Dups(f)
      BY DEF Put, PutCASFails, Goto, slots, dup, InSlots, Takers, Dups, Taken
  <2> QED
      BY <2>1, FilesKept DEF Put, PutCASFails
<1> QED
    BY <1>1, <1>2, <1>3, <1>4, <1>5, <1>6

\* A reference to a slot is given back without a lock.
LEMMA PutCASDesc ==
    ASSUME DescInv, NEW t \in LWP, PutCAS(t)
    PROVE  DescInv'
<1> USE DEF DescInv, TypeOK
<1>0. pc[t] = "PutCAS" /\ fd[t] \in FD
    BY DEF PutCAS, ControlInv
<1>1. Back(t) \in {"Idle", "Dup2"} /\ (Back(t) = "Idle" <=> held[t] = Null)
    BY DEF Back
<1>2. /\ pc' = [pc EXCEPT ![t] = Back(t)] /\ u' = [u EXCEPT ![t] = 0]
      /\ ff_refcnt' = [ff_refcnt EXCEPT ![fd[t]] = @ - 1]
      /\ UNCHANGED <<fd_used, ff_file, closing, ff_lock, f_count, fd, fp, held,
                     new, calls>>
    BY DEF PutCAS, Goto, dup
<1>3. \A d \in FD : SlotRefs(d)' = SlotRefs(d) \ {t}
    BY <1>0, <1>1, <1>2 DEF SlotRefs, Referring
<1>4. ff_refcnt' \in [FD -> Nat] /\ SlotsCounted'
    BY <1>0, <1>2, <1>3, SlotDropped DEF Referring
<1>5. TypeOK'
    BY <1>0, <1>1, <1>2, <1>4 DEF Places
<1>6. ControlInv'
    BY <1>0, <1>1, <1>2 DEF ControlInv, Taken
<1>7. OwnerInv' /\ ClosingInv'
    BY <1>0, <1>1, <1>2 DEF OwnerInv, ClosingInv, Owning, Taken, Flagged
<1>8. UsersInv'
    BY <1>0, <1>1, <1>2 DEF UsersInv, Draining
<1>9. FilesCounted'
  <2>1. \A f \in File : /\ InSlots(f)' = InSlots(f) /\ Takers(f)' = Takers(f)
                        /\ Dups(f)' = Dups(f)
      BY <1>0, <1>1, <1>2 DEF InSlots, Takers, Dups, Taken
  <2> QED
      BY <1>2, <2>1, FilesKept
<1> QED
    BY <1>4, <1>5, <1>6, <1>7, <1>8, <1>9

\* So it is by an LWP that finds the slot empty; the closer is woken.
LEMMA CloseClosingDesc ==
    ASSUME DescInv, NEW t \in LWP, CloseClosing(t)
    PROVE  DescInv'
<1> USE DEF DescInv, TypeOK
<1>0. pc[t] \in {"Close", "Join"} /\ fd[t] \in FD
    BY DEF CloseClosing, ControlInv
<1>1. Back(t) \in {"Idle", "Dup2"} /\ (Back(t) = "Idle" <=> held[t] = Null)
    BY DEF Back
<1>2. /\ ff_refcnt' = [ff_refcnt EXCEPT ![fd[t]] = @ - 1]
      /\ fp' = [fp EXCEPT ![t] = Null]
      /\ UNCHANGED <<fd_used, ff_file, closing, ff_lock, f_count, fd, u, held,
                     new, calls>>
    BY DEF CloseClosing, dup
<1>3. /\ pc' \in [LWP -> Places] /\ pc'[t] = Back(t)
      /\ \A x \in LWP \ {t} :
            \/ pc'[x] = pc[x]
            \/ pc[x] = "CloseSleep" /\ pc'[x] = "CloseCheck"
    BY <1>1 DEF CloseClosing, Woken, Places
<1>4. \A d \in FD : SlotRefs(d)' = SlotRefs(d) \ {t}
    BY <1>0, <1>1, <1>2, <1>3 DEF SlotRefs, Referring
<1>5. ff_refcnt' \in [FD -> Nat] /\ SlotsCounted'
    BY <1>0, <1>2, <1>4, SlotDropped DEF Referring
<1>6. TypeOK'
    BY <1>2, <1>3, <1>5
<1>7. ControlInv'
    BY <1>0, <1>1, <1>2, <1>3 DEF ControlInv, Taken
<1>8. OwnerInv' /\ ClosingInv'
  <2>1. \A x \in LWP : /\ pc'[x] \in Owning <=> pc[x] \in Owning
                       /\ pc'[x] \in Flagged <=> pc[x] \in Flagged
      BY <1>0, <1>1, <1>3 DEF Owning, Taken, Flagged
  <2> QED
      BY <1>2, <2>1 DEF OwnerInv, ClosingInv
<1>9. UsersInv'
    BY <1>0, <1>1, <1>2, <1>3 DEF UsersInv, Draining
<1>10. FilesCounted'
  <2>1. \A f \in File : /\ InSlots(f)' = InSlots(f) /\ Takers(f)' = Takers(f)
                        /\ Dups(f)' = Dups(f)
      BY <1>0, <1>1, <1>2, <1>3 DEF InSlots, Takers, Dups, Taken
  <2> QED
      BY <1>2, <2>1, FilesKept
<1> QED
    BY <1>5, <1>6, <1>7, <1>8, <1>9, <1>10

\* The file goes from the slot to the LWP that closes it, and those that use
\* it with it.
LEMMA CloseTakeDesc ==
    ASSUME DescInv, NEW t \in LWP, CloseTake(t)
    PROVE  DescInv'
<1> USE DEF DescInv, TypeOK
<1> DEFINE g == ff_file[fd[t]]
<1>0. /\ pc[t] \in {"Close", "Join"} /\ fd[t] \in FD /\ g \in File
      /\ ff_file' = [ff_file EXCEPT ![fd[t]] = Null]
      /\ fp' = [fp EXCEPT ![t] = g]
      /\ pc' = [pc EXCEPT ![t] = "CloseDec"]
      /\ ff_lock' = [ff_lock EXCEPT ![fd[t]] = t]
      /\ UNCHANGED <<fd_used, ff_refcnt, closing, f_count, fd, u, held, new, calls>>
    BY DEF CloseTake, Goto, dup, ControlInv
<1> HIDE DEF g
<1>1. TypeOK'
    BY <1>0 DEF Places
<1>2. ControlInv'
    BY <1>0 DEF ControlInv, Taken
<1>3. OwnerInv'
    BY <1>0 DEF OwnerInv, Owning, Taken, g
<1>4. ClosingInv'
    BY <1>0 DEF ClosingInv, Flagged
<1>5. ASSUME NEW x \in LWP, pc'[x] = "Using"
      PROVE  /\ fd'[x] \in fd_used'
             /\ \/ ff_file'[fd'[x]] = fp'[x]
                \/ \E y \in LWP : /\ pc'[y] \in Draining
                                  /\ fd'[y] = fd'[x] /\ fp'[y] = fp'[x]
  <2>1. x # t /\ pc[x] = "Using"
      BY <1>0, <1>5
  <2>2. CASE fd[x] = fd[t]
    <3>1. fp[x] = g
        BY <1>0, <2>1, <2>2 DEF UsersInv, OwnerInv, Draining, Owning, Taken, g
    <3> QED
        BY <1>0, <2>1, <2>2, <3>1 DEF UsersInv, Draining
  <2>3. CASE fd[x] # fd[t]
      BY <1>0, <2>1, <2>3 DEF UsersInv, ControlInv, Draining
  <2> QED
      BY <2>2, <2>3
<1>6. SlotsCounted'
  <2>1. \A d \in FD : SlotRefs(d)' = SlotRefs(d)
      BY <1>0 DEF SlotRefs, Referring
  <2> QED
      BY <1>0, <2>1, SlotsKept
<1>7. ASSUME NEW f \in File
      PROVE  f_count'[f] = Cardinality(InSlots(f)') + Cardinality(Takers(f)')
                         + Cardinality(Dups(f)')
  <2>1. Dups(f)' = Dups(f) /\ f_count'[f] = f_count[f]
      BY <1>0 DEF Dups
  <2>2. CASE f = g
    <3>1. InSlots(f)' = InSlots(f) \ {fd[t]} /\ fd[t] \in InSlots(f)
        BY <1>0, <2>2 DEF InSlots, g
    <3>2. Takers(f)' = Takers(f) \cup {t} /\ t \notin Takers(f)
        BY <1>0, <2>2 DEF Takers, Taken
    <3>3. /\ Cardinality(InSlots(f)') = Cardinality(InSlots(f)) - 1
          /\ Cardinality(Takers(f)') = Cardinality(Takers(f)) + 1
        BY <3>1, <3>2, FiniteRefs, OneMore
    <3> QED
        BY <2>1, <3>3, Sizes
  <2>3. CASE f # g
    <3>1. InSlots(f)' = InSlots(f) /\ Takers(f)' = Takers(f)
        BY <1>0, <2>3 DEF InSlots, Takers, Taken, g
    <3> QED
        BY <2>1, <3>1, Sizes
  <2> QED
      BY <2>2, <2>3
<1> QED
    BY <1>1, <1>2, <1>3, <1>4, <1>5, <1>6, <1>7 DEF UsersInv, FilesCounted

\* The closer drops its own reference to the slot; it is the last, or there are
\* users to wait for.
LEMMA CloseDecDesc ==
    ASSUME DescInv, NEW t \in LWP, CloseDec(t)
    PROVE  DescInv'
<1> USE DEF DescInv, TypeOK
<1>0. /\ pc[t] = "CloseDec" /\ fd[t] \in FD
      /\ ff_refcnt' = [ff_refcnt EXCEPT ![fd[t]] = @ - 1]
      /\ pc' = [pc EXCEPT ![t] = pc'[t]]
      /\ pc'[t] \in {"CloseUnused", "CloseFlag"}
      /\ pc'[t] = "CloseUnused" => ff_refcnt[fd[t]] = 1
      /\ ff_lock' \in [FD -> LWP \cup {Null}]
      /\ UNCHANGED <<fd_used, ff_file, closing, f_count, fd, fp, u, held, new, calls>>
    BY DEF CloseDec, Goto, dup, ControlInv
<1>1. \A d \in FD : SlotRefs(d)' = SlotRefs(d) \ {t}
    BY <1>0 DEF SlotRefs, Referring
<1>2. ff_refcnt' \in [FD -> Nat] /\ SlotsCounted'
    BY <1>0, <1>1, SlotDropped DEF Referring
<1>3. TypeOK'
    BY <1>0, <1>2 DEF Places
<1>4. ControlInv'
    BY <1>0 DEF ControlInv, Taken
<1>5. OwnerInv' /\ ClosingInv'
    BY <1>0 DEF OwnerInv, ClosingInv, Owning, Taken, Flagged
<1>6. UsersInv'
  <2>1. CASE pc'[t] = "CloseFlag"
      BY <1>0, <2>1 DEF UsersInv, Draining
  <2>2. CASE pc'[t] = "CloseUnused"
    <3>1. \A x \in LWP : pc[x] = "Using" => fd[x] # fd[t]
        BY <1>0, <2>2, Counted DEF Referring
    <3> QED
        BY <1>0, <2>2, <3>1 DEF UsersInv, Draining
  <2> QED
      BY <1>0, <2>1, <2>2
<1>7. FilesCounted'
  <2>1. \A f \in File : /\ InSlots(f)' = InSlots(f) /\ Takers(f)' = Takers(f)
                        /\ Dups(f)' = Dups(f)
      BY <1>0 DEF InSlots, Takers, Dups, Taken
  <2> QED
      BY <1>0, <2>1, FilesKept
<1> QED
    BY <1>2, <1>3, <1>4, <1>5, <1>6, <1>7

\* The closer sets FR_CLOSING, waits until there are no references, and takes
\* the flag back.
LEMMA CloseWaitDesc ==
    ASSUME DescInv, NEW t \in LWP, CloseFlag(t) \/ CloseCheck(t) \/ CloseClear(t)
    PROVE  DescInv'
<1> USE DEF DescInv, TypeOK
<1>0. /\ fd[t] \in FD
      /\ pc' = [pc EXCEPT ![t] = pc'[t]]
      /\ ff_lock' \in [FD -> LWP \cup {Null}]
      /\ \/ /\ pc[t] = "CloseFlag" /\ pc'[t] = "CloseCheck"
            /\ closing' = [closing EXCEPT ![fd[t]] = TRUE]
         \/ /\ pc[t] = "CloseCheck" /\ closing' = closing
            /\ \/ pc'[t] = "CloseSleep"
               \/ pc'[t] = "CloseClear" /\ ff_refcnt[fd[t]] = 0
         \/ /\ pc[t] = "CloseClear" /\ pc'[t] = "CloseUnused"
            /\ closing' = [closing EXCEPT ![fd[t]] = FALSE]
      /\ UNCHANGED <<fd_used, ff_file, ff_refcnt, f_count, fd, fp, u, held, new,
                     calls>>
    BY DEF CloseFlag, CloseCheck, CloseClear, Goto, dup, ControlInv
<1>1. TypeOK'
  <2>1. closing' \in [FD -> BOOLEAN]
      BY <1>0
  <2>2. pc'[t] \in Places
      BY <1>0 DEF Places
  <2> QED
      BY <1>0, <2>1, <2>2
<1>2. ControlInv'
    BY <1>0 DEF ControlInv, Taken
<1>3. OwnerInv'
    BY <1>0 DEF OwnerInv, Owning, Taken
<1>4. ClosingInv'
  <2>1. \A x \in LWP \ {t} : pc[x] \in Flagged => fd[x] # fd[t] /\ fd[x] \in FD
      BY <1>0 DEF OwnerInv, ControlInv, Owning, Taken, Flagged
  <2>2. CASE pc[t] = "CloseFlag"
      BY <1>0, <2>1, <2>2 DEF ClosingInv, Flagged
  <2>3. CASE pc[t] = "CloseCheck"
      BY <1>0, <2>1, <2>3 DEF ClosingInv, Flagged
  <2>4. CASE pc[t] = "CloseClear"
      BY <1>0, <2>1, <2>4 DEF ClosingInv, Flagged
  <2> QED
      BY <1>0, <2>2, <2>3, <2>4
<1>5. UsersInv'
  <2>1. CASE pc'[t] \in Draining
      BY <1>0, <2>1 DEF UsersInv, Draining
  <2>2. CASE pc'[t] = "CloseClear"
    <3>1. \A x \in LWP : pc[x] = "Using" => fd[x] # fd[t]
        BY <1>0, <2>2, NotCounted
    <3> QED
        BY <1>0, <2>2, <3>1 DEF UsersInv, Draining
  <2>3. CASE pc[t] = "CloseClear"
      BY <1>0, <2>3 DEF UsersInv, Draining
  <2> QED
      BY <1>0, <2>1, <2>2, <2>3 DEF Draining
<1>6. SlotsCounted'
  <2>1. \A d \in FD : SlotRefs(d)' = SlotRefs(d)
      BY <1>0 DEF SlotRefs, Referring
  <2> QED
      BY <1>0, <2>1, SlotsKept
<1>7. FilesCounted'
  <2>1. \A f \in File : /\ InSlots(f)' = InSlots(f) /\ Takers(f)' = Takers(f)
                        /\ Dups(f)' = Dups(f)
      BY <1>0 DEF InSlots, Takers, Dups, Taken
  <2> QED
      BY <1>0, <2>1, FilesKept
<1> QED
    BY <1>1, <1>2, <1>3, <1>4, <1>5, <1>6, <1>7

\* A slot is freed that is empty and that nobody uses.
LEMMA FreeDesc ==
    ASSUME DescInv, NEW t \in LWP, CloseUnused(t) \/ Abort(t)
    PROVE  DescInv'
<1> USE DEF DescInv, TypeOK
<1>0. /\ pc[t] \in {"CloseUnused", "Affix"} /\ fd[t] \in FD
      /\ fd_used' = fd_used \ {fd[t]}
      /\ pc' = [pc EXCEPT ![t] = pc'[t]]
      /\ fp' = [fp EXCEPT ![t] = fp'[t]]
      /\ \/ pc[t] = "CloseUnused" /\ pc'[t] = "Closef" /\ fp'[t] = fp[t]
         \/ pc[t] = "Affix" /\ pc'[t] = "Idle" /\ fp'[t] = Null /\ held[t] = Null
      /\ UNCHANGED <<ff_file, ff_refcnt, closing, ff_lock, f_count, fd, u, held,
                     new, calls>>
    BY DEF CloseUnused, Abort, Goto, dup, ControlInv
<1>1. TypeOK'
    BY <1>0 DEF Places
<1>2. ControlInv'
    BY <1>0 DEF ControlInv, Taken
<1>3. OwnerInv'
    BY <1>0 DEF OwnerInv, Owning, Taken
<1>4. ClosingInv'
    BY <1>0 DEF ClosingInv, Flagged
<1>5. UsersInv'
  <2>1. \A x \in LWP : pc[x] = "Using" => fd[x] # fd[t]
      BY <1>0 DEF UsersInv, OwnerInv, ControlInv, Draining, Owning, Taken
  <2> QED
      BY <1>0, <2>1 DEF UsersInv, Draining
<1>6. SlotsCounted'
  <2>1. \A d \in FD : SlotRefs(d)' = SlotRefs(d)
      BY <1>0 DEF SlotRefs, Referring
  <2> QED
      BY <1>0, <2>1, SlotsKept
<1>7. FilesCounted'
  <2>1. \A f \in File : /\ InSlots(f)' = InSlots(f) /\ Takers(f)' = Takers(f)
                        /\ Dups(f)' = Dups(f)
      BY <1>0 DEF InSlots, Takers, Dups, Taken
  <2> QED
      BY <1>0, <2>1, FilesKept
<1> QED
    BY <1>1, <1>2, <1>3, <1>4, <1>5, <1>6, <1>7

\* The reference that an LWP took from a slot, or got for itself, is dropped.
LEMMA ClosefDesc ==
    ASSUME DescInv, NEW t \in LWP, Closef(t)
    PROVE  DescInv'
<1> USE DEF DescInv, TypeOK
<1>0. pc[t] = "Closef" /\ fd[t] \in FD /\ fp[t] \in File
    BY DEF Closef, ControlInv, Taken
<1>1. Back(t) \in {"Idle", "Dup2"} /\ (Back(t) = "Idle" <=> held[t] = Null)
    BY DEF Back
<1>2. /\ pc' = [pc EXCEPT ![t] = Back(t)]
      /\ fp' = [fp EXCEPT ![t] = Null]
      /\ f_count' = [f_count EXCEPT ![fp[t]] = @ - 1]
      /\ UNCHANGED <<fd_used, ff_file, ff_refcnt, closing, ff_lock, fd, u, held,
                     new, calls>>
    BY DEF Closef, Goto, slots, dup
<1>3. f_count[fp[t]] \in Nat /\ f_count[fp[t]] > 0
    BY <1>0, InUse DEF Taken
<1>4. TypeOK'
  <2>1. f_count' \in [File -> Nat]
      BY <1>0, <1>2, <1>3
  <2> QED
      BY <1>0, <1>1, <1>2, <2>1 DEF Places
<1>5. ControlInv'
    BY <1>0, <1>1, <1>2 DEF ControlInv, Taken
<1>6. OwnerInv' /\ ClosingInv'
    BY <1>0, <1>1, <1>2 DEF OwnerInv, ClosingInv, Owning, Taken, Flagged
<1>7. UsersInv'
    BY <1>0, <1>1, <1>2 DEF UsersInv, Draining
<1>8. SlotsCounted'
  <2>1. \A d \in FD : SlotRefs(d)' = SlotRefs(d)
      BY <1>0, <1>1, <1>2 DEF SlotRefs, Referring
  <2> QED
      BY <1>2, <2>1, SlotsKept
<1>9. ASSUME NEW f \in File
      PROVE  f_count'[f] = Cardinality(InSlots(f)') + Cardinality(Takers(f)')
                         + Cardinality(Dups(f)')
  <2>1. InSlots(f)' = InSlots(f) /\ Dups(f)' = Dups(f)
      BY <1>2 DEF InSlots, Dups
  <2>2. CASE f = fp[t]
    <3>1. Takers(f)' = Takers(f) \ {t} /\ t \in Takers(f)
        BY <1>0, <1>1, <1>2, <2>2 DEF Takers, Taken
    <3>2. Cardinality(Takers(f)') = Cardinality(Takers(f)) - 1
        BY <3>1, FiniteRefs, OneMore
    <3>3. f_count'[f] = f_count[f] - 1
        BY <1>2, <2>2
    <3> QED
        BY <2>1, <3>2, <3>3, Sizes
  <2>3. CASE f # fp[t]
    <3>1. Takers(f)' = Takers(f)
        BY <1>0, <1>1, <1>2, <2>3 DEF Takers, Taken
    <3>2. f_count'[f] = f_count[f]
        BY <1>0, <1>2, <2>3
    <3> QED
        BY <2>1, <3>1, <3>2, Sizes
  <2> QED
      BY <2>2, <2>3
<1> QED
    BY <1>4, <1>5, <1>6, <1>7, <1>8, <1>9 DEF FilesCounted

\* A slot is allocated that nobody else has.
LEMMA AllocateDesc ==
    ASSUME DescInv, NEW t \in LWP,
           (\E d \in FD : Open(t, d)) \/ Dup2Free(t)
    PROVE  DescInv'
<1> USE DEF DescInv, TypeOK
<1>0. PICK d \in FD :
      /\ pc[t] \in {"Idle", "Dup2"} /\ d \notin fd_used
      /\ fd_used' = fd_used \cup {d}
      /\ fd' = [fd EXCEPT ![t] = d]
      /\ pc' = [pc EXCEPT ![t] = "Affix"]
      /\ fp' = [fp EXCEPT ![t] = fp'[t]] /\ fp'[t] \in File
      /\ held[t] # Null => fp'[t] = held[t]
      /\ calls' \in [LWP -> Nat]
      /\ UNCHANGED <<ff_file, ff_refcnt, closing, ff_lock, f_count, u, held, new>>
  <2>1. CASE Dup2Free(t)
    <3>1. held[t] \in File /\ new[t] \in FD
        BY <2>1 DEF Dup2Free, ControlInv
    <3> QED
        BY <2>1, <3>1 DEF Dup2Free, Goto, dup
  <2>2. CASE \E d \in FD : Open(t, d)
    <3>1. PICK d \in FD : Open(t, d)
        BY <2>2
    <3>2. PICK f \in File : fp' = [fp EXCEPT ![t] = f]
        BY <3>1 DEF Open
    <3>3. held[t] = Null
        BY <3>1 DEF Open, Call, ControlInv
    <3>4. calls' \in [LWP -> Nat]
        BY <3>1 DEF Open, Call
    <3>5. /\ pc[t] = "Idle" /\ d \notin fd_used
          /\ fd_used' = fd_used \cup {d}
          /\ fd' = [fd EXCEPT ![t] = d]
          /\ pc' = [pc EXCEPT ![t] = "Affix"]
        BY <3>1 DEF Open, Call, Goto
    <3>6. UNCHANGED <<ff_file, ff_refcnt, closing, ff_lock, f_count, u, held, new>>
        BY <3>1 DEF Open, dup
    <3> QED
        BY <3>2, <3>3, <3>4, <3>5, <3>6
  <2> QED
      BY <2>1, <2>2
<1>1. TypeOK'
    BY <1>0 DEF Places
<1>2. ControlInv'
    BY <1>0 DEF ControlInv, Taken
<1>3. OwnerInv'
    BY <1>0 DEF OwnerInv, Owning, Taken
<1>4. ClosingInv'
    BY <1>0 DEF ClosingInv, Flagged
<1>5. UsersInv'
    BY <1>0 DEF UsersInv, Draining
<1>6. SlotsCounted'
  <2>1. \A e \in FD : SlotRefs(e)' = SlotRefs(e)
      BY <1>0 DEF SlotRefs, Referring
  <2> QED
      BY <1>0, <2>1, SlotsKept
<1>7. FilesCounted'
  <2>1. \A f \in File : /\ InSlots(f)' = InSlots(f) /\ Takers(f)' = Takers(f)
                        /\ Dups(f)' = Dups(f)
      BY <1>0 DEF InSlots, Takers, Dups, Taken
  <2> QED
      BY <1>0, <2>1, FilesKept
<1> QED
    BY <1>1, <1>2, <1>3, <1>4, <1>5, <1>6, <1>7

\* A file becomes visible in the slot; dup2's reference stays with dup2 until
\* closef().
LEMMA AffixDesc ==
    ASSUME DescInv, NEW t \in LWP, Affix(t)
    PROVE  DescInv'
<1> USE DEF DescInv, TypeOK
<1> DEFINE h == held[t]
<1>0. /\ pc[t] = "Affix" /\ fd[t] \in FD /\ fp[t] \in File
      /\ h # Null => fp[t] = h
      /\ fd[t] \in fd_used /\ ff_file[fd[t]] = Null
      /\ f_count' = [f_count EXCEPT ![fp[t]] = @ + 1]
      /\ ff_file' = [ff_file EXCEPT ![fd[t]] = fp[t]]
      /\ fp' = [fp EXCEPT ![t] = h]
      /\ held' = [held EXCEPT ![t] = Null]
      /\ new' = [new EXCEPT ![t] = Null]
      /\ pc' = [pc EXCEPT ![t] = pc'[t]]
      /\ pc'[t] = IF h = Null THEN "Idle" ELSE "Closef"
      /\ UNCHANGED <<fd_used, ff_refcnt, closing, ff_lock, fd, u, calls>>
    BY DEF Affix, Goto, ControlInv, OwnerInv, Owning, Taken
<1>1. TypeOK'
    BY <1>0 DEF Places
<1>2. ControlInv'
    BY <1>0 DEF ControlInv, Taken
<1>3. OwnerInv'
    BY <1>0 DEF OwnerInv, ControlInv, Owning, Taken
<1>4. ClosingInv'
    BY <1>0 DEF ClosingInv, Flagged
<1>5. UsersInv'
  <2>1. \A x \in LWP : pc[x] = "Using" => fd[x] # fd[t]
      BY <1>0 DEF UsersInv, OwnerInv, ControlInv, Draining, Owning, Taken
  <2> QED
      BY <1>0, <2>1 DEF UsersInv, ControlInv, Draining
<1>6. SlotsCounted'
  <2>1. \A d \in FD : SlotRefs(d)' = SlotRefs(d)
      BY <1>0 DEF SlotRefs, Referring
  <2> QED
      BY <1>0, <2>1, SlotsKept
<1>7. ASSUME NEW f \in File
      PROVE  f_count'[f] = Cardinality(InSlots(f)') + Cardinality(Takers(f)')
                         + Cardinality(Dups(f)')
  <2>1. CASE f # fp[t]
    <3>1. /\ InSlots(f)' = InSlots(f) /\ Takers(f)' = Takers(f)
          /\ Dups(f)' = Dups(f)
        BY <1>0, <2>1 DEF InSlots, Takers, Dups, Taken
    <3>2. f_count'[f] = f_count[f]
        BY <1>0, <2>1
    <3> QED
        BY <3>1, <3>2, Sizes
  <2>2. CASE f = fp[t]
    <3>1. InSlots(f)' = InSlots(f) \cup {fd[t]} /\ fd[t] \notin InSlots(f)
        BY <1>0, <2>2 DEF InSlots
    <3>2. Cardinality(InSlots(f)') = Cardinality(InSlots(f)) + 1
        BY <3>1, FiniteRefs, OneMore
    <3>3. f_count'[f] = f_count[f] + 1
        BY <1>0, <2>2
    <3>4. CASE h = Null
      <4>1. Takers(f)' = Takers(f) /\ Dups(f)' = Dups(f)
          BY <1>0, <3>4 DEF Takers, Dups, Taken
      <4> QED
          BY <3>2, <3>3, <4>1, Sizes
    <3>5. CASE h # Null
      <4>1. Takers(f)' = Takers(f) \cup {t} /\ t \notin Takers(f)
          BY <1>0, <2>2, <3>5 DEF Takers, Taken
      <4>2. Dups(f)' = Dups(f) \ {t} /\ t \in Dups(f)
          BY <1>0, <2>2, <3>5 DEF Dups
      <4>3. /\ Cardinality(Takers(f)') = Cardinality(Takers(f)) + 1
            /\ Cardinality(Dups(f)') = Cardinality(Dups(f)) - 1
          BY <4>1, <4>2, FiniteRefs, OneMore
      <4> QED
          BY <3>2, <3>3, <4>3, Sizes
    <3> QED
        BY <3>4, <3>5
  <2> QED
      BY <2>1, <2>2
<1> QED
    BY <1>1, <1>2, <1>3, <1>4, <1>5, <1>6, <1>7 DEF FilesCounted

\* Another process takes a reference to the file in a slot.
LEMMA GetFile2Desc ==
    ASSUME DescInv, NEW t \in LWP, NEW d \in FD, GetFile2(t, d)
    PROVE  DescInv'
<1> USE DEF DescInv, TypeOK
<1> DEFINE g == ff_file[d]
<1>0. /\ pc[t] = "Idle" /\ held[t] = Null /\ g \in File
      /\ fd' = [fd EXCEPT ![t] = d]
      /\ pc' = [pc EXCEPT ![t] = "Closef"]
      /\ fp' = [fp EXCEPT ![t] = g]
      /\ f_count' = [f_count EXCEPT ![g] = @ + 1]
      /\ calls' \in [LWP -> Nat]
      /\ UNCHANGED <<fd_used, ff_file, ff_refcnt, closing, ff_lock, u, held, new>>
    BY DEF GetFile2, Call, Goto, slots, dup, ControlInv
<1> HIDE DEF g
<1>1. TypeOK'
    BY <1>0 DEF Places
<1>2. ControlInv'
    BY <1>0 DEF ControlInv, Taken
<1>3. OwnerInv' /\ ClosingInv'
    BY <1>0 DEF OwnerInv, ClosingInv, Owning, Taken, Flagged
<1>4. UsersInv'
    BY <1>0 DEF UsersInv, Draining
<1>5. SlotsCounted'
  <2>1. \A e \in FD : SlotRefs(e)' = SlotRefs(e)
      BY <1>0 DEF SlotRefs, Referring
  <2> QED
      BY <1>0, <2>1, SlotsKept
<1>6. ASSUME NEW f \in File
      PROVE  f_count'[f] = Cardinality(InSlots(f)') + Cardinality(Takers(f)')
                         + Cardinality(Dups(f)')
  <2>1. InSlots(f)' = InSlots(f) /\ Dups(f)' = Dups(f)
      BY <1>0 DEF InSlots, Dups
  <2>2. CASE f = g
    <3>1. Takers(f)' = Takers(f) \cup {t} /\ t \notin Takers(f)
        BY <1>0, <2>2 DEF Takers, Taken
    <3>2. Cardinality(Takers(f)') = Cardinality(Takers(f)) + 1
        BY <3>1, FiniteRefs, OneMore
    <3>3. f_count'[f] = f_count[f] + 1
        BY <1>0, <2>2
    <3> QED
        BY <2>1, <3>2, <3>3, Sizes
  <2>3. CASE f # g
    <3>1. Takers(f)' = Takers(f)
        BY <1>0, <2>3 DEF Takers, Taken
    <3>2. f_count'[f] = f_count[f]
        BY <1>0, <2>3
    <3> QED
        BY <2>1, <3>1, <3>2, Sizes
  <2> QED
      BY <2>2, <2>3
<1> QED
    BY <1>1, <1>2, <1>3, <1>4, <1>5, <1>6 DEF FilesCounted

LEMMA NextDesc == DescInv /\ [Next]_vars => DescInv'
<1> SUFFICES ASSUME DescInv, [Next]_vars PROVE DescInv'
    OBVIOUS
<1>1. CASE UNCHANGED vars
    BY <1>1 DEF vars, DescInv, TypeOK, ControlInv, OwnerInv, ClosingInv, UsersInv,
                SlotsCounted, FilesCounted, SlotRefs, InSlots, Takers, Dups
<1>2. ASSUME NEW t \in LWP, Step(t) PROVE DescInv'
    BY <1>2, GetDesc, GetIncDesc, GetReadDesc, UseDesc, PutDesc, PutCASDesc,
       CloseClosingDesc, CloseTakeDesc, CloseDecDesc, CloseWaitDesc, FreeDesc,
       ClosefDesc, AllocateDesc, AffixDesc DEF Step
<1>3. ASSUME NEW t \in LWP, NEW d \in FD, Get(t, d) \/ Open(t, d) \/ GetFile2(t, d)
      PROVE  DescInv'
    BY <1>3, GetDesc, AllocateDesc, GetFile2Desc
<1> QED
    BY <1>1, <1>2, <1>3 DEF Next

-----------------------------------------------------------------------------
(***************************************************************************)
(* fd_getfile(), fd_putfile(), fd_close(), fd_dup2(), fd_getfile2() and    *)
(* the allocation of descriptors keep what DescInv says of the references, *)
(* of who owns an empty slot, of FR_CLOSING and of the users of a file.    *)
(***************************************************************************)
THEOREM DescInvariance == Spec => []DescInv
BY InitDesc, NextDesc, PTL DEF Spec

\* The users of a file keep it, and are gone when its slot is freed.
LEMMA InvSafe == DescInv => DescriptorsSafe
<1> SUFFICES ASSUME DescInv PROVE DescriptorsSafe
    OBVIOUS
<1> USE DEF DescInv, TypeOK
<1>1. ASSUME NEW d \in FD
      PROVE  /\ ff_file[d] # Null => d \in fd_used /\ ~closing[d]
             /\ ~closing[d] => \A t \in LWP : pc[t] = "CloseSleep" => fd[t] # d
    BY DEF OwnerInv, ClosingInv, Owning, Taken, Flagged
<1>2. ASSUME NEW t \in LWP, pc[t] = "Using" PROVE f_count[fp[t]] > 0
  <2>1. fp[t] \in File /\ fd[t] \in FD
      BY <1>2 DEF ControlInv
  <2> QED
      BY <1>2, <2>1, InUse DEF UsersInv, Draining, Taken
<1>3. ASSUME NEW t \in LWP, pc[t] \in {"CloseUnused", "Affix"}
      PROVE  fd[t] \in fd_used /\ ff_file[fd[t]] = Null
    BY <1>3 DEF OwnerInv, Owning, Taken
<1>4. RefInv
    BY <1>1, <1>2, <1>3 DEF RefInv
<1>5. Drained
    BY DEF Drained, UsersInv, OwnerInv, ControlInv, Draining, Owning, Taken
<1> QED
    BY <1>4, <1>5 DEF DescriptorsSafe

(***************************************************************************)
(* ff_refcnt and f_count are exact, an LWP never uses a file that has been *)
(* freed, and fd_close() frees a slot only when those that got the file    *)
(* from it are done: although fd_getfile() and fd_putfile() take no lock.  *)
(***************************************************************************)
THEOREM DescriptorsAreSafe == Spec => []DescriptorsSafe
BY DescInvariance, InvSafe, PTL
=============================================================================
