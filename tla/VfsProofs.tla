----------------------------- MODULE VfsProofs ------------------------------
(***************************************************************************)
(* Proofs about a part of MCVfs: the NFS server's request cache (NF), for  *)
(* any number of nfsds, requests and entries and any sizes of the cache.   *)
(*                                                                         *)
(* The list of entries is a sequence: the first lemmas say what inserting  *)
(* at the tail and removing does to it and to the number of its entries.   *)
(* Then there is a lemma for each step of an nfsd, with one step for each  *)
(* part of the invariant, and the theorems: NFSInv, the inductive          *)
(* invariant, and the property of MCVfs that follows from it.              *)
(*                                                                         *)
(* The argument: an nfsd that is to reuse an entry finds one on the list   *)
(* if there are no more nfsds than the cache may have entries, because     *)
(* those that are not on it are in the hands of other nfsds; and a request *)
(* that an nfsd has taken up is in the cache, in progress or with its      *)
(* reply, until another gets its entry.  Only the first half needs that    *)
(* condition (NF!Enough), which the invariant and the property state.      *)
(***************************************************************************)
EXTENDS MCVfs, Sequences, FiniteSetTheorems, TLAPS

\* Every instance speaks of the same finite sets and cardinalities.
LEMMA NFSSets ==
    ASSUME NEW S
    PROVE  /\ NF!Cardinality(S) = Cardinality(S)
           /\ NF!IsFiniteSet(S) <=> IsFiniteSet(S)
BY DEF NF!Cardinality, NF!IsFiniteSet, Cardinality, IsFiniteSet

-----------------------------------------------------------------------------
(* The list of entries: what TAILQ_INSERT_TAIL and TAILQ_REMOVE do to it *)

\* No entry is on the list twice.
Distinct(s) == \A i, j \in DOMAIN s : s[i] = s[j] => i = j

LEMMA NFSMembers ==
    ASSUME NEW s \in Seq(CacheEntry)
    PROVE  \A e : e \in NF!ToSet(s) <=> \E i \in 1..Len(s) : s[i] = e
BY DEF NF!ToSet

LEMMA NFSAppended ==
    ASSUME NEW s \in Seq(CacheEntry), Distinct(s), NEW e \in CacheEntry,
           e \notin NF!ToSet(s)
    PROVE  /\ Append(s, e) \in Seq(CacheEntry)
           /\ Len(Append(s, e)) = Len(s) + 1
           /\ NF!ToSet(Append(s, e)) = NF!ToSet(s) \cup {e}
           /\ Distinct(Append(s, e))
<1>1. /\ Append(s, e) \in Seq(CacheEntry)
      /\ Len(Append(s, e)) = Len(s) + 1
      /\ \A i \in 1..Len(s) : Append(s, e)[i] = s[i]
      /\ Append(s, e)[Len(s) + 1] = e
    OBVIOUS
<1>2. NF!ToSet(Append(s, e)) = NF!ToSet(s) \cup {e}
    BY <1>1 DEF NF!ToSet
<1>3. Distinct(Append(s, e))
    BY <1>1 DEF Distinct, NF!ToSet
<1> QED
    BY <1>1, <1>2, <1>3

LEMMA NFSBeheaded ==
    ASSUME NEW s \in Seq(CacheEntry), Distinct(s), s # <<>>
    PROVE  /\ Tail(s) \in Seq(CacheEntry)
           /\ Head(s) \in NF!ToSet(s) /\ Head(s) \in CacheEntry
           /\ Len(Tail(s)) = Len(s) - 1
           /\ NF!ToSet(Tail(s)) = NF!ToSet(s) \ {Head(s)}
           /\ Distinct(Tail(s))
<1>1. /\ Tail(s) \in Seq(CacheEntry) /\ Len(s) \in Nat /\ Len(s) > 0
      /\ Len(Tail(s)) = Len(s) - 1 /\ Head(s) = s[1]
      /\ \A i \in 1..(Len(s) - 1) : Tail(s)[i] = s[i + 1]
    OBVIOUS
<1>a. \A e : e \in NF!ToSet(Tail(s)) <=> \E i \in 1..(Len(s) - 1) : Tail(s)[i] = e
  <2>1. \A e : e \in NF!ToSet(Tail(s)) <=> \E i \in 1..Len(Tail(s)) : Tail(s)[i] = e
      BY <1>1, NFSMembers, Zenon
  <2> QED
      BY <1>1, <2>1
<1>b. \A i, j \in 1..Len(s) : s[i] = s[j] => i = j
    BY DEF Distinct
<1>2. ASSUME NEW e, e \in NF!ToSet(Tail(s))
      PROVE  e \in NF!ToSet(s) \ {Head(s)}
  <2>1. PICK i \in 1..(Len(s) - 1) : Tail(s)[i] = e
      BY <1>a, <1>2
  <2>2. i + 1 \in 1..Len(s) /\ s[i + 1] = e /\ 1 \in 1..Len(s) /\ i + 1 # 1
      BY <1>1, <2>1
  <2>3. e # s[1]
      BY <1>b, <2>2
  <2> QED
      BY <1>1, <2>2, <2>3, NFSMembers
<1>3. ASSUME NEW e, e \in NF!ToSet(s), e # Head(s)
      PROVE  e \in NF!ToSet(Tail(s))
  <2>1. PICK i \in 1..Len(s) : s[i] = e
      BY <1>3, NFSMembers
  <2>2. i - 1 \in 1..(Len(s) - 1) /\ Tail(s)[i - 1] = e
      BY <1>1, <1>3, <2>1
  <2> QED
      BY <1>a, <2>2
<1>4. NF!ToSet(Tail(s)) = NF!ToSet(s) \ {Head(s)}
    BY <1>2, <1>3
<1>5. Distinct(Tail(s))
    BY <1>1, <1>b DEF Distinct
<1> QED
    BY <1>1, <1>4, <1>5, NFSMembers

LEMMA NFSRemoved ==
    ASSUME NEW s \in Seq(CacheEntry), Distinct(s), NEW k \in DOMAIN s
    PROVE  /\ NF!RemoveAt(s, k) \in Seq(CacheEntry)
           /\ Len(NF!RemoveAt(s, k)) = Len(s) - 1
           /\ NF!ToSet(NF!RemoveAt(s, k)) = NF!ToSet(s) \ {s[k]}
           /\ Distinct(NF!RemoveAt(s, k))
<1> DEFINE t == NF!RemoveAt(s, k)
<1>1. /\ t \in Seq(CacheEntry) /\ Len(s) \in Nat /\ k \in 1..Len(s)
      /\ Len(t) = Len(s) - 1
      /\ \A i \in 1..(Len(s) - 1) : t[i] = IF i < k THEN s[i] ELSE s[i + 1]
  <2> DEFINE a == SubSeq(s, 1, k - 1)
             b == SubSeq(s, k + 1, Len(s))
  <2>1. Len(s) \in Nat /\ k \in 1..Len(s)
      OBVIOUS
  <2>2. /\ a \in Seq(CacheEntry) /\ Len(a) = k - 1
        /\ \A i \in 1..(k - 1) : a[i] = s[i]
      BY <2>1
  <2>3. /\ b \in Seq(CacheEntry) /\ Len(b) = Len(s) - k
        /\ \A i \in 1..(Len(s) - k) : b[i] = s[k + i]
      BY <2>1
  <2>4. t = a \o b
      BY DEF NF!RemoveAt
  <2> HIDE DEF a, b, t
  <2>5. /\ t \in Seq(CacheEntry) /\ Len(t) = Len(s) - 1
        /\ \A i \in 1..(Len(s) - 1) : t[i] = IF i < k THEN a[i] ELSE b[i - (k - 1)]
    <3>1. /\ a \o b \in Seq(CacheEntry) /\ Len(a \o b) = Len(a) + Len(b)
          /\ \A i \in 1..(Len(a) + Len(b)) :
               (a \o b)[i] = IF i <= Len(a) THEN a[i] ELSE b[i - Len(a)]
      <4>0. a \in Seq(CacheEntry) /\ b \in Seq(CacheEntry)
          BY <2>2, <2>3
      <4>1. a \o b \in Seq(CacheEntry)
          BY <4>0
      <4>2. Len(a \o b) = Len(a) + Len(b)
          BY <4>0
      <4>3. \A i \in 1..(Len(a) + Len(b)) :
               (a \o b)[i] = IF i <= Len(a) THEN a[i] ELSE b[i - Len(a)]
          BY <4>0
      <4> QED
          BY <4>1, <4>2, <4>3
    <3>2. Len(a) + Len(b) = Len(s) - 1
        BY <2>1, <2>2, <2>3
    <3>3. \A i \in 1..(Len(s) - 1) : t[i] = IF i <= k - 1 THEN a[i] ELSE b[i - (k - 1)]
        BY <2>2, <2>4, <3>1, <3>2
    <3>4. \A i \in 1..(Len(s) - 1) : i <= k - 1 <=> i < k
        BY <2>1
    <3> QED
        BY <2>4, <3>1, <3>2, <3>3, <3>4
  <2>6. ASSUME NEW i \in 1..(Len(s) - 1)
        PROVE  t[i] = IF i < k THEN s[i] ELSE s[i + 1]
    <3>1. CASE i < k
        BY <2>1, <2>2, <2>5, <3>1
    <3>2. CASE ~(i < k)
      <4>1. i - (k - 1) \in 1..(Len(s) - k) /\ k + (i - (k - 1)) = i + 1
          BY <2>1, <3>2
      <4> QED
          BY <2>3, <2>5, <3>2, <4>1
    <3> QED
        BY <3>1, <3>2
  <2> QED
      BY <2>1, <2>5, <2>6
<1> HIDE DEF t
<1>a. \A e : e \in NF!ToSet(t) <=> \E i \in 1..(Len(s) - 1) : t[i] = e
  <2>1. \A e : e \in NF!ToSet(t) <=> \E i \in 1..Len(t) : t[i] = e
      BY <1>1, NFSMembers, Zenon
  <2> QED
      BY <1>1, <2>1
<1>b. \A i, j \in 1..Len(s) : s[i] = s[j] => i = j
    BY DEF Distinct
<1>2. ASSUME NEW e, e \in NF!ToSet(t)
      PROVE  e \in NF!ToSet(s) \ {s[k]}
  <2>1. PICK i \in 1..(Len(s) - 1) : t[i] = e
      BY <1>a, <1>2
  <2>2. PICK j \in 1..Len(s) : s[j] = e /\ j # k
      BY <1>1, <2>1
  <2>3. e # s[k]
      BY <1>1, <1>b, <2>2
  <2> QED
      BY <1>1, <2>2, <2>3, NFSMembers
<1>3. ASSUME NEW e, e \in NF!ToSet(s), e # s[k]
      PROVE  e \in NF!ToSet(t)
  <2>1. PICK i \in 1..Len(s) : s[i] = e
      BY <1>3, NFSMembers
  <2>2. CASE i < k
    <3>1. i \in 1..(Len(s) - 1) /\ t[i] = e
        BY <1>1, <2>1, <2>2
    <3> QED
        BY <1>a, <3>1
  <2>3. CASE i > k
    <3>1. i - 1 \in 1..(Len(s) - 1) /\ t[i - 1] = e
        BY <1>1, <2>1, <2>3
    <3> QED
        BY <1>a, <3>1
  <2> QED
      BY <1>1, <1>3, <2>1, <2>2, <2>3
<1>4. NF!ToSet(t) = NF!ToSet(s) \ {s[k]}
    BY <1>2, <1>3
<1>5. Distinct(t)
    BY <1>1, <1>b DEF Distinct
<1> QED
    BY <1>1, <1>4, <1>5 DEF t

\* There are as many entries as places on the list.
LEMMA NFSLength ==
    ASSUME NEW s \in Seq(CacheEntry), Distinct(s)
    PROVE  /\ IsFiniteSet(NF!ToSet(s))
           /\ Cardinality(NF!ToSet(s)) = Len(s)
<1>1. Len(s) \in Nat /\ DOMAIN s = 1..Len(s)
    OBVIOUS
<1>2. s \in Bijection(1..Len(s), NF!ToSet(s))
    BY <1>1 DEF Bijection, Injection, Surjection, IsInjective, NF!ToSet, Distinct
<1>3. IsFiniteSet(1..Len(s)) /\ Cardinality(1..Len(s)) = Len(s)
    BY <1>1, FS_Interval
<1> QED
    BY <1>2, <1>3, FS_Bijection DEF ExistsBijection

\* The size of the cache is a number.
LEMMA NFSSize ==
    ASSUME NF!NFSAssumption, NF!NFSInv
    PROVE  desirednfsrvcache \in Nat
<1>1. IsFiniteSet(CacheEntry) /\ CacheSizes \subseteq 0..Cardinality(CacheEntry)
    BY NFSSets DEF NF!NFSAssumption
<1>2. Cardinality(CacheEntry) \in Nat
    BY <1>1, FS_CardinalityType
<1> QED
    BY <1>1, <1>2 DEF NF!NFSInv, NF!TypeOK

\* Whoever is to take an entry from the list finds one, and leaves one for
\* each of the others, if there are enough for all: the entries that are not
\* on the list are in the hands of other nfsds.
LEMMA NFSHead ==
    ASSUME NF!NFSAssumption, NF!NFSInv, NF!Enough, NEW d \in Nfsd,
           \/ nfs_pc[d] = "Evict"
           \/ nfs_pc[d] = "Lookup" /\ numnfsrvcache >= desirednfsrvcache
    PROVE  /\ nfsrvlruhead # <<>>
           /\ Cardinality(NF!Evicting \cup {d}) <= Len(nfsrvlruhead)
<1> DEFINE I == NF!Inserting
           E == NF!Evicting
<1>1. /\ IsFiniteSet(Nfsd) /\ Cardinality(Nfsd) <= desirednfsrvcache
      /\ desirednfsrvcache \in Nat
    BY NFSSets, NFSSize DEF NF!NFSAssumption, NF!Enough
<1>2. I \in SUBSET Nfsd /\ E \cup {d} \in SUBSET Nfsd /\ E \in SUBSET Nfsd
      /\ (E \cup {d}) \cap I = {}
    BY DEF NF!Inserting, NF!Evicting
<1>3. /\ IsFiniteSet(I) /\ IsFiniteSet(E) /\ IsFiniteSet(E \cup {d})
    BY <1>1, <1>2, FS_Subset
<1>4. /\ Cardinality(I) \in Nat /\ Cardinality(E \cup {d}) \in Nat
      /\ Cardinality(Nfsd) \in Nat
    BY <1>1, <1>3, FS_CardinalityType
<1>5. Cardinality((E \cup {d}) \cup I) = Cardinality(E \cup {d}) + Cardinality(I)
  <2>1. Cardinality((E \cup {d}) \cup I)
           = Cardinality(E \cup {d}) + Cardinality(I) - Cardinality({})
      BY <1>2, <1>3, FS_Union
  <2> QED
      BY <2>1, <1>4, FS_EmptySet
<1>6. Cardinality((E \cup {d}) \cup I) <= Cardinality(Nfsd)
  <2>1. (E \cup {d}) \cup I \in SUBSET Nfsd
      BY <1>2
  <2> QED
      BY <2>1, <1>1, FS_Subset
<1>7. /\ numnfsrvcache = Len(nfsrvlruhead) + Cardinality(I)
      /\ Cardinality(E) <= Len(nfsrvlruhead)
      /\ nfsrvlruhead \in Seq(CacheEntry)
    BY NFSSets DEF NF!NFSInv, NF!TypeOK, NF!CountInv
<1>8. Cardinality(E \cup {d}) <= Len(nfsrvlruhead)
  <2>1. CASE nfs_pc[d] = "Evict"
    <3>1. E \cup {d} = E
        BY <2>1 DEF NF!Evicting
    <3> QED
        BY <3>1, <1>7
  <2>2. CASE numnfsrvcache >= desirednfsrvcache
    <3> HIDE DEF I, E
    <3> QED
        BY <2>2, <1>1, <1>4, <1>5, <1>6, <1>7
  <2> QED
      BY <2>1, <2>2
<1>9. Cardinality(E \cup {d}) # 0
    BY <1>3, FS_EmptySet
<1>10. nfsrvlruhead # <<>>
    BY <1>4, <1>7, <1>8, <1>9
<1> QED
    BY <1>8, <1>10

\* What the steps that change the list do to it.
LEMMA NFSInserted ==
    ASSUME NF!NFSInv, NEW d \in Nfsd, NF!Insert(d)
    PROVE  /\ nfsrvlruhead' \in Seq(CacheEntry) /\ Distinct(nfsrvlruhead')
           /\ NF!Cached' = NF!Cached \cup {rp[d]}
           /\ Len(nfsrvlruhead') = Len(nfsrvlruhead) + 1
<1>1. /\ nfsrvlruhead \in Seq(CacheEntry) /\ Distinct(nfsrvlruhead)
      /\ rp[d] \in CacheEntry /\ rp[d] \notin NF!ToSet(nfsrvlruhead)
    BY DEF NF!NFSInv, NF!TypeOK, NF!HeldInv, NF!ListInv, NF!Cached, Distinct,
        NF!Insert, NF!Holding
<1>2. nfsrvlruhead' = Append(nfsrvlruhead, rp[d])
    BY DEF NF!Insert
<1> QED
    BY <1>1, <1>2, NFSAppended DEF NF!Cached

LEMMA NFSMoved ==
    ASSUME NF!NFSInv, NEW d \in Nfsd, NF!ToTail(d)
    PROVE  /\ nfsrvlruhead' \in Seq(CacheEntry) /\ Distinct(nfsrvlruhead')
           /\ NF!Cached' = NF!Cached
           /\ Len(nfsrvlruhead') = Len(nfsrvlruhead)
<1>1. nfsrvlruhead \in Seq(CacheEntry) /\ Distinct(nfsrvlruhead)
    BY DEF NF!NFSInv, NF!TypeOK, NF!ListInv, Distinct
<1>2. PICK i \in DOMAIN nfsrvlruhead :
         /\ nfsrvlruhead[i] = rp[d]
         /\ nfsrvlruhead' = Append(NF!RemoveAt(nfsrvlruhead, i), rp[d])
    BY DEF NF!ToTail
<1> DEFINE t == NF!RemoveAt(nfsrvlruhead, i)
<1>3. /\ t \in Seq(CacheEntry) /\ Distinct(t) /\ Len(t) = Len(nfsrvlruhead) - 1
      /\ NF!ToSet(t) = NF!ToSet(nfsrvlruhead) \ {rp[d]}
    BY <1>1, <1>2, NFSRemoved
<1>4. rp[d] \in CacheEntry /\ rp[d] \in NF!ToSet(nfsrvlruhead) /\ rp[d] \notin NF!ToSet(t)
      /\ Len(nfsrvlruhead) \in Nat
    BY <1>1, <1>2, <1>3, NFSMembers
<1> HIDE DEF t
<1>5. /\ nfsrvlruhead' \in Seq(CacheEntry) /\ Distinct(nfsrvlruhead')
      /\ Len(nfsrvlruhead') = Len(t) + 1
      /\ NF!ToSet(nfsrvlruhead') = NF!ToSet(t) \cup {rp[d]}
    BY <1>2, <1>3, <1>4, NFSAppended DEF t
<1> QED
    BY <1>3, <1>4, <1>5 DEF NF!Cached

\* The entry that an nfsd takes from the list.
LEMMA NFSEvicted ==
    ASSUME NF!NFSAssumption, NF!NFSInv, NEW d \in Nfsd, NF!Evict(d)
    PROVE  \/ \E e \in CacheEntry : NF!Sleep(d, e, "Evict")
           \/ \E e \in NF!Cached :
                 /\ e \in CacheEntry
                 /\ NF!Lock(d, e, "Duplicate") /\ NF!Fill(d, e)
                 /\ nfsrvlruhead' \in Seq(CacheEntry) /\ Distinct(nfsrvlruhead')
                 /\ NF!Cached' = NF!Cached \ {e}
                 /\ Len(nfsrvlruhead') = Len(nfsrvlruhead) - 1
                 /\ claimed' = claimed \ {rc_req[e]}
                 /\ UNCHANGED <<numnfsrvcache, sends, net, nd, mreq>>
<1>1. nfsrvlruhead \in Seq(CacheEntry) /\ Distinct(nfsrvlruhead)
    BY DEF NF!NFSInv, NF!TypeOK, NF!ListInv, Distinct
<1>2. nfsrvlruhead # <<>>
    BY DEF NF!Evict
<1> DEFINE e == Head(nfsrvlruhead)
<1>3. /\ e \in CacheEntry /\ e \in NF!Cached
      /\ Tail(nfsrvlruhead) \in Seq(CacheEntry) /\ Distinct(Tail(nfsrvlruhead))
      /\ NF!ToSet(Tail(nfsrvlruhead)) = NF!Cached \ {e}
      /\ Len(Tail(nfsrvlruhead)) = Len(nfsrvlruhead) - 1
    BY <1>1, <1>2, NFSBeheaded DEF NF!Cached
<1>4. \/ NF!Sleep(d, e, "Evict")
      \/ /\ NF!Lock(d, e, "Duplicate") /\ NF!Fill(d, e)
         /\ nfsrvlruhead' = Tail(nfsrvlruhead)
         /\ claimed' = claimed \ {rc_req[e]}
         /\ UNCHANGED <<numnfsrvcache, sends, net, nd, mreq>>
    BY DEF NF!Evict, NF!clients
<1>5. nfsrvlruhead' = Tail(nfsrvlruhead) => NF!Cached' = NF!ToSet(Tail(nfsrvlruhead))
    BY DEF NF!Cached
<1> HIDE DEF e
<1> QED
    BY <1>3, <1>4, <1>5

\* What the invariant says of the numbers.
LEMMA NFSShape ==
    ASSUME NF!NFSAssumption, NF!NFSInv
    PROVE  /\ NF!Cached \subseteq CacheEntry
           /\ Len(nfsrvlruhead) \in Nat
           /\ IsFiniteSet(NF!Inserting) /\ IsFiniteSet(NF!Evicting)
           /\ Cardinality(NF!Inserting) \in Nat /\ Cardinality(NF!Evicting) \in Nat
           /\ NF!Inserting # {} => Cardinality(NF!Inserting) > 0
           /\ numnfsrvcache = Len(nfsrvlruhead) + Cardinality(NF!Inserting)
           /\ desirednfsrvcache \in Nat
           /\ NF!Enough => Cardinality(NF!Evicting) <= Len(nfsrvlruhead)
<1>1. nfsrvlruhead \in Seq(CacheEntry)
    BY DEF NF!NFSInv, NF!TypeOK
<1>2. IsFiniteSet(NF!Inserting) /\ IsFiniteSet(NF!Evicting)
  <2>1. NF!Inserting \in SUBSET Nfsd /\ NF!Evicting \in SUBSET Nfsd
      BY DEF NF!Inserting, NF!Evicting
  <2> QED
      BY <2>1, NFSSets, FS_Subset DEF NF!NFSAssumption
<1>3. Cardinality(NF!Inserting) \in Nat /\ Cardinality(NF!Evicting) \in Nat
    BY <1>2, FS_CardinalityType
<1>4. NF!Inserting # {} => Cardinality(NF!Inserting) # 0
    BY <1>2, FS_EmptySet
<1>5. NF!Cached \subseteq CacheEntry
    BY <1>1, NFSMembers DEF NF!Cached
<1> QED
    BY <1>1, <1>2, <1>3, <1>4, <1>5, NFSSets, NFSSize DEF NF!NFSInv, NF!CountInv

\* The types.
LEMMA NFSTypes ==
    ASSUME NF!NFSAssumption, NF!NFSInv, NF!Next
    PROVE  NF!TypeOK'
<1>0. desirednfsrvcache' = desirednfsrvcache
    BY DEF NF!Next
<1>1. ASSUME NEW r \in Request, NF!Send(r)
      PROVE  NF!TypeOK'
    BY <1>0, <1>1 DEF NF!Send, NF!NFSInv, NF!TypeOK, NF!Holding, NF!entries
<1>2. ASSUME NEW r \in Request, NF!Lose(r)
      PROVE  NF!TypeOK'
    BY <1>0, <1>2 DEF NF!Lose, NF!NFSInv, NF!TypeOK, NF!Holding, NF!entries
<1>3. ASSUME NEW d \in Nfsd, NEW r \in Request, NF!Receive(d, r)
      PROVE  NF!TypeOK'
    BY <1>0, <1>3 DEF NF!Receive, NF!NFSInv, NF!TypeOK, NF!Holding, NF!entries
<1>4. ASSUME NEW d \in Nfsd, NF!LookupFound(d)
      PROVE  NF!TypeOK'
  <2>1. PICK e \in CacheEntry :
           \/ NF!Sleep(d, e, "Lookup")
           \/ /\ NF!Lock(d, e, "Found")
              /\ UNCHANGED <<nfsrvlruhead, numnfsrvcache, rc_req, rc_state,
                             rc_reply, sends, net, nd, mreq, claimed>>
      BY <1>0, <1>4, NFSShape DEF NF!LookupFound, NF!Found, NF!clients
  <2>2. CASE NF!Sleep(d, e, "Lookup")
      BY <1>0, <2>2
      DEF NF!NFSInv, NF!TypeOK, NF!Holding, NF!Sleep, NF!entries, NF!clients
  <2>3. CASE /\ NF!Lock(d, e, "Found")
             /\ UNCHANGED <<nfsrvlruhead, numnfsrvcache, rc_req, rc_state,
                            rc_reply, sends, net, nd, mreq, claimed>>
      BY <1>0, <2>3 DEF NF!NFSInv, NF!TypeOK, NF!Holding, NF!Lock
  <2> QED
      BY <2>1, <2>2, <2>3
<1>5. ASSUME NEW d \in Nfsd, NF!LookupNew(d)
      PROVE  NF!TypeOK'
    BY <1>0, <1>5
    DEF NF!LookupNew, NF!Found, NF!Lock, NF!Fill, NF!NFSInv, NF!TypeOK,
        NF!Holding, NF!clients
<1>6. ASSUME NEW d \in Nfsd, NF!Evict(d)
      PROVE  NF!TypeOK'
  <2>1. ASSUME NEW e \in CacheEntry, NF!Sleep(d, e, "Evict")
        PROVE  NF!TypeOK'
      BY <1>0, <2>1
      DEF NF!NFSInv, NF!TypeOK, NF!Holding, NF!Sleep, NF!entries, NF!clients
  <2>2. ASSUME NEW e \in CacheEntry, NF!Lock(d, e, "Duplicate"), NF!Fill(d, e),
               nfsrvlruhead' \in Seq(CacheEntry), claimed' \subseteq claimed,
               UNCHANGED <<numnfsrvcache, sends, net, nd, mreq>>
        PROVE  NF!TypeOK'
      BY <1>0, <2>2 DEF NF!NFSInv, NF!TypeOK, NF!Holding, NF!Lock, NF!Fill
  <2> QED
      BY <1>0, <1>6, <2>1, <2>2, NFSEvicted
<1>7. ASSUME NEW d \in Nfsd, NF!Insert(d)
      PROVE  NF!TypeOK'
  <2>1. nd[d] \in Request
      BY <1>0, <1>7 DEF NF!Insert, NF!NFSInv, NF!HeldInv
  <2> QED
      BY <1>0, <1>7, <2>1, NFSInserted
      DEF NF!Insert, NF!Broadcast, NF!NFSInv, NF!TypeOK, NF!Holding, NF!clients
<1>8. ASSUME NEW d \in Nfsd, NF!InsertDuplicate(d)
      PROVE  NF!TypeOK'
  <2>1. NF!Inserting # {} /\ Cardinality(NF!Inserting) \in Nat
      BY <1>0, <1>8, NFSShape DEF NF!InsertDuplicate, NF!Inserting
  <2>2. numnfsrvcache - 1 \in Nat
      BY <2>1, NFSShape
  <2>3. PICK e \in CacheEntry :
           \/ NF!Sleep(d, e, "Duplicate")
           \/ /\ numnfsrvcache' = numnfsrvcache - 1
              /\ rc_locked' = [rc_locked EXCEPT ![rp[d]] = FALSE, ![e] = TRUE]
              /\ rp' = [rp EXCEPT ![d] = e]
              /\ nfs_pc' = [nfs_pc EXCEPT ![d] = "Found"]
              /\ UNCHANGED <<nfsrvlruhead, rc_req, rc_state, rc_reply, sends,
                             net, nd, cv, mreq, claimed>>
      BY <1>0, <1>8, NFSShape DEF NF!InsertDuplicate, NF!Found, NF!clients
  <2>4. CASE NF!Sleep(d, e, "Duplicate")
      BY <1>0, <2>4
      DEF NF!NFSInv, NF!TypeOK, NF!Holding, NF!Sleep, NF!entries, NF!clients
  <2>5. CASE /\ numnfsrvcache' = numnfsrvcache - 1
             /\ rc_locked' = [rc_locked EXCEPT ![rp[d]] = FALSE, ![e] = TRUE]
             /\ rp' = [rp EXCEPT ![d] = e]
             /\ nfs_pc' = [nfs_pc EXCEPT ![d] = "Found"]
             /\ UNCHANGED <<nfsrvlruhead, rc_req, rc_state, rc_reply, sends,
                            net, nd, cv, mreq, claimed>>
      BY <1>0, <2>2, <2>5 DEF NF!NFSInv, NF!TypeOK, NF!Holding
  <2> QED
      BY <2>3, <2>4, <2>5
<1>9. ASSUME NEW d \in Nfsd, NF!ToTail(d)
      PROVE  NF!TypeOK'
    BY <1>0, <1>9, NFSMoved
    DEF NF!ToTail, NF!NFSInv, NF!TypeOK, NF!Holding, NF!clients
<1>10. ASSUME NEW d \in Nfsd, NF!Answer(d)
       PROVE  NF!TypeOK'
  <2>0. nd[d] \in Request /\ rp[d] \in CacheEntry
      BY <1>0, <1>10 DEF NF!Answer, NF!NFSInv, NF!HeldInv, NF!Holding
  <2>1. claimed' \subseteq Request
      BY <1>0, <1>10, <2>0 DEF NF!Answer, NF!NFSInv, NF!TypeOK
  <2>2. nfs_pc' \in [Nfsd -> NF!Holding \cup {"Idle", "Lookup", "Evict", "Do", "Update",
                                             "Reply", "Drop", "Fault"}]
      BY <1>0, <1>10 DEF NF!Answer, NF!NFSInv, NF!TypeOK, NF!Holding
  <2>3. /\ rc_state' \in [CacheEntry -> {"UNUSED", "INPROG", "DONE"}]
        /\ mreq' \in [Nfsd -> Request \cup {None}]
    <3>1. rc_reply[rp[d]] \in Request \cup {None}
        BY <2>0 DEF NF!NFSInv, NF!TypeOK
    <3> QED
        BY <1>0, <1>10, <3>1 DEF NF!Answer, NF!NFSInv, NF!TypeOK
  <2> QED
      BY <1>0, <1>10, <2>1, <2>2, <2>3 DEF NF!Answer, NF!NFSInv, NF!TypeOK, NF!clients
<1>11. ASSUME NEW d \in Nfsd, NEW from \in {"UnlockDrop", "UnlockReply", "UnlockDo"},
              NEW to \in {"Drop", "Reply", "Do"}, NF!Unlock(d, from, to)
       PROVE  NF!TypeOK'
    BY <1>0, <1>11
    DEF NF!Unlock, NF!Broadcast, NF!NFSInv, NF!TypeOK, NF!Holding,
        NF!clients
<1>12. ASSUME NEW d \in Nfsd, NF!Do(d)
       PROVE  NF!TypeOK'
    BY <1>0, <1>12
    DEF NF!Do, NF!NFSInv, NF!TypeOK, NF!Holding, NF!entries, NF!clients
<1>13. ASSUME NEW d \in Nfsd, NF!UpdateFound(d)
       PROVE  NF!TypeOK'
  <2>1. PICK e \in CacheEntry :
           \/ NF!Sleep(d, e, "Update")
           \/ /\ NF!Lock(d, e, "Save")
              /\ UNCHANGED <<nfsrvlruhead, numnfsrvcache, rc_req, rc_state,
                             rc_reply, sends, net, nd, mreq, claimed>>
      BY <1>0, <1>13, NFSShape DEF NF!UpdateFound, NF!Found, NF!clients
  <2>2. CASE NF!Sleep(d, e, "Update")
      BY <1>0, <2>2
      DEF NF!NFSInv, NF!TypeOK, NF!Holding, NF!Sleep, NF!entries, NF!clients
  <2>3. CASE /\ NF!Lock(d, e, "Save")
             /\ UNCHANGED <<nfsrvlruhead, numnfsrvcache, rc_req, rc_state,
                            rc_reply, sends, net, nd, mreq, claimed>>
      BY <1>0, <2>3 DEF NF!NFSInv, NF!TypeOK, NF!Holding, NF!Lock
  <2> QED
      BY <2>1, <2>2, <2>3
<1>14. ASSUME NEW d \in Nfsd, NF!UpdateNone(d)
       PROVE  NF!TypeOK'
    BY <1>0, <1>14
    DEF NF!UpdateNone, NF!NFSInv, NF!TypeOK, NF!Holding, NF!entries,
        NF!clients
<1>15. ASSUME NEW d \in Nfsd, NF!Save(d)
       PROVE  NF!TypeOK'
    BY <1>0, <1>15 DEF NF!Save, NF!NFSInv, NF!TypeOK, NF!Holding, NF!clients
<1>16. ASSUME NEW d \in Nfsd, NF!Reply(d)
       PROVE  NF!TypeOK'
    BY <1>0, <1>16
    DEF NF!Reply, NF!NFSInv, NF!TypeOK, NF!Holding, NF!entries, NF!clients
<1>17. ASSUME NF!CleanCache
       PROVE  NF!TypeOK'
  <2>1. numnfsrvcache' \in Nat /\ nfsrvlruhead' \in Seq(CacheEntry)
      BY <1>0, <1>17, NFSShape DEF NF!CleanCache
  <2> QED
      BY <1>0, <1>17, <2>1 DEF NF!CleanCache, NF!NFSInv, NF!TypeOK, NF!clients
<1>18. ASSUME NEW d \in Nfsd, NF!Look(d)
       PROVE  NF!TypeOK'
    BY <1>0, <1>18
    DEF NF!Look, NF!NFSInv, NF!TypeOK, NF!Holding, NF!entries, NF!clients
<1>19. ASSUME NEW d \in Nfsd, NF!EvictNull(d)
       PROVE  NF!TypeOK'
    BY <1>0, <1>19
    DEF NF!EvictNull, NF!NFSInv, NF!TypeOK, NF!Holding, NF!entries, NF!clients
<1> QED
    BY <1>1, <1>2, <1>3, <1>4, <1>5, <1>6, <1>7, <1>8, <1>9, <1>10, <1>11,
        <1>12, <1>13, <1>14, <1>15, <1>16, <1>17, <1>18, <1>19 DEF NF!Next, NF!Step

\* One nfsd more or less, to insert or to evict an entry.
LEMMA NFSCounts ==
    ASSUME NF!NFSAssumption, NF!NFSInv, NEW d \in Nfsd
    PROVE  /\ d \notin NF!Inserting =>
                 Cardinality(NF!Inserting \cup {d}) = Cardinality(NF!Inserting) + 1
           /\ d \in NF!Inserting =>
                 Cardinality(NF!Inserting \ {d}) = Cardinality(NF!Inserting) - 1
           /\ d \in NF!Evicting =>
                 Cardinality(NF!Evicting \ {d}) = Cardinality(NF!Evicting) - 1
           /\ d \notin NF!Evicting =>
                 Cardinality(NF!Evicting \cup {d}) = Cardinality(NF!Evicting) + 1
           /\ d \notin NF!Evicting => NF!Evicting \ {d} = NF!Evicting
<1>1. IsFiniteSet(NF!Inserting) /\ IsFiniteSet(NF!Evicting)
    BY NFSShape
<1>2. /\ Cardinality(NF!Inserting \cup {d}) =
            IF d \in NF!Inserting THEN Cardinality(NF!Inserting)
            ELSE Cardinality(NF!Inserting) + 1
      /\ Cardinality(NF!Evicting \cup {d}) =
            IF d \in NF!Evicting THEN Cardinality(NF!Evicting)
            ELSE Cardinality(NF!Evicting) + 1
    BY <1>1, FS_AddElement, Zenon
<1>3. /\ Cardinality(NF!Inserting \ {d}) =
            IF d \in NF!Inserting THEN Cardinality(NF!Inserting) - 1
            ELSE Cardinality(NF!Inserting)
      /\ Cardinality(NF!Evicting \ {d}) =
            IF d \in NF!Evicting THEN Cardinality(NF!Evicting) - 1
            ELSE Cardinality(NF!Evicting)
    BY <1>1, FS_RemoveElement, Zenon
<1> QED
    BY <1>2, <1>3

\* The locks: nobody takes or drops one, or one that is free is taken.
LEMMA NFSLocksKept ==
    ASSUME NF!LockInv, rc_locked' = rc_locked,
           \A x \in Nfsd : nfs_pc'[x] \in NF!Holding <=> nfs_pc[x] \in NF!Holding,
           \A x \in Nfsd : nfs_pc[x] \in NF!Holding => rp'[x] = rp[x]
    PROVE  NF!LockInv'
BY DEF NF!LockInv, NF!Holding

LEMMA NFSLockTaken ==
    ASSUME NF!NFSInv, NEW d \in Nfsd, NEW e \in CacheEntry, NEW to \in NF!Holding,
           nfs_pc[d] \notin NF!Holding, NF!Lock(d, e, to)
    PROVE  NF!LockInv'
<1>1. /\ rc_locked' = [rc_locked EXCEPT ![e] = TRUE] /\ ~rc_locked[e]
      /\ rp' = [rp EXCEPT ![d] = e] /\ nfs_pc' = [nfs_pc EXCEPT ![d] = to]
      /\ rc_locked \in [CacheEntry -> BOOLEAN]
      /\ DOMAIN nfs_pc = Nfsd /\ DOMAIN rp = Nfsd
    BY DEF NF!Lock, NF!NFSInv, NF!TypeOK
<1>2. \A x \in Nfsd : nfs_pc[x] \in NF!Holding => rp[x] # e /\ x # d
    BY <1>1 DEF NF!NFSInv, NF!HeldInv
<1>3. \A x \in Nfsd : IF x = d THEN nfs_pc'[x] = to /\ rp'[x] = e
                      ELSE nfs_pc'[x] = nfs_pc[x] /\ rp'[x] = rp[x]
    BY <1>1
<1>4. \A x, y \in Nfsd : nfs_pc'[x] \in NF!Holding /\ nfs_pc'[y] \in NF!Holding
                         /\ rp'[x] = rp'[y] => x = y
    BY <1>2, <1>3 DEF NF!NFSInv, NF!LockInv
<1>5. ASSUME NEW f \in CacheEntry, rc_locked'[f]
      PROVE  \E x \in Nfsd : nfs_pc'[x] \in NF!Holding /\ rp'[x] = f
  <2>1. CASE f = e
      BY <2>1, <1>3
  <2>2. CASE f # e
    <3>1. PICK x \in Nfsd : nfs_pc[x] \in NF!Holding /\ rp[x] = f
        BY <2>2, <1>1, <1>5 DEF NF!NFSInv, NF!LockInv
    <3> QED
        BY <3>1, <1>2, <1>3
  <2> QED
      BY <2>1, <2>2
<1> QED
    BY <1>4, <1>5 DEF NF!LockInv, NF!Holding

\* The entry of one that holds an entry is nobody else's.
LEMMA NFSSole ==
    ASSUME NF!NFSInv, NEW d \in Nfsd, nfs_pc[d] \in NF!Holding
    PROVE  /\ rp[d] \in CacheEntry
           /\ \A x \in Nfsd : x # d /\ nfs_pc[x] \in NF!Holding => rp[x] # rp[d]
BY DEF NF!NFSInv, NF!HeldInv, NF!LockInv

\* The invariant without the types.
NFSParts == /\ NF!HeldInv /\ NF!LockInv /\ NF!ListInv
            /\ NF!ReplyInv /\ NF!CountInv /\ NF!ClaimInv

\* The steps that leave the entries and the nfsds where they are.
LEMMA NFSQuiet ==
    ASSUME NF!NFSAssumption, NF!NFSInv, NF!TypeOK',
           desirednfsrvcache' = desirednfsrvcache,
           UNCHANGED <<nfsrvlruhead, numnfsrvcache, rc_req, rc_state, rc_reply,
                       rc_locked, nfs_pc, nd, rp, mreq, claimed>>
    PROVE  NFSParts'
<1>1. NF!Cached' = NF!Cached
    BY NFSShape DEF NF!Cached
<1>2. NF!Inserting' = NF!Inserting /\ NF!Evicting' = NF!Evicting
    BY NFSShape DEF NF!NFSInv, NF!TypeOK, NF!Inserting, NF!Evicting
<1>3. NF!HeldInv'
    BY <1>1, NFSShape DEF NF!NFSInv, NF!TypeOK, NF!HeldInv, NF!Holding
<1>8. NF!LockInv'
    BY NFSShape DEF NF!NFSInv, NF!TypeOK, NF!HeldInv, NF!LockInv, NF!Holding
<1>4. NF!ListInv'
    BY <1>1, NFSShape
    DEF NF!NFSInv, NF!TypeOK, NF!HeldInv, NF!ListInv, NF!Holding
<1>5. NF!ReplyInv'
    BY <1>1, NFSShape
    DEF NF!NFSInv, NF!TypeOK, NF!HeldInv, NF!ReplyInv, NF!Holding
<1>6. NF!CountInv'
    BY <1>2 DEF NF!NFSInv, NF!CountInv, NF!Enough
<1>7. NF!ClaimInv'
    BY <1>1, NFSShape
    DEF NF!NFSInv, NF!TypeOK, NF!HeldInv, NF!ClaimInv, NF!Holding
<1> QED
    BY <1>3, <1>4, <1>5, <1>6, <1>7, <1>8 DEF NFSParts

\* nfsrv_dorec()
LEMMA NFSReceive ==
    ASSUME NF!NFSAssumption, NF!NFSInv, NF!TypeOK',
           desirednfsrvcache' = desirednfsrvcache,
           NEW d \in Nfsd, NEW r \in Request, NF!Receive(d, r)
    PROVE  NFSParts'
<1>1. NF!Cached' = NF!Cached
    BY NFSShape DEF NF!Cached, NF!Receive, NF!entries
<1>2. NF!Inserting' = NF!Inserting /\ NF!Evicting' = NF!Evicting
    BY NFSShape
    DEF NF!NFSInv, NF!TypeOK, NF!Inserting, NF!Evicting, NF!Receive,
        NF!entries
<1>3. NF!HeldInv'
    BY <1>1, NFSShape
    DEF NF!NFSInv, NF!TypeOK, NF!HeldInv, NF!Holding, NF!Receive, NF!entries
<1>8. NF!LockInv'
  <2>1. /\ \A x \in Nfsd : nfs_pc'[x] \in NF!Holding <=> nfs_pc[x] \in NF!Holding
        /\ \A x \in Nfsd : nfs_pc[x] \in NF!Holding => rp'[x] = rp[x]
        /\ rc_locked' = rc_locked
      BY DEF NF!NFSInv, NF!TypeOK, NF!Holding, NF!Receive, NF!entries
  <2> QED
      BY <2>1, NFSLocksKept DEF NF!NFSInv
<1>4. NF!ListInv'
    BY <1>1, NFSShape
    DEF NF!NFSInv, NF!TypeOK, NF!HeldInv, NF!ListInv, NF!Holding,
        NF!Receive, NF!entries
<1>5. NF!ReplyInv'
    BY <1>1, NFSShape
    DEF NF!NFSInv, NF!TypeOK, NF!HeldInv, NF!ReplyInv, NF!Holding,
        NF!Receive, NF!entries
<1>6. NF!CountInv'
    BY <1>2 DEF NF!NFSInv, NF!CountInv, NF!Enough, NF!Receive, NF!entries
<1>7. NF!ClaimInv'
    BY <1>1, NFSShape
    DEF NF!NFSInv, NF!TypeOK, NF!HeldInv, NF!ClaimInv, NF!Holding,
        NF!Receive, NF!entries
<1> QED
    BY <1>3, <1>4, <1>5, <1>6, <1>7, <1>8 DEF NFSParts

\* An nfsd locks the entry that it has found.
LEMMA NFSLocked ==
    ASSUME NF!NFSAssumption, NF!NFSInv, NF!TypeOK',
           desirednfsrvcache' = desirednfsrvcache,
           NEW d \in Nfsd, NEW e \in NF!Found(nd[d]), NEW to \in {"Found", "Save"},
           nfs_pc[d] \in {"Lookup", "Update"}, NF!Lock(d, e, to),
           UNCHANGED <<nfsrvlruhead, numnfsrvcache, rc_req, rc_state, rc_reply,
                       nd, mreq, claimed>>
    PROVE  NFSParts'
<1>1. NF!Cached' = NF!Cached
    BY NFSShape DEF NF!Cached, NF!Found, NF!Lock
<1>2. NF!Inserting' = NF!Inserting /\ NF!Evicting' = NF!Evicting
    BY NFSShape
    DEF NF!NFSInv, NF!TypeOK, NF!Inserting, NF!Evicting, NF!Found, NF!Lock
<1>3. NF!HeldInv'
    BY <1>1, NFSShape
    DEF NF!NFSInv, NF!TypeOK, NF!HeldInv, NF!Holding, NF!Found, NF!Lock
<1>8. NF!LockInv'
  <2>1. nfs_pc[d] \notin NF!Holding /\ to \in NF!Holding /\ e \in CacheEntry
      BY NFSShape DEF NF!Holding, NF!Found
  <2> QED
      BY <2>1, NFSLockTaken
<1>4. NF!ListInv'
    BY <1>1, NFSShape
    DEF NF!NFSInv, NF!TypeOK, NF!HeldInv, NF!ListInv, NF!Holding, NF!Found,
        NF!Lock
<1>5. NF!ReplyInv'
    BY <1>1, NFSShape
    DEF NF!NFSInv, NF!TypeOK, NF!HeldInv, NF!ReplyInv, NF!Holding, NF!Found,
        NF!Lock
<1>6. NF!CountInv'
    BY <1>2 DEF NF!NFSInv, NF!CountInv, NF!Enough, NF!Found, NF!Lock
<1>7. NF!ClaimInv'
    BY <1>1, NFSShape
    DEF NF!NFSInv, NF!TypeOK, NF!HeldInv, NF!ClaimInv, NF!Holding, NF!Found,
        NF!Lock
<1> QED
    BY <1>3, <1>4, <1>5, <1>6, <1>7, <1>8 DEF NFSParts

\* It makes a new one.
LEMMA NFSLookupNew ==
    ASSUME NF!NFSAssumption, NF!NFSInv, NF!TypeOK',
           desirednfsrvcache' = desirednfsrvcache,
           NEW d \in Nfsd, NF!LookupNew(d)
    PROVE  NFSParts'
<1>1. NF!Cached' = NF!Cached
    BY NFSShape DEF NF!Cached, NF!LookupNew, NF!Lock, NF!Fill
<1>2. NF!Inserting' = NF!Inserting \cup {d} /\ NF!Evicting' = NF!Evicting
    BY NFSShape
    DEF NF!NFSInv, NF!TypeOK, NF!Inserting, NF!Evicting, NF!LookupNew,
        NF!Lock, NF!Fill
<1>3. NF!HeldInv'
    BY <1>1, NFSShape
    DEF NF!NFSInv, NF!TypeOK, NF!HeldInv, NF!Holding, NF!LookupNew, NF!Lock,
        NF!Fill
<1>8. NF!LockInv'
  <2>1. nfs_pc[d] \notin NF!Holding /\ "Duplicate" \in NF!Holding
      BY DEF NF!LookupNew, NF!Holding
  <2>2. PICK e \in CacheEntry : NF!Lock(d, e, "Duplicate")
      BY DEF NF!LookupNew
  <2> QED
      BY <2>1, <2>2, NFSLockTaken
<1>4. NF!ListInv'
    BY <1>1, NFSShape
    DEF NF!NFSInv, NF!TypeOK, NF!HeldInv, NF!ListInv, NF!Holding,
        NF!LookupNew, NF!Lock, NF!Fill
<1>5. NF!ReplyInv'
    BY <1>1, NFSShape
    DEF NF!NFSInv, NF!TypeOK, NF!HeldInv, NF!ReplyInv, NF!Holding,
        NF!LookupNew, NF!Lock, NF!Fill
<1>6. NF!CountInv'
  <2>1. Cardinality(NF!Inserting') = Cardinality(NF!Inserting) + 1
      BY <1>2, NFSCounts DEF NF!Inserting, NF!LookupNew, NF!Lock, NF!Fill
  <2>2. Cardinality(NF!Evicting') = Cardinality(NF!Evicting)
      BY <1>2
  <2>3. Len(nfsrvlruhead') = Len(nfsrvlruhead)
      BY <1>2 DEF NF!LookupNew, NF!Lock, NF!Fill
  <2> QED
      BY <2>1, <2>2, <2>3, NFSShape, NFSSets
      DEF NF!NFSInv, NF!CountInv, NF!Enough, NF!LookupNew, NF!Lock,
          NF!Fill
<1>7. NF!ClaimInv'
    BY <1>1, NFSShape
    DEF NF!NFSInv, NF!TypeOK, NF!HeldInv, NF!ClaimInv, NF!Holding,
        NF!LookupNew, NF!Lock, NF!Fill
<1> QED
    BY <1>3, <1>4, <1>5, <1>6, <1>7, <1>8 DEF NFSParts

\* It waits for the one at the head of the list.
LEMMA NFSEvictWait ==
    ASSUME NF!NFSAssumption, NF!NFSInv, NF!TypeOK',
           desirednfsrvcache' = desirednfsrvcache,
           NEW d \in Nfsd, NEW e \in CacheEntry, NF!Evict(d), NF!Sleep(d, e, "Evict")
    PROVE  NFSParts'
<1>1. NF!Cached' = NF!Cached
    BY NFSShape DEF NF!Cached, NF!Evict, NF!Sleep, NF!entries
<1>2. NF!Inserting' = NF!Inserting /\ NF!Evicting' = NF!Evicting \cup {d}
    BY NFSShape
    DEF NF!NFSInv, NF!TypeOK, NF!Inserting, NF!Evicting, NF!Evict, NF!Full, NF!Sleep,
        NF!entries
<1>3. NF!HeldInv'
    BY <1>1, NFSShape
    DEF NF!NFSInv, NF!TypeOK, NF!HeldInv, NF!Holding, NF!Evict, NF!Full, NF!Sleep,
        NF!entries
<1>8. NF!LockInv'
  <2>1. /\ \A x \in Nfsd : nfs_pc'[x] \in NF!Holding <=> nfs_pc[x] \in NF!Holding
        /\ \A x \in Nfsd : nfs_pc[x] \in NF!Holding => rp'[x] = rp[x]
        /\ rc_locked' = rc_locked
      BY DEF NF!NFSInv, NF!TypeOK, NF!Holding, NF!Evict, NF!Full, NF!Sleep, NF!entries
  <2> QED
      BY <2>1, NFSLocksKept DEF NF!NFSInv
<1>4. NF!ListInv'
    BY <1>1, NFSShape
    DEF NF!NFSInv, NF!TypeOK, NF!HeldInv, NF!ListInv, NF!Holding, NF!Evict,
        NF!Full, NF!Sleep, NF!entries
<1>5. NF!ReplyInv'
    BY <1>1, NFSShape
    DEF NF!NFSInv, NF!TypeOK, NF!HeldInv, NF!ReplyInv, NF!Holding, NF!Evict,
        NF!Full, NF!Sleep, NF!entries
<1>6. NF!CountInv'
  <2>1. NF!Enough => Cardinality(NF!Evicting \cup {d}) <= Len(nfsrvlruhead)
      BY NFSHead DEF NF!Evict, NF!Full
  <2> QED
      BY <1>2, <2>1, NFSShape, NFSSets
      DEF NF!NFSInv, NF!CountInv, NF!Enough, NF!Evict, NF!Sleep, NF!entries
<1>7. NF!ClaimInv'
    BY <1>1, NFSShape
    DEF NF!NFSInv, NF!TypeOK, NF!HeldInv, NF!ClaimInv, NF!Holding, NF!Evict,
        NF!Full, NF!Sleep, NF!entries
<1> QED
    BY <1>3, <1>4, <1>5, <1>6, <1>7, <1>8 DEF NFSParts

\* It takes the one at the head of the list.
LEMMA NFSEvictTake ==
    ASSUME NF!NFSAssumption, NF!NFSInv, NF!TypeOK',
           desirednfsrvcache' = desirednfsrvcache,
           NEW d \in Nfsd, NF!Evict(d), NEW e \in NF!Cached,
           NF!Lock(d, e, "Duplicate"), NF!Fill(d, e),
           nfsrvlruhead' \in Seq(CacheEntry), Distinct(nfsrvlruhead'),
           NF!Cached' = NF!Cached \ {e},
           Len(nfsrvlruhead') = Len(nfsrvlruhead) - 1,
           claimed' = claimed \ {rc_req[e]},
           UNCHANGED <<numnfsrvcache, sends, net, nd, mreq>>
    PROVE  NFSParts'
<1>1. NF!Cached' = NF!Cached \ {e}
    OBVIOUS
<1>2. NF!Inserting' = NF!Inserting \cup {d} /\ NF!Evicting' = NF!Evicting \ {d}
    BY NFSShape
    DEF NF!NFSInv, NF!TypeOK, NF!Inserting, NF!Evicting, NF!Evict, NF!Full, NF!Lock,
        NF!Fill
<1>3. NF!HeldInv'
    BY <1>1, NFSShape
    DEF NF!NFSInv, NF!TypeOK, NF!HeldInv, NF!Holding, NF!Evict, NF!Full, NF!Lock,
        NF!Fill
<1>8. NF!LockInv'
  <2>1. nfs_pc[d] \notin NF!Holding /\ "Duplicate" \in NF!Holding
      BY DEF NF!Evict, NF!Full, NF!Holding
  <2> QED
      BY <2>1, NFSLockTaken, NFSShape
<1>4. NF!ListInv'
  <2>1. \A i, j \in DOMAIN nfsrvlruhead' :
            nfsrvlruhead'[i] = nfsrvlruhead'[j] => i = j
      BY Zenon DEF Distinct
  <2>2. \A f \in NF!Cached' : rc_req'[f] = rc_req[f] /\ f \in NF!Cached
      BY <1>1, NFSShape DEF NF!Fill, NF!NFSInv, NF!TypeOK
  <2>3. \A f, g \in NF!Cached' : rc_req'[f] = rc_req'[g] /\ rc_req'[f] \in Inet
                                 => f = g
      BY <2>2 DEF NF!NFSInv, NF!ListInv
  <2> QED
      BY <2>1, <2>3 DEF NF!ListInv
<1>5. NF!ReplyInv'
    BY <1>1, NFSShape
    DEF NF!NFSInv, NF!TypeOK, NF!HeldInv, NF!ReplyInv, NF!Holding, NF!Evict,
        NF!Full, NF!Lock, NF!Fill
<1>6. NF!CountInv'
  <2>1. Cardinality(NF!Inserting') = Cardinality(NF!Inserting) + 1
      BY <1>2, NFSCounts DEF NF!Inserting, NF!Evict, NF!Full, NF!Lock, NF!Fill
  <2>2. ASSUME NF!Enough
        PROVE  Cardinality(NF!Evicting') <= Len(nfsrvlruhead) - 1
    <3>0. Cardinality(NF!Evicting \cup {d}) <= Len(nfsrvlruhead)
        BY <2>2, NFSHead DEF NF!Evict, NF!Full
    <3>1. CASE d \in NF!Evicting
      <4>1. Cardinality(NF!Evicting \ {d}) = Cardinality(NF!Evicting) - 1
          BY <3>1, NFSCounts
      <4> QED
          BY <2>2, <4>1, <1>2, NFSShape
    <3>2. CASE d \notin NF!Evicting
      <4>1. Cardinality(NF!Evicting) + 1 <= Len(nfsrvlruhead)
          BY <3>0, <3>2, NFSCounts
      <4>2. NF!Evicting' = NF!Evicting
          BY <3>2, <1>2
      <4> QED
          BY <4>1, <4>2, NFSShape
    <3> QED
        BY <3>1, <3>2
  <2>3. Len(nfsrvlruhead') = Len(nfsrvlruhead) - 1
      OBVIOUS
  <2>4. NF!Enough' => NF!Enough
      BY DEF NF!Enough
  <2>5. numnfsrvcache <= desirednfsrvcache
      BY DEF NF!NFSInv, NF!CountInv
  <2> QED
      BY <2>1, <2>2, <2>3, <2>4, <2>5, NFSShape, NFSSets DEF NF!CountInv
<1>7. NF!ClaimInv'
    BY <1>1, NFSShape
    DEF NF!NFSInv, NF!TypeOK, NF!HeldInv, NF!ClaimInv, NF!Holding, NF!Evict,
        NF!Full, NF!Lock, NF!Fill
<1> QED
    BY <1>3, <1>4, <1>5, <1>6, <1>7, <1>8 DEF NFSParts

\* It inserts its entry.
LEMMA NFSInsert ==
    ASSUME NF!NFSAssumption, NF!NFSInv, NF!TypeOK',
           desirednfsrvcache' = desirednfsrvcache,
           NEW d \in Nfsd, NF!Insert(d)
    PROVE  NFSParts'
<1>1. NF!Cached' = NF!Cached \cup {rp[d]}
    BY NFSInserted
<1>2. NF!Inserting' = NF!Inserting \ {d} /\ NF!Evicting' = NF!Evicting
    BY NFSShape
    DEF NF!NFSInv, NF!TypeOK, NF!Inserting, NF!Evicting, NF!Insert, NF!Found
<1>3. NF!HeldInv'
  <2>1. nfs_pc[d] \in NF!Holding
      BY DEF NF!Holding, NF!Insert
  <2>2. /\ rp[d] \in CacheEntry
        /\ \A x \in Nfsd : x # d /\ nfs_pc[x] \in NF!Holding => rp[x] # rp[d]
      BY <2>1, NFSSole
  <2> QED
      BY <2>2, <1>1 DEF NF!NFSInv, NF!TypeOK, NF!HeldInv, NF!Holding, NF!Insert
<1>8. NF!LockInv'
    BY NFSShape
    DEF NF!NFSInv, NF!TypeOK, NF!HeldInv, NF!LockInv, NF!Holding, NF!Insert,
        NF!Found
<1>4. NF!ListInv'
  <2>1. \A i, j \in DOMAIN nfsrvlruhead' :
            nfsrvlruhead'[i] = nfsrvlruhead'[j] => i = j
      BY NFSInserted DEF Distinct
  <2>2. nd[d] \in Inet => \A f \in NF!Cached : rc_req[f] # nd[d]
      BY DEF NF!Insert, NF!Found, NF!NFSInv, NF!HeldInv
  <2>3. rc_req[rp[d]] = nd[d] /\ rc_req' = rc_req
      BY DEF NF!Insert, NF!NFSInv, NF!HeldInv, NF!Holding
  <2> QED
      BY <2>1, <2>2, <2>3, <1>1 DEF NF!NFSInv, NF!ListInv
<1>5. NF!ReplyInv'
    BY <1>1, NFSShape
    DEF NF!NFSInv, NF!TypeOK, NF!HeldInv, NF!ReplyInv, NF!Holding,
        NF!Insert, NF!Found
<1>6. NF!CountInv'
  <2>1. Cardinality(NF!Inserting') = Cardinality(NF!Inserting) - 1
      BY <1>2, NFSCounts DEF NF!Inserting, NF!Insert, NF!Found
  <2>2. Cardinality(NF!Evicting') = Cardinality(NF!Evicting)
      BY <1>2
  <2>3. Len(nfsrvlruhead') = Len(nfsrvlruhead) + 1
      BY NFSInserted
  <2>4. numnfsrvcache' = numnfsrvcache
      BY DEF NF!Insert
  <2> QED
      BY <2>1, <2>2, <2>3, <2>4, NFSShape, NFSSets
      DEF NF!NFSInv, NF!CountInv, NF!Enough
<1>7. NF!ClaimInv'
    BY <1>1, NFSShape
    DEF NF!NFSInv, NF!TypeOK, NF!HeldInv, NF!ClaimInv, NF!Holding,
        NF!Insert, NF!Found
<1> QED
    BY <1>3, <1>4, <1>5, <1>6, <1>7, <1>8 DEF NFSParts

\* It gives its entry up for another.
LEMMA NFSDuplicate ==
    ASSUME NF!NFSAssumption, NF!NFSInv, NF!TypeOK',
           desirednfsrvcache' = desirednfsrvcache,
           NEW d \in Nfsd, NEW e \in NF!Found(nd[d]),
           nfs_pc[d] = "Duplicate", ~rc_locked[e],
           numnfsrvcache' = numnfsrvcache - 1,
           rc_locked' = [rc_locked EXCEPT ![rp[d]] = FALSE, ![e] = TRUE],
           rp' = [rp EXCEPT ![d] = e],
           nfs_pc' = [nfs_pc EXCEPT ![d] = "Found"],
           UNCHANGED <<nfsrvlruhead, rc_req, rc_state, rc_reply, nd, mreq,
                       claimed>>
    PROVE  NFSParts'
<1>1. NF!Cached' = NF!Cached
    BY NFSShape DEF NF!Cached, NF!Found
<1>2. NF!Inserting' = NF!Inserting \ {d} /\ NF!Evicting' = NF!Evicting
    BY NFSShape
    DEF NF!NFSInv, NF!TypeOK, NF!Inserting, NF!Evicting, NF!Found
<1>3. NF!HeldInv'
  <2>1. nfs_pc[d] \in NF!Holding
      BY DEF NF!Holding, NF!Found
  <2>2. /\ rp[d] \in CacheEntry
        /\ \A x \in Nfsd : x # d /\ nfs_pc[x] \in NF!Holding => rp[x] # rp[d]
      BY <2>1, NFSSole
  <2>3. e \in CacheEntry /\ e \in NF!Cached /\ rc_req[e] = nd[d] /\ e # rp[d]
      BY NFSShape DEF NF!Found, NF!NFSInv, NF!HeldInv, NF!Holding
  <2>4. \A x \in Nfsd : x # d /\ nfs_pc[x] \in NF!Holding => rp[x] # e
      BY DEF NF!NFSInv, NF!HeldInv
  <2> QED
      BY <2>2, <2>3, <2>4, <1>1 DEF NF!NFSInv, NF!TypeOK, NF!HeldInv, NF!Holding
<1>8. NF!LockInv'
  <2>1. nfs_pc[d] \in NF!Holding
      BY DEF NF!Holding, NF!Found
  <2>2. /\ rp[d] \in CacheEntry
        /\ \A x \in Nfsd : x # d /\ nfs_pc[x] \in NF!Holding => rp[x] # rp[d]
      BY <2>1, NFSSole
  <2>3. e \in CacheEntry /\ e # rp[d]
      BY <2>1, NFSShape DEF NF!Found, NF!NFSInv, NF!HeldInv
  <2>4. \A x \in Nfsd : nfs_pc[x] \in NF!Holding => rp[x] # e
      BY DEF NF!NFSInv, NF!HeldInv
  <2>5. \A x \in Nfsd : IF x = d THEN nfs_pc'[x] = "Found" /\ rp'[x] = e
                        ELSE nfs_pc'[x] = nfs_pc[x] /\ rp'[x] = rp[x]
      BY DEF NF!NFSInv, NF!TypeOK
  <2>6. \A x, y \in Nfsd : nfs_pc'[x] \in NF!Holding /\ nfs_pc'[y] \in NF!Holding
                           /\ rp'[x] = rp'[y] => x = y
      BY <2>4, <2>5 DEF NF!NFSInv, NF!LockInv
  <2>7. ASSUME NEW f \in CacheEntry, rc_locked'[f]
        PROVE  \E x \in Nfsd : nfs_pc'[x] \in NF!Holding /\ rp'[x] = f
    <3>1. CASE f = e
        BY <3>1, <2>5 DEF NF!Holding
    <3>2. CASE f # e
      <4>1. f # rp[d] /\ rc_locked[f]
          BY <2>2, <2>3, <2>7, <3>2 DEF NF!NFSInv, NF!TypeOK
      <4>2. PICK x \in Nfsd : nfs_pc[x] \in NF!Holding /\ rp[x] = f
          BY <4>1 DEF NF!NFSInv, NF!LockInv
      <4> QED
          BY <4>1, <4>2, <2>5
    <3> QED
        BY <3>1, <3>2
  <2> QED
      BY <2>6, <2>7 DEF NF!LockInv, NF!Holding
<1>4. NF!ListInv'
    BY <1>1, NFSShape
    DEF NF!NFSInv, NF!TypeOK, NF!HeldInv, NF!ListInv, NF!Holding, NF!Found
<1>5. NF!ReplyInv'
    BY <1>1, NFSShape
    DEF NF!NFSInv, NF!TypeOK, NF!HeldInv, NF!ReplyInv, NF!Holding, NF!Found
<1>6. NF!CountInv'
  <2>1. Cardinality(NF!Inserting') = Cardinality(NF!Inserting) - 1
      BY <1>2, NFSCounts DEF NF!Inserting, NF!Found
  <2>2. Cardinality(NF!Evicting') = Cardinality(NF!Evicting)
      BY <1>2
  <2>3. Len(nfsrvlruhead') = Len(nfsrvlruhead)
      BY <1>2 DEF NF!Found
  <2> QED
      BY <2>1, <2>2, <2>3, NFSShape, NFSSets
      DEF NF!NFSInv, NF!CountInv, NF!Enough, NF!Found
<1>7. NF!ClaimInv'
    BY <1>1, NFSShape
    DEF NF!NFSInv, NF!TypeOK, NF!HeldInv, NF!ClaimInv, NF!Holding, NF!Found
<1> QED
    BY <1>3, <1>4, <1>5, <1>6, <1>7, <1>8 DEF NFSParts

\* The look at TAILQ_NEXT, which takes nothing.
LEMMA NFSLook ==
    ASSUME NF!NFSAssumption, NF!NFSInv, NF!TypeOK',
           desirednfsrvcache' = desirednfsrvcache,
           NEW d \in Nfsd, NF!Look(d)
    PROVE  NFSParts'
<1>0. /\ \E to \in {"Answer", "Move"} : nfs_pc' = [nfs_pc EXCEPT ![d] = to]
      /\ nfs_pc[d] = "Found"
      /\ UNCHANGED <<nfsrvlruhead, numnfsrvcache, rc_req, rc_state, rc_reply,
                     rc_locked, nd, rp, mreq, claimed>>
    BY DEF NF!Look, NF!entries
<1>1. NF!Cached' = NF!Cached
    BY <1>0 DEF NF!Cached
<1>2. NF!Inserting' = NF!Inserting /\ NF!Evicting' = NF!Evicting
    BY <1>0 DEF NF!NFSInv, NF!TypeOK, NF!Inserting, NF!Evicting
<1>3. NF!HeldInv'
    BY <1>0, <1>1 DEF NF!NFSInv, NF!TypeOK, NF!HeldInv, NF!Holding
<1>8. NF!LockInv'
  <2>1. /\ \A x \in Nfsd : nfs_pc'[x] \in NF!Holding <=> nfs_pc[x] \in NF!Holding
        /\ \A x \in Nfsd : nfs_pc[x] \in NF!Holding => rp'[x] = rp[x]
        /\ rc_locked' = rc_locked
      BY <1>0 DEF NF!NFSInv, NF!TypeOK, NF!Holding
  <2> QED
      BY <2>1, NFSLocksKept DEF NF!NFSInv
<1>4. NF!ListInv'
    BY <1>0, <1>1 DEF NF!NFSInv, NF!ListInv
<1>5. NF!ReplyInv'
    BY <1>0, <1>1 DEF NF!NFSInv, NF!TypeOK, NF!ReplyInv
<1>6. NF!CountInv'
    BY <1>0, <1>2 DEF NF!NFSInv, NF!CountInv, NF!Enough
<1>7. NF!ClaimInv'
    BY <1>0, <1>1 DEF NF!NFSInv, NF!ClaimInv
<1> QED
    BY <1>3, <1>4, <1>5, <1>6, <1>7, <1>8 DEF NFSParts

\* found: the entry goes to the end of the list.
LEMMA NFSToTail ==
    ASSUME NF!NFSAssumption, NF!NFSInv, NF!TypeOK',
           desirednfsrvcache' = desirednfsrvcache,
           NEW d \in Nfsd, NF!ToTail(d)
    PROVE  NFSParts'
<1>1. NF!Cached' = NF!Cached
    BY NFSMoved
<1>2. NF!Inserting' = NF!Inserting /\ NF!Evicting' = NF!Evicting
    BY NFSShape
    DEF NF!NFSInv, NF!TypeOK, NF!Inserting, NF!Evicting, NF!ToTail
<1>3. NF!HeldInv'
    BY <1>1, NFSShape
    DEF NF!NFSInv, NF!TypeOK, NF!HeldInv, NF!Holding, NF!ToTail
<1>8. NF!LockInv'
    BY NFSShape
    DEF NF!NFSInv, NF!TypeOK, NF!HeldInv, NF!LockInv, NF!Holding, NF!ToTail
<1>4. NF!ListInv'
  <2>1. \A i, j \in DOMAIN nfsrvlruhead' :
            nfsrvlruhead'[i] = nfsrvlruhead'[j] => i = j
      BY NFSMoved DEF Distinct
  <2> QED
      BY <2>1, <1>1 DEF NF!NFSInv, NF!ListInv, NF!ToTail
<1>5. NF!ReplyInv'
    BY <1>1, NFSShape
    DEF NF!NFSInv, NF!TypeOK, NF!HeldInv, NF!ReplyInv, NF!Holding, NF!ToTail
<1>6. NF!CountInv'
  <2>1. Cardinality(NF!Inserting') = Cardinality(NF!Inserting)
      BY <1>2
  <2>2. Cardinality(NF!Evicting') = Cardinality(NF!Evicting)
      BY <1>2
  <2>3. Len(nfsrvlruhead') = Len(nfsrvlruhead)
      BY NFSMoved
  <2> QED
      BY <2>1, <2>2, <2>3, NFSShape, NFSSets
      DEF NF!NFSInv, NF!CountInv, NF!Enough, NF!ToTail
<1>7. NF!ClaimInv'
    BY <1>1, NFSShape
    DEF NF!NFSInv, NF!TypeOK, NF!HeldInv, NF!ClaimInv, NF!Holding, NF!ToTail
<1> QED
    BY <1>3, <1>4, <1>5, <1>6, <1>7, <1>8 DEF NFSParts

\* RC_DROPIT, RC_REPLY or RC_DOIT
LEMMA NFSAnswer ==
    ASSUME NF!NFSAssumption, NF!NFSInv, NF!TypeOK',
           desirednfsrvcache' = desirednfsrvcache,
           NEW d \in Nfsd, NF!Answer(d)
    PROVE  NFSParts'
<1>1. NF!Cached' = NF!Cached
    BY NFSShape DEF NF!Cached, NF!Answer
<1>2. NF!Inserting' = NF!Inserting /\ NF!Evicting' = NF!Evicting
    BY NFSShape
    DEF NF!NFSInv, NF!TypeOK, NF!Inserting, NF!Evicting, NF!Answer
<1>3. NF!HeldInv'
    BY <1>1, NFSShape
    DEF NF!NFSInv, NF!TypeOK, NF!HeldInv, NF!Holding, NF!Answer
<1>8. NF!LockInv'
  <2>1. /\ \A x \in Nfsd : nfs_pc'[x] \in NF!Holding <=> nfs_pc[x] \in NF!Holding
        /\ \A x \in Nfsd : nfs_pc[x] \in NF!Holding => rp'[x] = rp[x]
        /\ rc_locked' = rc_locked
      BY DEF NF!NFSInv, NF!TypeOK, NF!Holding, NF!Answer
  <2> QED
      BY <2>1, NFSLocksKept DEF NF!NFSInv
<1>4. NF!ListInv'
    BY <1>1, NFSShape
    DEF NF!NFSInv, NF!TypeOK, NF!HeldInv, NF!ListInv, NF!Holding, NF!Answer
<1>5. NF!ReplyInv'
  <2>1. rc_reply[rp[d]] \in {nd[d], None}
    <3>1. rp[d] \in NF!Cached /\ rc_req[rp[d]] = nd[d]
        BY DEF NF!Answer, NF!NFSInv, NF!HeldInv, NF!Holding
    <3> QED
        BY <3>1 DEF NF!NFSInv, NF!ReplyInv
  <2>2. \A x \in Nfsd : mreq'[x] \in {nd[x], None}
      BY <2>1 DEF NF!NFSInv, NF!TypeOK, NF!ReplyInv, NF!Answer
  <2>3. \A x \in Nfsd : nfs_pc'[x] = "Idle" => mreq'[x] = None
      BY DEF NF!NFSInv, NF!TypeOK, NF!ReplyInv, NF!Answer
  <2> QED
      BY <2>2, <2>3, <1>1 DEF NF!NFSInv, NF!ReplyInv, NF!Answer
<1>6. NF!CountInv'
    BY <1>2 DEF NF!NFSInv, NF!CountInv, NF!Enough, NF!Answer
<1>7. NF!ClaimInv'
    BY <1>1, NFSShape
    DEF NF!NFSInv, NF!TypeOK, NF!HeldInv, NF!ClaimInv, NF!Holding, NF!Answer
<1> QED
    BY <1>3, <1>4, <1>5, <1>6, <1>7, <1>8 DEF NFSParts

\* nfsrv_unlockcache()
LEMMA NFSUnlock ==
    ASSUME NF!NFSAssumption, NF!NFSInv, NF!TypeOK',
           desirednfsrvcache' = desirednfsrvcache,
           NEW d \in Nfsd,
           NEW from \in {"UnlockDrop", "UnlockReply", "UnlockDo"},
           NEW to \in {"Drop", "Reply", "Do"}, NF!Unlock(d, from, to)
    PROVE  NFSParts'
<1>1. NF!Cached' = NF!Cached
    BY NFSShape DEF NF!Cached, NF!Unlock
<1>2. NF!Inserting' = NF!Inserting /\ NF!Evicting' = NF!Evicting
    BY NFSShape
    DEF NF!NFSInv, NF!TypeOK, NF!Inserting, NF!Evicting, NF!Unlock
<1>3. NF!HeldInv'
  <2>1. nfs_pc[d] \in NF!Holding
      BY DEF NF!Holding, NF!Unlock
  <2>2. /\ rp[d] \in CacheEntry
        /\ \A x \in Nfsd : x # d /\ nfs_pc[x] \in NF!Holding => rp[x] # rp[d]
      BY <2>1, NFSSole
  <2> QED
      BY <2>2, <1>1 DEF NF!NFSInv, NF!TypeOK, NF!HeldInv, NF!Holding, NF!Unlock
<1>8. NF!LockInv'
    BY NFSShape
    DEF NF!NFSInv, NF!TypeOK, NF!HeldInv, NF!LockInv, NF!Holding, NF!Unlock
<1>4. NF!ListInv'
    BY <1>1, NFSShape
    DEF NF!NFSInv, NF!TypeOK, NF!HeldInv, NF!ListInv, NF!Holding, NF!Unlock
<1>5. NF!ReplyInv'
    BY <1>1, NFSShape
    DEF NF!NFSInv, NF!TypeOK, NF!HeldInv, NF!ReplyInv, NF!Holding, NF!Unlock
<1>6. NF!CountInv'
    BY <1>2 DEF NF!NFSInv, NF!CountInv, NF!Enough, NF!Unlock
<1>7. NF!ClaimInv'
    BY <1>1, NFSShape
    DEF NF!NFSInv, NF!TypeOK, NF!HeldInv, NF!ClaimInv, NF!Holding, NF!Unlock
<1> QED
    BY <1>3, <1>4, <1>5, <1>6, <1>7, <1>8 DEF NFSParts

\* The procedure is called.
LEMMA NFSDo ==
    ASSUME NF!NFSAssumption, NF!NFSInv, NF!TypeOK',
           desirednfsrvcache' = desirednfsrvcache,
           NEW d \in Nfsd, NF!Do(d)
    PROVE  NFSParts'
<1>1. NF!Cached' = NF!Cached
    BY NFSShape DEF NF!Cached, NF!Do, NF!entries
<1>2. NF!Inserting' = NF!Inserting /\ NF!Evicting' = NF!Evicting
    BY NFSShape
    DEF NF!NFSInv, NF!TypeOK, NF!Inserting, NF!Evicting, NF!Do, NF!entries
<1>3. NF!HeldInv'
    BY <1>1, NFSShape
    DEF NF!NFSInv, NF!TypeOK, NF!HeldInv, NF!Holding, NF!Do, NF!entries
<1>8. NF!LockInv'
  <2>1. /\ \A x \in Nfsd : nfs_pc'[x] \in NF!Holding <=> nfs_pc[x] \in NF!Holding
        /\ \A x \in Nfsd : nfs_pc[x] \in NF!Holding => rp'[x] = rp[x]
        /\ rc_locked' = rc_locked
      BY DEF NF!NFSInv, NF!TypeOK, NF!Holding, NF!Do, NF!entries
  <2> QED
      BY <2>1, NFSLocksKept DEF NF!NFSInv
<1>4. NF!ListInv'
    BY <1>1, NFSShape
    DEF NF!NFSInv, NF!TypeOK, NF!HeldInv, NF!ListInv, NF!Holding, NF!Do,
        NF!entries
<1>5. NF!ReplyInv'
    BY <1>1, NFSShape
    DEF NF!NFSInv, NF!TypeOK, NF!HeldInv, NF!ReplyInv, NF!Holding, NF!Do,
        NF!entries
<1>6. NF!CountInv'
    BY <1>2 DEF NF!NFSInv, NF!CountInv, NF!Enough, NF!Do, NF!entries
<1>7. NF!ClaimInv'
    BY <1>1, NFSShape
    DEF NF!NFSInv, NF!TypeOK, NF!HeldInv, NF!ClaimInv, NF!Holding, NF!Do,
        NF!entries
<1> QED
    BY <1>3, <1>4, <1>5, <1>6, <1>7, <1>8 DEF NFSParts

\* The entry has been taken for another request.
LEMMA NFSUpdateNone ==
    ASSUME NF!NFSAssumption, NF!NFSInv, NF!TypeOK',
           desirednfsrvcache' = desirednfsrvcache,
           NEW d \in Nfsd, NF!UpdateNone(d)
    PROVE  NFSParts'
<1>1. NF!Cached' = NF!Cached
    BY NFSShape DEF NF!Cached, NF!UpdateNone, NF!entries
<1>2. NF!Inserting' = NF!Inserting /\ NF!Evicting' = NF!Evicting
    BY NFSShape
    DEF NF!NFSInv, NF!TypeOK, NF!Inserting, NF!Evicting, NF!UpdateNone,
        NF!entries
<1>3. NF!HeldInv'
    BY <1>1, NFSShape
    DEF NF!NFSInv, NF!TypeOK, NF!HeldInv, NF!Holding, NF!UpdateNone,
        NF!entries
<1>8. NF!LockInv'
  <2>1. /\ \A x \in Nfsd : nfs_pc'[x] \in NF!Holding <=> nfs_pc[x] \in NF!Holding
        /\ \A x \in Nfsd : nfs_pc[x] \in NF!Holding => rp'[x] = rp[x]
        /\ rc_locked' = rc_locked
      BY DEF NF!NFSInv, NF!TypeOK, NF!Holding, NF!UpdateNone, NF!entries
  <2> QED
      BY <2>1, NFSLocksKept DEF NF!NFSInv
<1>4. NF!ListInv'
    BY <1>1, NFSShape
    DEF NF!NFSInv, NF!TypeOK, NF!HeldInv, NF!ListInv, NF!Holding,
        NF!UpdateNone, NF!entries
<1>5. NF!ReplyInv'
    BY <1>1, NFSShape
    DEF NF!NFSInv, NF!TypeOK, NF!HeldInv, NF!ReplyInv, NF!Holding,
        NF!UpdateNone, NF!entries
<1>6. NF!CountInv'
    BY <1>2 DEF NF!NFSInv, NF!CountInv, NF!Enough, NF!UpdateNone, NF!entries
<1>7. NF!ClaimInv'
    BY <1>1, NFSShape
    DEF NF!NFSInv, NF!TypeOK, NF!HeldInv, NF!ClaimInv, NF!Holding,
        NF!UpdateNone, NF!entries
<1> QED
    BY <1>3, <1>4, <1>5, <1>6, <1>7, <1>8 DEF NFSParts

\* nfsrv_updatecache()
LEMMA NFSSave ==
    ASSUME NF!NFSAssumption, NF!NFSInv, NF!TypeOK',
           desirednfsrvcache' = desirednfsrvcache,
           NEW d \in Nfsd, NF!Save(d)
    PROVE  NFSParts'
<1>1. NF!Cached' = NF!Cached
    BY NFSShape DEF NF!Cached, NF!Save
<1>2. NF!Inserting' = NF!Inserting /\ NF!Evicting' = NF!Evicting
    BY NFSShape DEF NF!NFSInv, NF!TypeOK, NF!Inserting, NF!Evicting, NF!Save
<1>3. NF!HeldInv'
    BY <1>1, NFSShape
    DEF NF!NFSInv, NF!TypeOK, NF!HeldInv, NF!Holding, NF!Save
<1>8. NF!LockInv'
    BY NFSShape
    DEF NF!NFSInv, NF!TypeOK, NF!HeldInv, NF!LockInv, NF!Holding, NF!Save
<1>4. NF!ListInv'
    BY <1>1, NFSShape
    DEF NF!NFSInv, NF!TypeOK, NF!HeldInv, NF!ListInv, NF!Holding, NF!Save
<1>5. NF!ReplyInv'
    BY <1>1, NFSShape
    DEF NF!NFSInv, NF!TypeOK, NF!HeldInv, NF!ReplyInv, NF!Holding, NF!Save
<1>6. NF!CountInv'
    BY <1>2 DEF NF!NFSInv, NF!CountInv, NF!Enough, NF!Save
<1>7. NF!ClaimInv'
    BY <1>1, NFSShape
    DEF NF!NFSInv, NF!TypeOK, NF!HeldInv, NF!ClaimInv, NF!Holding, NF!Save
<1> QED
    BY <1>3, <1>4, <1>5, <1>6, <1>7, <1>8 DEF NFSParts

\* The reply is sent, or the request dropped.
LEMMA NFSReply ==
    ASSUME NF!NFSAssumption, NF!NFSInv, NF!TypeOK',
           desirednfsrvcache' = desirednfsrvcache,
           NEW d \in Nfsd, NF!Reply(d)
    PROVE  NFSParts'
<1>1. NF!Cached' = NF!Cached
    BY NFSShape DEF NF!Cached, NF!Reply, NF!entries
<1>2. NF!Inserting' = NF!Inserting /\ NF!Evicting' = NF!Evicting
    BY NFSShape
    DEF NF!NFSInv, NF!TypeOK, NF!Inserting, NF!Evicting, NF!Reply,
        NF!entries
<1>3. NF!HeldInv'
    BY <1>1, NFSShape
    DEF NF!NFSInv, NF!TypeOK, NF!HeldInv, NF!Holding, NF!Reply, NF!entries
<1>8. NF!LockInv'
  <2>1. /\ \A x \in Nfsd : nfs_pc'[x] \in NF!Holding <=> nfs_pc[x] \in NF!Holding
        /\ \A x \in Nfsd : nfs_pc[x] \in NF!Holding => rp'[x] = rp[x]
        /\ rc_locked' = rc_locked
      BY DEF NF!NFSInv, NF!TypeOK, NF!Holding, NF!Reply, NF!entries
  <2> QED
      BY <2>1, NFSLocksKept DEF NF!NFSInv
<1>4. NF!ListInv'
    BY <1>1, NFSShape
    DEF NF!NFSInv, NF!TypeOK, NF!HeldInv, NF!ListInv, NF!Holding, NF!Reply,
        NF!entries
<1>5. NF!ReplyInv'
    BY <1>1, NFSShape
    DEF NF!NFSInv, NF!TypeOK, NF!HeldInv, NF!ReplyInv, NF!Holding, NF!Reply,
        NF!entries
<1>6. NF!CountInv'
    BY <1>2 DEF NF!NFSInv, NF!CountInv, NF!Enough, NF!Reply, NF!entries
<1>7. NF!ClaimInv'
    BY <1>1, NFSShape
    DEF NF!NFSInv, NF!TypeOK, NF!HeldInv, NF!ClaimInv, NF!Holding, NF!Reply,
        NF!entries
<1> QED
    BY <1>3, <1>4, <1>5, <1>6, <1>7, <1>8 DEF NFSParts

\* TAILQ_FIRST is NULL.
LEMMA NFSNull ==
    ASSUME NF!NFSAssumption, NF!NFSInv, NF!TypeOK',
           desirednfsrvcache' = desirednfsrvcache,
           NEW d \in Nfsd, NF!EvictNull(d)
    PROVE  NFSParts'
<1>0. /\ nfs_pc' = [nfs_pc EXCEPT ![d] = "Fault"]
      /\ nfs_pc[d] \in {"Lookup", "Evict"}
      /\ UNCHANGED <<nfsrvlruhead, numnfsrvcache, rc_req, rc_state, rc_reply,
                     rc_locked, nd, rp, mreq, claimed>>
    BY DEF NF!EvictNull, NF!Full, NF!entries
<1>1. NF!Cached' = NF!Cached
    BY <1>0 DEF NF!Cached
<1>2. NF!Inserting' = NF!Inserting /\ NF!Evicting' = NF!Evicting \ {d}
    BY <1>0 DEF NF!NFSInv, NF!TypeOK, NF!Inserting, NF!Evicting
<1>3. NF!HeldInv'
    BY <1>0, <1>1 DEF NF!NFSInv, NF!TypeOK, NF!HeldInv, NF!Holding
<1>8. NF!LockInv'
  <2>1. /\ \A x \in Nfsd : nfs_pc'[x] \in NF!Holding <=> nfs_pc[x] \in NF!Holding
        /\ \A x \in Nfsd : nfs_pc[x] \in NF!Holding => rp'[x] = rp[x]
        /\ rc_locked' = rc_locked
      BY <1>0 DEF NF!NFSInv, NF!TypeOK, NF!Holding
  <2> QED
      BY <2>1, NFSLocksKept DEF NF!NFSInv
<1>4. NF!ListInv'
    BY <1>0, <1>1 DEF NF!NFSInv, NF!ListInv
<1>5. NF!ReplyInv'
    BY <1>0, <1>1 DEF NF!NFSInv, NF!TypeOK, NF!ReplyInv
<1>6. NF!CountInv'
  <2>1. ~NF!Enough
      BY NFSHead DEF NF!EvictNull, NF!Full
  <2> QED
      BY <1>0, <1>2, <2>1 DEF NF!NFSInv, NF!CountInv, NF!Enough
<1>7. NF!ClaimInv'
    BY <1>0, <1>1 DEF NF!NFSInv, NF!ClaimInv
<1> QED
    BY <1>3, <1>4, <1>5, <1>6, <1>7, <1>8 DEF NFSParts

\* Nobody meets it if there are enough entries.
LEMMA NFSNoFault ==
    ASSUME NF!NFSAssumption, NF!NFSInv, NF!Next
    PROVE  NF!FaultInv'
<1> SUFFICES ASSUME NF!Enough', NEW d \in Nfsd, nfs_pc'[d] = "Fault"
             PROVE  FALSE
    BY DEF NF!FaultInv
<1>1. NF!Enough /\ nfs_pc[d] # "Fault"
    BY DEF NF!Next, NF!Enough
<1>2. \E x \in Nfsd : NF!EvictNull(x)
  <2>1. ASSUME NEW x \in Nfsd, NF!Step(x), ~NF!EvictNull(x)
        PROVE  FALSE
      BY <1>1, <2>1 DEF NF!NFSInv, NF!TypeOK, NF!Step, NF!LookupFound,
          NF!LookupNew, NF!Evict, NF!Insert, NF!InsertDuplicate, NF!Look,
          NF!ToTail, NF!Answer, NF!Unlock, NF!Do, NF!UpdateFound,
          NF!UpdateNone, NF!Save, NF!Reply, NF!Sleep, NF!Lock
  <2>2. ASSUME NEW x \in Nfsd, NEW r \in Request, NF!Receive(x, r)
        PROVE  FALSE
      BY <1>1, <2>2 DEF NF!Receive, NF!NFSInv, NF!TypeOK
  <2>3. NF!CleanCache \/ (\E r \in Request : NF!Send(r) \/ NF!Lose(r))
        => nfs_pc' = nfs_pc
      BY DEF NF!CleanCache, NF!Send, NF!Lose
  <2> QED
      BY <1>1, <2>1, <2>2, <2>3 DEF NF!Next
<1> QED
    BY <1>1, <1>2, NFSHead DEF NF!EvictNull, NF!Full

\* nfsrv_cleancache()
LEMMA NFSClean ==
    ASSUME NF!NFSAssumption, NF!NFSInv, NF!TypeOK',
           desirednfsrvcache' = desirednfsrvcache,
           NF!CleanCache
    PROVE  NFSParts'
<1>1. NF!Cached' = {}
  <2>1. nfsrvlruhead' = <<>>
      BY DEF NF!CleanCache
  <2> QED
      BY <2>1 DEF NF!Cached, NF!ToSet
<1>2. NF!Inserting' = NF!Inserting /\ NF!Evicting' = NF!Evicting
    BY NFSShape
    DEF NF!NFSInv, NF!TypeOK, NF!Inserting, NF!Evicting, NF!CleanCache
<1>3. NF!HeldInv'
    BY <1>1, NFSShape
    DEF NF!NFSInv, NF!TypeOK, NF!HeldInv, NF!Holding, NF!CleanCache
<1>8. NF!LockInv'
    BY NFSShape
    DEF NF!NFSInv, NF!TypeOK, NF!HeldInv, NF!LockInv, NF!Holding,
        NF!CleanCache
<1>4. NF!ListInv'
    BY <1>1, NFSShape
    DEF NF!NFSInv, NF!TypeOK, NF!HeldInv, NF!ListInv, NF!Holding,
        NF!CleanCache
<1>5. NF!ReplyInv'
    BY <1>1, NFSShape
    DEF NF!NFSInv, NF!TypeOK, NF!HeldInv, NF!ReplyInv, NF!Holding,
        NF!CleanCache
<1>6. NF!CountInv'
  <2>1. Cardinality(NF!Inserting') = Cardinality(NF!Inserting)
      BY <1>2
  <2>2. NF!Evicting = {} /\ NF!Inserting = {} /\ Len(nfsrvlruhead') = 0
      BY DEF NF!CleanCache, NF!Evicting, NF!Inserting
  <2>3. Cardinality({}) = 0
      BY FS_EmptySet
  <2> QED
      BY <1>2, <2>2, <2>3, NFSShape, NFSSets
      DEF NF!CountInv, NF!Enough, NF!CleanCache, NF!NFSAssumption
<1>7. NF!ClaimInv'
    BY <1>1, NFSShape
    DEF NF!NFSInv, NF!TypeOK, NF!HeldInv, NF!ClaimInv, NF!Holding,
        NF!CleanCache
<1> QED
    BY <1>3, <1>4, <1>5, <1>6, <1>7, <1>8 DEF NFSParts

LEMMA NFSStep ==
    ASSUME NF!NFSAssumption, NF!NFSInv, [NF!Next]_(NF!vars)
    PROVE  NF!NFSInv'
<1>1. CASE NF!Next
  <2>0. NF!TypeOK' /\ desirednfsrvcache' = desirednfsrvcache
      BY <1>1, NFSTypes DEF NF!Next
  <2>1. ASSUME NEW r \in Request, NF!Send(r) \/ NF!Lose(r)
        PROVE  NFSParts'
      BY <2>0, <2>1, NFSQuiet DEF NF!Send, NF!Lose, NF!entries
  <2>2. ASSUME NEW d \in Nfsd, NF!LookupFound(d)
        PROVE  NFSParts'
    <3>1. PICK e \in NF!Found(nd[d]) :
             \/ NF!Sleep(d, e, "Lookup")
             \/ /\ NF!Lock(d, e, "Found")
                /\ UNCHANGED <<nfsrvlruhead, numnfsrvcache, rc_req, rc_state,
                               rc_reply, nd, mreq, claimed>>
        BY <2>2 DEF NF!LookupFound
    <3>2. CASE NF!Sleep(d, e, "Lookup")
      <4>1. nfs_pc' = nfs_pc
          BY <2>2, <3>2 DEF NF!LookupFound, NF!Sleep, NF!NFSInv, NF!TypeOK
      <4> QED
          BY <2>0, <3>2, <4>1, NFSQuiet DEF NF!Sleep, NF!entries
    <3> QED
        BY <2>0, <2>2, <3>1, <3>2, NFSLocked DEF NF!LookupFound
  <2>3. ASSUME NEW d \in Nfsd, NF!UpdateFound(d)
        PROVE  NFSParts'
    <3>1. PICK e \in NF!Found(nd[d]) :
             \/ NF!Sleep(d, e, "Update")
             \/ /\ NF!Lock(d, e, "Save")
                /\ UNCHANGED <<nfsrvlruhead, numnfsrvcache, rc_req, rc_state,
                               rc_reply, nd, mreq, claimed>>
        BY <2>3 DEF NF!UpdateFound
    <3>2. CASE NF!Sleep(d, e, "Update")
      <4>1. nfs_pc' = nfs_pc
          BY <2>3, <3>2 DEF NF!UpdateFound, NF!Sleep, NF!NFSInv, NF!TypeOK
      <4> QED
          BY <2>0, <3>2, <4>1, NFSQuiet DEF NF!Sleep, NF!entries
    <3> QED
        BY <2>0, <2>3, <3>1, <3>2, NFSLocked DEF NF!UpdateFound
  <2>4. ASSUME NEW d \in Nfsd, NF!InsertDuplicate(d)
        PROVE  NFSParts'
    <3>1. PICK e \in NF!Found(nd[d]) :
             \/ NF!Sleep(d, e, "Duplicate")
             \/ /\ ~rc_locked[e]
                /\ numnfsrvcache' = numnfsrvcache - 1
                /\ rc_locked' = [rc_locked EXCEPT ![rp[d]] = FALSE, ![e] = TRUE]
                /\ rp' = [rp EXCEPT ![d] = e]
                /\ nfs_pc' = [nfs_pc EXCEPT ![d] = "Found"]
                /\ UNCHANGED <<nfsrvlruhead, rc_req, rc_state, rc_reply, nd,
                               mreq, claimed>>
        BY <2>4 DEF NF!InsertDuplicate
    <3>2. CASE NF!Sleep(d, e, "Duplicate")
      <4>1. nfs_pc' = nfs_pc
          BY <2>4, <3>2 DEF NF!InsertDuplicate, NF!Sleep, NF!NFSInv, NF!TypeOK
      <4> QED
          BY <2>0, <3>2, <4>1, NFSQuiet DEF NF!Sleep, NF!entries
    <3> QED
        BY <2>0, <2>4, <3>1, <3>2, NFSDuplicate DEF NF!InsertDuplicate
  <2>5. ASSUME NEW d \in Nfsd, NF!Evict(d)
        PROVE  NFSParts'
      BY <2>0, <2>5, NFSEvicted, NFSEvictWait, NFSEvictTake
  <2>6. ASSUME NEW d \in Nfsd,
               \/ NF!Unlock(d, "UnlockDrop", "Drop")
               \/ NF!Unlock(d, "UnlockReply", "Reply")
               \/ NF!Unlock(d, "UnlockDo", "Do")
        PROVE  NFSParts'
      BY <2>0, <2>6, NFSUnlock
  <2>7. NFSParts'
      BY <1>1, <2>0, <2>1, <2>2, <2>3, <2>4, <2>5, <2>6, NFSReceive,
          NFSLookupNew, NFSNull, NFSInsert, NFSLook, NFSToTail, NFSAnswer,
          NFSDo, NFSUpdateNone, NFSSave, NFSReply, NFSClean DEF NF!Next, NF!Step
  <2> QED
      BY <1>1, <2>0, <2>7, NFSNoFault DEF NFSParts, NF!NFSInv
<1>2. CASE UNCHANGED NF!vars
    BY <1>2 DEF NF!vars, NF!NFSInv, NF!TypeOK, NF!HeldInv, NF!LockInv,
        NF!ListInv, NF!ReplyInv, NF!CountInv, NF!Enough, NF!FaultInv,
        NF!ClaimInv, NF!Cached,
        NF!Inserting, NF!Evicting
<1> QED
    BY <1>1, <1>2

LEMMA NFSInit ==
    ASSUME NF!NFSAssumption, NF!Init
    PROVE  NF!NFSInv
<1>1. NF!TypeOK
    BY DEF NF!Init, NF!TypeOK, NF!Holding, NF!NFSAssumption
<1>2. nfsrvlruhead = <<>> /\ NF!Cached = {}
    BY DEF NF!Init, NF!Cached, NF!ToSet
<1>3. /\ NF!HeldInv /\ NF!LockInv /\ NF!ListInv /\ NF!ReplyInv /\ NF!ClaimInv
      /\ NF!FaultInv
    BY <1>2 DEF NF!Init, NF!HeldInv, NF!LockInv, NF!ListInv, NF!ReplyInv,
        NF!ClaimInv, NF!FaultInv, NF!Holding
<1>4. NF!CountInv
  <2>1. NF!Inserting = {} /\ NF!Evicting = {}
      BY DEF NF!Init, NF!Inserting, NF!Evicting
  <2>2. NF!Cardinality({}) = 0
      BY NFSSets, FS_EmptySet
  <2>3. desirednfsrvcache \in Nat
    <3>1. IsFiniteSet(CacheEntry) /\ CacheSizes \subseteq 0..Cardinality(CacheEntry)
        BY NFSSets DEF NF!NFSAssumption
    <3>2. Cardinality(CacheEntry) \in Nat
        BY <3>1, FS_CardinalityType
    <3> QED
        BY <3>1, <3>2 DEF NF!Init
  <2> QED
      BY <1>2, <2>1, <2>2, <2>3 DEF NF!Init, NF!CountInv
<1> QED
    BY <1>1, <1>3, <1>4 DEF NF!NFSInv

(***************************************************************************)
(* The inductive invariant of the request cache, of the behaviours of      *)
(* NFSReqCache, for any number of nfsds and requests, and any sizes of the *)
(* cache: smaller than the number of nfsds too.                            *)
(***************************************************************************)
THEOREM NFSInvariance ==
    ASSUME NF!NFSAssumption
    PROVE  NF!Spec => []NF!NFSInv
BY NFSInit, NFSStep, PTL DEF NF!Spec

\* What the invariant says of the entries.
LEMMA NFSInvCache ==
    ASSUME NF!NFSAssumption, NF!NFSInv
    PROVE  NF!CacheInv
<1>1. ASSUME NEW e \in CacheEntry
      PROVE  NF!Cardinality({d \in Nfsd : rp[d] = e /\ nfs_pc[d] \in NF!Holding})
                 = IF rc_locked[e] THEN 1 ELSE 0
  <2> DEFINE H == {d \in Nfsd : rp[d] = e /\ nfs_pc[d] \in NF!Holding}
  <2>1. CASE rc_locked[e]
    <3>1. PICK d \in Nfsd : H = {d}
        BY <2>1 DEF NF!NFSInv, NF!LockInv
    <3> HIDE DEF H
    <3> QED
        BY <2>1, <3>1, FS_Singleton, NFSSets DEF H
  <2>2. CASE ~rc_locked[e]
    <3>1. H = {}
        BY <2>2 DEF NF!NFSInv, NF!HeldInv
    <3> HIDE DEF H
    <3> QED
        BY <2>2, <3>1, FS_EmptySet, NFSSets DEF H
  <2> QED
      BY <2>1, <2>2
<1>2. nfsrvlruhead \in Seq(CacheEntry) /\ Distinct(nfsrvlruhead)
    BY DEF NF!NFSInv, NF!TypeOK, NF!ListInv, Distinct
<1>3. IsFiniteSet(NF!Cached) /\ Cardinality(NF!Cached) = Len(nfsrvlruhead)
    BY <1>2, NFSLength DEF NF!Cached
<1>4. numnfsrvcache = Cardinality(NF!Cached \cup {e \in CacheEntry : rc_locked[e]})
  <2> DEFINE f == [d \in NF!Inserting |-> rp[d]]
             O == {rp[d] : d \in NF!Inserting}
  <2>1. f \in Bijection(NF!Inserting, O)
      BY DEF Bijection, Injection, Surjection, IsInjective, NF!Inserting,
          NF!NFSInv, NF!LockInv, NF!Holding
  <2>2. IsFiniteSet(O) /\ Cardinality(O) = Cardinality(NF!Inserting)
      BY <2>1, NFSShape, FS_Bijection DEF ExistsBijection
  <2>3. NF!Cached \cap O = {}
      BY DEF NF!Inserting, NF!NFSInv, NF!HeldInv, NF!Holding
  <2>4. NF!Cached \cup {e \in CacheEntry : rc_locked[e]} = NF!Cached \cup O
    <3>1. O \subseteq {e \in CacheEntry : rc_locked[e]}
        BY DEF NF!Inserting, NF!NFSInv, NF!HeldInv, NF!Holding
    <3>2. ASSUME NEW e \in CacheEntry, rc_locked[e]
          PROVE  e \in NF!Cached \cup O
      <4>1. PICK d \in Nfsd : nfs_pc[d] \in NF!Holding /\ rp[d] = e
          BY <3>2 DEF NF!NFSInv, NF!LockInv
      <4> QED
          BY <4>1 DEF NF!Inserting, NF!NFSInv, NF!HeldInv
    <3> QED
        BY <3>1, <3>2
  <2> HIDE DEF O
  <2>5. Cardinality(NF!Cached \cup O)
           = Cardinality(NF!Cached) + Cardinality(O) - Cardinality({})
      BY <1>3, <2>2, <2>3, FS_Union
  <2>6. Cardinality({}) = 0
      BY FS_EmptySet
  <2>7. Cardinality(NF!Cached \cup O) = numnfsrvcache
    <3>1. /\ Cardinality(NF!Inserting) \in Nat /\ Len(nfsrvlruhead) \in Nat
          /\ numnfsrvcache = Len(nfsrvlruhead) + Cardinality(NF!Inserting)
        BY NFSShape
    <3> QED
        BY <1>3, <2>2, <2>5, <2>6, <3>1
  <2> QED
      BY <2>4, <2>7, Zenon
<1>6. /\ numnfsrvcache = NF!Cardinality(NF!Cached \cup {e \in CacheEntry : rc_locked[e]})
      /\ Len(nfsrvlruhead) = NF!Cardinality(NF!Cached)
    BY <1>3, <1>4, NFSSets
<1> QED
    BY <1>1, <1>6
    DEF NF!NFSInv, NF!CacheInv, NF!ListInv, NF!ReplyInv, NF!CountInv, NF!FaultInv

\* Who goes on to do a request has put the entry for it on the list, or found
\* it there with neither a reply nor anybody at work.
LEMMA NFSTakesUpNew ==
    ASSUME NF!NFSAssumption, NF!NFSInv, NF!Next
    PROVE  NF!TakesUpNew
<1> SUFFICES ASSUME NEW d \in Nfsd, nd[d] \in NonIdempotent, nd[d] \in Inet,
                    nfs_pc[d] \in {"Duplicate", "Answer"},
                    nfs_pc'[d] \in {"Do", "UnlockDo"}, nd[d] \in claimed
             PROVE  FALSE
    BY DEF NF!TakesUpNew
<1>1. NF!Insert(d) \/ NF!Answer(d)
  <2>1. ASSUME NEW x \in Nfsd, NF!Step(x), x # d
        PROVE  nfs_pc'[d] = nfs_pc[d]
      BY <2>1 DEF NF!NFSInv, NF!TypeOK, NF!Step, NF!LookupFound, NF!LookupNew,
          NF!Evict, NF!EvictNull, NF!Insert, NF!InsertDuplicate,
          NF!Look, NF!ToTail, NF!Answer,
          NF!Unlock, NF!Do, NF!UpdateFound, NF!UpdateNone, NF!Save, NF!Reply,
          NF!Sleep, NF!Lock
  <2>2. ASSUME NF!Step(d)
        PROVE  NF!Insert(d) \/ NF!Answer(d)
      BY <2>2 DEF NF!NFSInv, NF!TypeOK, NF!Step, NF!LookupFound, NF!LookupNew,
          NF!Evict, NF!EvictNull, NF!InsertDuplicate, NF!Look, NF!ToTail,
          NF!Unlock, NF!Do,
          NF!UpdateFound, NF!UpdateNone, NF!Save, NF!Reply, NF!Sleep, NF!Lock
  <2>3. ASSUME NEW x \in Nfsd, NEW r \in Request, NF!Receive(x, r)
        PROVE  nfs_pc'[d] \in {nfs_pc[d], "Lookup"}
      BY <2>3 DEF NF!Receive, NF!NFSInv, NF!TypeOK
  <2>4. NF!CleanCache \/ (\E r \in Request : NF!Send(r) \/ NF!Lose(r))
        => nfs_pc' = nfs_pc
      BY DEF NF!CleanCache, NF!Send, NF!Lose
  <2> QED
      BY <2>1, <2>2, <2>3, <2>4 DEF NF!Next
<1>2. nd[d] \in Request
    BY DEF NF!NFSInv, NF!HeldInv
<1>3. PICK e \in NF!Cached : /\ rc_req[e] = nd[d]
                             /\ rc_state[e] = "INPROG" \/ rc_reply[e] # None
    BY <1>2 DEF NF!NFSInv, NF!ClaimInv
<1>4. CASE NF!Insert(d)
    BY <1>2, <1>3, <1>4 DEF NF!Insert, NF!Found
<1>5. CASE NF!Answer(d)
  <2>1. rp[d] = e
    <3>1. rp[d] \in NF!Cached /\ rc_req[rp[d]] = nd[d]
        BY <1>5 DEF NF!Answer, NF!NFSInv, NF!HeldInv, NF!Holding
    <3> QED
        BY <1>2, <1>3, <3>1 DEF NF!NFSInv, NF!ListInv
  <2> QED
      BY <1>3, <1>5, <2>1 DEF NF!Answer, NF!NFSInv, NF!TypeOK
<1> QED
    BY <1>1, <1>4, <1>5

(***************************************************************************)
(* The cache of nfs_srvcache.c, for any number of nfsds and requests and   *)
(* any sizes of the cache: a locked entry is held by one nfsd, each entry  *)
(* is counted, one that is on the list and that can be found (AF_INET) is  *)
(* for a request that no other is for, and the reply that an nfsd is about *)
(* to send is one to its own request.  Who is to reuse the entry at the    *)
(* head of the list finds one if there are no more nfsds than entries,     *)
(* which the code does not see to: without that the theorem says nothing   *)
(* of a NULL TAILQ_FIRST.  And a request from an AF_INET address that is   *)
(* not idempotent is not given to an nfsd to do while another does it, or  *)
(* after it has been done, as long as its entry is in the cache.           *)
(***************************************************************************)
THEOREM NFSCacheIsSafe == PartsSpec => NFSCacheSafe
<1> DEFINE Inv == part = "nfs" => NF!NFSInv
<1>1. PartsInit => Inv
    BY PartsAssumption, NFSInit DEF PartsInit
<1>2. ASSUME [PartsNext]_partsvars, part = "nfs"
      PROVE  [NF!Next]_(NF!vars) /\ part' = part
    BY <1>2 DEF PartsNext, partsvars, NFSReqCacheVars, NF!vars
<1>3. Inv /\ [PartsNext]_partsvars => Inv'
  <2> SUFFICES ASSUME Inv, [PartsNext]_partsvars, part' = "nfs"
               PROVE  NF!NFSInv'
      OBVIOUS
  <2>1. part = "nfs"
      BY DEF PartsNext, partsvars
  <2> QED
      BY <2>1, <1>2, PartsAssumption, NFSStep
<1>4. Inv => (part = "nfs" => NF!CacheInv)
    BY PartsAssumption, NFSInvCache
<1>5. (part = "nfs" => NF!CacheInv)' /\ [PartsNext]_partsvars
      => [part = "nfs" => NF!CacheInv']_partsvars
    BY <1>2
<1>6. Inv /\ [PartsNext]_partsvars => [part = "nfs" => [NF!TakesUpNew]_(NF!vars)]_partsvars
    BY <1>2, PartsAssumption, NFSTakesUpNew
<1> QED
    BY <1>1, <1>3, <1>4, <1>5, <1>6, PTL DEF PartsSpec, NFSCacheSafe
=============================================================================
