---------------------------- MODULE FSTransProofs ----------------------------
(***************************************************************************)
(* Proofs about file system transactions and suspension, for any sets of   *)
(* LWPs and file systems and any depth of nesting.                         *)
(***************************************************************************)
EXTENDS FSTrans, FiniteSetTheorems, WellFoundedInduction, TLAPS

(***************************************************************************)
(* File system transactions.  The argument: whatever becomes of the        *)
(* records, the list of an LWP says the same of every file system but the  *)
(* one it is about; what it says of that one, the stack of what the LWP is *)
(* in and the readers of the locks change together; and the locks that a   *)
(* suspension has for writing keep new readers out.                        *)
(***************************************************************************)

\* Every set of natural numbers has a least element.
LEMMA TransFirst ==
    ASSUME NEW I, I \subseteq Nat, I # {}
    PROVE  First(I) \in I
<1> DEFINE R == {ss \in Nat \X Nat : ss[1] < ss[2]}
<1>1. IsWellFoundedOn(R, Nat)
    BY NatLessThanWellFounded DEF OpToRel
<1> HIDE DEF R
<1>2. \E x \in I : \A y \in I : ~(<<y, x>> \in R)
    BY <1>1, WFMin
<1>3. \E x \in I : \A y \in I : x <= y
  <2>1. PICK x \in I : \A y \in I : ~(<<y, x>> \in R)
      BY <1>2
  <2>2. ASSUME NEW y \in I
        PROVE  x <= y
    <3>1. x \in Nat /\ y \in Nat
        OBVIOUS
    <3>2. ~(y < x)
        BY <2>1, <3>1 DEF R
    <3> QED
        BY <3>1, <3>2
  <2> QED
      BY <2>2
<1> QED
    BY <1>3 DEF First

-----------------------------------------------------------------------------
(* The list of an LWP *)

Good(list) ==
    /\ list \in Seq(Record)
    /\ \A i, j \in DOMAIN list : list[i].mount = list[j].mount => i = j
    /\ \A i \in DOMAIN list : list[i].trans = 0 <=> list[i].type = None

\* The list says r of the file system x.
Says(list, x, r) ==
    \/ r = NewEntry(x) /\ \A i \in DOMAIN list : list[i].mount # x
    \/ \E i \in DOMAIN list : list[i].mount = x /\ r = list[i]

RecOf(list, x) ==
    IF {i \in DOMAIN list : list[i].mount = x} = {} THEN NewEntry(x)
    ELSE list[First({i \in DOMAIN list : list[i].mount = x})]

LEMMA TransSays ==
    ASSUME NEW list, Good(list), NEW x
    PROVE  /\ Says(list, x, RecOf(list, x))
           /\ \A r : Says(list, x, r) => r = RecOf(list, x)
           /\ \A i \in DOMAIN list :
                 list[i].mount = x
                 => First({j \in DOMAIN list : list[j].mount = x}) = i
<1> DEFINE I == {i \in DOMAIN list : list[i].mount = x}
<1>1. I \subseteq Nat
    BY DEF Good
<1>2. I # {} => First(I) \in I
    BY <1>1, TransFirst
<1>3. \A i, j \in I : i = j
    BY DEF Good
<1>4. \A i \in I : First(I) = i
    BY <1>2, <1>3
<1>5. Says(list, x, RecOf(list, x))
    BY <1>2 DEF Says, RecOf
<1>6. \A r : Says(list, x, r) => r = RecOf(list, x)
    BY <1>4 DEF Says, RecOf
<1> QED
    BY <1>4, <1>5, <1>6

\* What a list says is a record of the file system.
LEMMA TransRecord ==
    ASSUME NEW list, Good(list), NEW x \in Mount
    PROVE  /\ RecOf(list, x) \in Record
           /\ RecOf(list, x).mount = x
           /\ RecOf(list, x).trans = 0 <=> RecOf(list, x).type = None
<1>1. Says(list, x, RecOf(list, x))
    BY TransSays
<1>2. CASE RecOf(list, x) = NewEntry(x)
    BY <1>2 DEF NewEntry, Record
<1>3. ASSUME NEW i \in DOMAIN list, list[i].mount = x, RecOf(list, x) = list[i]
      PROVE  /\ RecOf(list, x) \in Record
             /\ RecOf(list, x).mount = x
             /\ RecOf(list, x).trans = 0 <=> RecOf(list, x).type = None
    BY <1>3 DEF Good
<1> QED
    BY <1>1, <1>2, <1>3 DEF Says

\* A record is changed.
LEMMA TransChange ==
    ASSUME NEW list, Good(list), NEW k \in DOMAIN list, NEW e \in Record,
           e.mount = list[k].mount, e.trans = 0 <=> e.type = None
    PROVE  /\ Good([list EXCEPT ![k] = e])
           /\ RecOf([list EXCEPT ![k] = e], e.mount) = e
           /\ \A x : x # e.mount =>
                 RecOf([list EXCEPT ![k] = e], x) = RecOf(list, x)
<1> DEFINE new == [list EXCEPT ![k] = e]
<1>0. list \in Seq(Record)
    BY DEF Good
<1>1. /\ new \in Seq(Record) /\ DOMAIN new = DOMAIN list /\ new[k] = e
      /\ \A i \in DOMAIN list : i # k => new[i] = list[i]
    BY <1>0
<1>2. \A i \in DOMAIN list : new[i].mount = list[i].mount
    BY <1>1
<1> HIDE DEF new
<1>3. Good(new)
    BY <1>1, <1>2 DEF Good
<1>4. Says(new, e.mount, e)
    BY <1>1 DEF Says
<1>5. ASSUME NEW x, x # e.mount
      PROVE  RecOf(new, x) = RecOf(list, x)
  <2>1. Says(list, x, RecOf(list, x))
      BY TransSays
  <2>2. Says(new, x, RecOf(list, x))
      BY <1>1, <1>2, <1>5, <2>1 DEF Says
  <2> QED
      BY <1>3, <2>2, TransSays
<1> QED
    BY <1>3, <1>4, <1>5, TransSays DEF new

\* A record that is not in use is taken over.
LEMMA TransReuse ==
    ASSUME NEW list, Good(list), NEW k \in DOMAIN list,
           list[k].trans = 0, list[k].cow = 0, NEW m \in Mount,
           \A i \in DOMAIN list : list[i].mount # m
    PROVE  /\ Good([list EXCEPT ![k].mount = m])
           /\ \A x \in Mount :
                 RecOf([list EXCEPT ![k].mount = m], x) = RecOf(list, x)
           /\ k \in DOMAIN [list EXCEPT ![k].mount = m]
           /\ [list EXCEPT ![k].mount = m][k].mount = m
<1> DEFINE r == [list[k] EXCEPT !.mount = m]
           new == [list EXCEPT ![k].mount = m]
<1>0. list \in Seq(Record) /\ list[k] \in Record
    BY DEF Good
<1>a. r \in Record
    BY <1>0 DEF Record
<1>b. new = [list EXCEPT ![k] = r]
    OBVIOUS
<1> HIDE DEF r, new
<1>1. /\ new \in Seq(Record) /\ DOMAIN new = DOMAIN list /\ new[k] = r
      /\ \A i \in DOMAIN list : i # k => new[i] = list[i]
    BY <1>0, <1>a, <1>b
<1>2. list[k].type = None
    BY DEF Good
<1>3. new[k] = NewEntry(m) /\ list[k] = NewEntry(list[k].mount)
    BY <1>0, <1>1, <1>2 DEF Record, NewEntry, r
<1>4. new[k].mount = m /\ new[k].trans = 0 /\ new[k].type = None
    BY <1>3 DEF NewEntry
<1>5. Good(new)
  <2>1. ASSUME NEW i \in DOMAIN new, NEW j \in DOMAIN new,
               new[i].mount = new[j].mount
        PROVE  i = j
    <3>1. CASE i = k \/ j = k
        BY <1>1, <1>4, <2>1, <3>1
    <3>2. CASE i # k /\ j # k
        BY <1>1, <2>1, <3>2 DEF Good
    <3> QED
        BY <3>1, <3>2
  <2>2. ASSUME NEW i \in DOMAIN new
        PROVE  new[i].trans = 0 <=> new[i].type = None
    <3>1. CASE i = k
        BY <1>4, <3>1
    <3>2. CASE i # k
        BY <1>1, <3>2 DEF Good
    <3> QED
        BY <3>1, <3>2
  <2> QED
      BY <1>1, <2>1, <2>2 DEF Good
<1>6. ASSUME NEW x \in Mount
      PROVE  RecOf(new, x) = RecOf(list, x)
  <2>1. Says(list, x, RecOf(list, x))
      BY TransSays
  <2>2. Says(new, x, RecOf(list, x))
    <3>1. CASE x = m
        BY <1>1, <1>3, <1>4, <2>1, <3>1 DEF Says
    <3>2. CASE x = list[k].mount /\ x # m
      <4>1. RecOf(list, x) = NewEntry(x)
          BY <1>3, <3>2, TransSays DEF Says
      <4>2. \A i \in DOMAIN new : new[i].mount # x
          BY <1>1, <1>4, <3>2 DEF Good
      <4> QED
          BY <4>1, <4>2 DEF Says
    <3>3. CASE x # list[k].mount /\ x # m
      <4>1. CASE \E i \in DOMAIN list : list[i].mount = x /\ RecOf(list, x) = list[i]
        <5>1. PICK i \in DOMAIN list : list[i].mount = x /\ RecOf(list, x) = list[i]
            BY <4>1
        <5>2. i \in DOMAIN new /\ new[i] = list[i]
            BY <1>1, <3>3, <5>1
        <5> QED
            BY <5>1, <5>2 DEF Says
      <4>2. CASE \A i \in DOMAIN list : list[i].mount # x
        <5>1. \A i \in DOMAIN new : new[i].mount # x
            BY <1>1, <1>4, <3>3, <4>2
        <5> QED
            BY <2>1, <4>2, <5>1 DEF Says
      <4> QED
          BY <2>1, <4>1, <4>2 DEF Says
    <3> QED
        BY <3>1, <3>2, <3>3
  <2> QED
      BY <1>5, <2>2, TransSays
<1> QED
    BY <1>1, <1>4, <1>5, <1>6 DEF new

\* A record is added.
LEMMA TransAdd ==
    ASSUME NEW list, Good(list), NEW m \in Mount,
           \A i \in DOMAIN list : list[i].mount # m
    PROVE  /\ Good(<<NewEntry(m)>> \o list)
           /\ \A x : RecOf(<<NewEntry(m)>> \o list, x) = RecOf(list, x)
           /\ 1 \in DOMAIN (<<NewEntry(m)>> \o list)
           /\ (<<NewEntry(m)>> \o list)[1].mount = m
<1> DEFINE e == NewEntry(m)
           new == <<e>> \o list
<1>0. list \in Seq(Record) /\ Len(list) \in Nat /\ DOMAIN list = 1..Len(list)
    BY DEF Good
<1>1. /\ e \in Record /\ e.mount = m /\ e.trans = 0 /\ e.type = None
    BY DEF NewEntry, Record
<1> HIDE DEF e
<1>2. /\ new \in Seq(Record) /\ Len(new) = Len(list) + 1
      /\ new[1] = e
      /\ \A i \in 1..Len(list) : new[i + 1] = list[i]
    BY <1>0, <1>1
<1>3. DOMAIN new = 1..(Len(list) + 1)
    BY <1>2
<1> HIDE DEF new
<1>4. \A i \in DOMAIN new : i = 1 \/ (i - 1 \in DOMAIN list /\ new[i] = list[i - 1])
  <2>1. ASSUME NEW i \in DOMAIN new, i # 1
        PROVE  i - 1 \in DOMAIN list /\ new[i] = list[i - 1]
    <3>1. i - 1 \in 1..Len(list) /\ (i - 1) + 1 = i
        BY <1>0, <1>3, <2>1
    <3> QED
        BY <1>0, <1>2, <3>1
  <2> QED
      BY <2>1
<1>5. Good(new)
  <2>1. ASSUME NEW i \in DOMAIN new, NEW j \in DOMAIN new,
               new[i].mount = new[j].mount
        PROVE  i = j
    <3>1. CASE i = 1 \/ j = 1
        BY <1>1, <1>2, <1>4, <2>1, <3>1
    <3>2. CASE i # 1 /\ j # 1
      <4>1. i - 1 = j - 1
          BY <1>4, <2>1, <3>2 DEF Good
      <4> QED
          BY <1>0, <1>3, <4>1
    <3> QED
        BY <3>1, <3>2
  <2>2. \A i \in DOMAIN new : new[i].trans = 0 <=> new[i].type = None
      BY <1>1, <1>2, <1>4 DEF Good
  <2> QED
      BY <1>2, <2>1, <2>2 DEF Good
<1>6. ASSUME NEW x
      PROVE  RecOf(new, x) = RecOf(list, x)
  <2>1. Says(list, x, RecOf(list, x))
      BY TransSays
  <2>2. Says(new, x, RecOf(list, x))
    <3>1. CASE x = m
      <4>1. RecOf(list, x) = e
          BY <2>1, <3>1 DEF Says, e
      <4>2. 1 \in DOMAIN new
          BY <1>0, <1>3
      <4> QED
          BY <1>1, <1>2, <3>1, <4>1, <4>2 DEF Says
    <3>2. CASE /\ x # m
               /\ \E i \in DOMAIN list :
                     list[i].mount = x /\ RecOf(list, x) = list[i]
      <4>1. PICK i \in 1..Len(list) : list[i].mount = x /\ RecOf(list, x) = list[i]
          BY <1>0, <3>2
      <4>2. i + 1 \in DOMAIN new /\ new[i + 1] = list[i]
          BY <1>0, <1>2, <1>3
      <4> QED
          BY <4>1, <4>2 DEF Says
    <3>3. CASE x # m /\ \A i \in DOMAIN list : list[i].mount # x
      <4>1. RecOf(list, x) = NewEntry(x)
          BY <2>1, <3>3 DEF Says
      <4>2. \A i \in DOMAIN new : new[i].mount # x
          BY <1>1, <1>2, <1>4, <3>3
      <4> QED
          BY <4>1, <4>2 DEF Says
    <3> QED
        BY <2>1, <3>1, <3>2, <3>3 DEF Says
  <2> QED
      BY <1>5, <2>2, TransSays
<1>7. 1 \in DOMAIN new
    BY <1>0, <1>3
<1> QED
    BY <1>1, <1>2, <1>5, <1>6, <1>7 DEF new, e

\* What the list of an LWP says of a file system is in Rec.
LEMMA TransRec ==
    ASSUME TypeOK, ListInv, NEW l \in LWP
    PROVE  /\ Good(fli[l])
           /\ \A m : Rec(l, m) = RecOf(fli[l], m)
           /\ \A m \in Mount : /\ Rec(l, m) \in Record
                               /\ Rec(l, m).mount = m
                               /\ Rec(l, m).trans = 0 <=> Rec(l, m).type = None
<1>1. Good(fli[l])
    BY DEF Good, TypeOK, ListInv
<1>2. \A m : Rec(l, m) = RecOf(fli[l], m)
    BY DEF Rec, Entries, RecOf
<1> QED
    BY <1>1, <1>2, TransRecord

\* fstrans_get_lwp_info(): the list says the same as before, and has a record
\* for the file system.
LEMMA TransWith ==
    ASSUME TypeOK, ListInv,
           NEW l \in LWP, NEW m \in Mount
    PROVE  /\ Good(WithEntry(l, m))
           /\ \A x \in Mount : RecOf(WithEntry(l, m), x) = Rec(l, x)
           /\ At(WithEntry(l, m), m) \in DOMAIN WithEntry(l, m)
           /\ WithEntry(l, m)[At(WithEntry(l, m), m)] = Rec(l, m)
<1> DEFINE list == WithEntry(l, m)
<1>1. Good(fli[l]) /\ \A x : Rec(l, x) = RecOf(fli[l], x)
    BY TransRec
<1>2. /\ Good(list)
      /\ \A x \in Mount : RecOf(list, x) = RecOf(fli[l], x)
      /\ \E k \in DOMAIN list : list[k].mount = m
  <2>1. CASE Entries(l, m) # {}
    <3>1. list = fli[l]
        BY <2>1 DEF WithEntry
    <3> QED
        BY <1>1, <2>1, <3>1 DEF Entries
  <2>2. CASE Entries(l, m) = {} /\ Unused(l) # {}
    <3> DEFINE k == First(Unused(l))
    <3>1. list = [fli[l] EXCEPT ![k].mount = m]
        BY <2>2 DEF WithEntry
    <3>2. k \in Unused(l)
      <4>1. Unused(l) \subseteq Nat
          BY <1>1 DEF Unused, Good
      <4> QED
          BY <2>2, <4>1, TransFirst
    <3> HIDE DEF k
    <3>3. /\ k \in DOMAIN fli[l] /\ fli[l][k].trans = 0 /\ fli[l][k].cow = 0
          /\ \A i \in DOMAIN fli[l] : fli[l][i].mount # m
        BY <2>2, <3>2 DEF Unused, Entries
    <3>4. /\ Good([fli[l] EXCEPT ![k].mount = m])
          /\ \A x \in Mount :
                RecOf([fli[l] EXCEPT ![k].mount = m], x) = RecOf(fli[l], x)
          /\ k \in DOMAIN [fli[l] EXCEPT ![k].mount = m]
          /\ [fli[l] EXCEPT ![k].mount = m][k].mount = m
        BY <1>1, <3>3, TransReuse
    <3> QED
        BY <3>1, <3>4, Zenon
  <2>3. CASE Entries(l, m) = {} /\ Unused(l) = {}
    <3>1. list = <<NewEntry(m)>> \o fli[l]
        BY <2>3 DEF WithEntry
    <3>2. \A i \in DOMAIN fli[l] : fli[l][i].mount # m
        BY <2>3 DEF Entries
    <3>3. /\ Good(<<NewEntry(m)>> \o fli[l])
          /\ \A x : RecOf(<<NewEntry(m)>> \o fli[l], x) = RecOf(fli[l], x)
          /\ 1 \in DOMAIN (<<NewEntry(m)>> \o fli[l])
          /\ (<<NewEntry(m)>> \o fli[l])[1].mount = m
        BY <1>1, <3>2, TransAdd
    <3> QED
        BY <3>1, <3>3, Zenon
  <2> QED
      BY <2>1, <2>2, <2>3
<1> HIDE DEF list
<1>3. PICK k \in DOMAIN list : list[k].mount = m
    BY <1>2
<1>4. At(list, m) = k
    BY <1>2, <1>3, TransSays DEF At
<1>5. list[k] = RecOf(list, m)
    BY <1>2, <1>3, TransSays DEF Says
<1> QED
    BY <1>1, <1>2, <1>3, <1>4, <1>5 DEF list

LEMMA TransEntry ==
    ASSUME TypeOK, ListInv,
           NEW l \in LWP, NEW m \in Mount
    PROVE  Info(l, m) = Rec(l, m)
BY TransWith DEF Info

\* A step that gives a record the value e.
LEMMA TransSet ==
    ASSUME TypeOK, ListInv,
           NEW l \in LWP, NEW m \in Mount, NEW e \in Record,
           e.mount = m, e.trans = 0 <=> e.type = None,
           SetEntry(l, m, e)
    PROVE  /\ fli' \in [LWP -> Seq(Record)]
           /\ ListInv'
           /\ \A k \in LWP, x \in Mount :
                 Rec(k, x)' = IF k = l /\ x = m THEN e ELSE Rec(k, x)
<1> DEFINE list == WithEntry(l, m)
           pos == At(list, m)
           new == [list EXCEPT ![pos] = e]
<1>1. /\ Good(list) /\ pos \in DOMAIN list /\ list[pos].mount = m
      /\ \A x \in Mount : RecOf(list, x) = Rec(l, x)
    BY TransWith, TransRec
<1>2. fli' = [fli EXCEPT ![l] = new]
    BY DEF SetEntry
<1> HIDE DEF list, pos
<1>3. /\ Good(new) /\ RecOf(new, m) = e
      /\ \A x \in Mount : x # m => RecOf(new, x) = Rec(l, x)
  <2>1. e.mount = list[pos].mount
      BY <1>1
  <2>2. /\ Good(new) /\ RecOf(new, e.mount) = e
        /\ \A x : x # e.mount => RecOf(new, x) = RecOf(list, x)
      BY <1>1, <2>1, TransChange
  <2> HIDE DEF new
  <2> QED
      BY <1>1, <2>2
<1> HIDE DEF new
<1>4. fli \in [LWP -> Seq(Record)]
    BY DEF TypeOK
<1>5. fli'[l] = new /\ \A k \in LWP : k # l => fli'[k] = fli[k]
    BY <1>2, <1>4
<1>6. \A k \in LWP : Good(fli'[k])
    BY <1>3, <1>5, TransRec
<1>7. fli' \in [LWP -> Seq(Record)]
    BY <1>2, <1>3, <1>4 DEF Good
<1>8. ListInv'
    BY <1>6 DEF ListInv, Good
<1>9. ASSUME NEW k \in LWP, NEW x \in Mount
      PROVE  Rec(k, x)' = IF k = l /\ x = m THEN e ELSE Rec(k, x)
  <2>1. Rec(k, x)' = RecOf(fli'[k], x)
      BY DEF Rec, Entries, RecOf
  <2> QED
      BY <1>3, <1>5, <2>1, TransRec
<1> QED
    BY <1>7, <1>8, <1>9

\* A step that leaves the lists alone.
LEMMA TransSame ==
    ASSUME TypeOK, ListInv, UNCHANGED fli
    PROVE  /\ fli' \in [LWP -> Seq(Record)]
           /\ ListInv'
           /\ \A k \in LWP, x \in Mount : Rec(k, x)' = Rec(k, x)
BY DEF TypeOK, ListInv, Rec, Entries

-----------------------------------------------------------------------------
(* What an LWP is in *)

CountOf(s, v) == Cardinality({i \in DOMAIN s : s[i] = v})

LEMMA TransNat ==
    ASSUME NEW S, NEW s \in Seq(S), NEW v
    PROVE  /\ IsFiniteSet({i \in DOMAIN s : s[i] = v})
           /\ CountOf(s, v) \in Nat
<1> DEFINE A == {i \in DOMAIN s : s[i] = v}
<1>1. A \in SUBSET (1..Len(s)) /\ IsFiniteSet(1..Len(s))
    BY FS_Interval
<1>2. IsFiniteSet(A)
    BY <1>1, FS_Subset
<1> QED
    BY <1>2, FS_CardinalityType DEF CountOf

LEMMA TransCount ==
    ASSUME NEW S, NEW s \in Seq(S), NEW x \in S, NEW v
    PROVE  /\ CountOf(s, v) \in Nat
           /\ CountOf(<<x>> \o s, v) = CountOf(s, v) + IF x = v THEN 1 ELSE 0
<1> DEFINE t == <<x>> \o s
           A == {i \in DOMAIN s : s[i] = v}
           B == {i \in DOMAIN t : t[i] = v}
           f == [i \in A |-> i + 1]
<1>1. Len(s) \in Nat /\ DOMAIN s = 1..Len(s)
    OBVIOUS
<1>2. /\ t \in Seq(S) /\ Len(t) = Len(s) + 1 /\ t[1] = x
      /\ \A i \in 1..Len(s) : t[i + 1] = s[i]
    BY <1>1
<1>3. DOMAIN t = 1..(Len(s) + 1)
    BY <1>2
<1> HIDE DEF t
<1>4. IsFiniteSet(A) /\ Cardinality(A) \in Nat
    BY TransNat, FS_CardinalityType
<1>5. f \in Bijection(A, B \ {1})
  <2>1. ASSUME NEW i \in A
        PROVE  i + 1 \in B \ {1}
      BY <1>1, <1>2, <1>3
  <2>2. f \in Injection(A, B \ {1})
    <3>1. f \in [A -> B \ {1}]
        BY <2>1
    <3>2. \A i, j \in A : f[i] = f[j] => i = j
        BY <1>1
    <3> QED
        BY <3>1, <3>2 DEF Injection, IsInjective
  <2>3. ASSUME NEW j \in B \ {1}
        PROVE  \E i \in A : f[i] = j
    <3>1. j - 1 \in 1..Len(s) /\ (j - 1) + 1 = j
        BY <1>1, <1>3
    <3>2. j - 1 \in A
        BY <1>1, <1>2, <3>1
    <3> QED
        BY <3>1, <3>2
  <2> QED
      BY <2>2, <2>3 DEF Bijection, Surjection, Injection
<1>6. IsFiniteSet(B \ {1}) /\ Cardinality(B \ {1}) = Cardinality(A)
    BY <1>4, <1>5, FS_Bijection DEF ExistsBijection
<1>7. 1 \in B <=> x = v
    BY <1>1, <1>2, <1>3
<1>8. CASE x = v
  <2>1. B = (B \ {1}) \cup {1}
      BY <1>7, <1>8
  <2>2. Cardinality((B \ {1}) \cup {1}) = Cardinality(B \ {1}) + 1
      BY <1>6, FS_AddElement
  <2>3. Cardinality(B) = Cardinality(A) + 1
      BY <1>6, <2>1, <2>2
  <2> HIDE DEF A, B
  <2>4. CountOf(s, v) = Cardinality(A) /\ CountOf(t, v) = Cardinality(B)
      BY DEF CountOf, A, B
  <2> QED
      BY <1>4, <1>8, <2>3, <2>4 DEF t
<1>9. CASE x # v
  <2>1. B = B \ {1}
      BY <1>7, <1>9
  <2>2. Cardinality(B) = Cardinality(A)
      BY <1>6, <2>1
  <2> HIDE DEF A, B
  <2>3. CountOf(s, v) = Cardinality(A) /\ CountOf(t, v) = Cardinality(B)
      BY DEF CountOf, A, B
  <2> QED
      BY <1>4, <1>9, <2>2, <2>3 DEF t
<1> QED
    BY <1>8, <1>9

LEMMA TransNone ==
    ASSUME NEW v
    PROVE  CountOf(<<>>, v) = 0
<1>1. {i \in DOMAIN <<>> : <<>>[i] = v} = {}
    OBVIOUS
<1> QED
    BY <1>1, FS_EmptySet DEF CountOf

LEMMA TransCounts ==
    ASSUME TypeOK, NEW l \in LWP, NEW w, NEW m
    PROVE  /\ Count(l, w, m) = CountOf(stack[l], [what |-> w, mount |-> m])
           /\ Count(l, w, m) \in Nat
           /\ stack[l] = <<>> => Count(l, w, m) = 0
<1> DEFINE v == [what |-> w, mount |-> m]
<1>1. stack[l] \in Seq([what : {"trans", "run"}, mount : Mount])
    BY DEF TypeOK
<1>2. Count(l, w, m) = CountOf(stack[l], v)
    BY DEF Count, CountOf
<1>3. CountOf(stack[l], v) \in Nat
    BY <1>1, TransNat
<1> QED
    BY <1>2, <1>3, TransNone

LEMMA TransPush ==
    ASSUME TypeOK, NEW l \in LWP, NEW w \in {"trans", "run"}, NEW m \in Mount,
           Push(l, w, m)
    PROVE  /\ stack' \in [LWP -> Seq([what : {"trans", "run"}, mount : Mount])]
           /\ \A k \in LWP : k # l => stack'[k] = stack[k]
           /\ \A k \in LWP, u \in {"trans", "run"}, x \in Mount :
                 Count(k, u, x)' = Count(k, u, x)
                    + IF k = l /\ u = w /\ x = m THEN 1 ELSE 0
<1> DEFINE S == [what : {"trans", "run"}, mount : Mount]
           v == [what |-> w, mount |-> m]
<1>1. stack \in [LWP -> Seq(S)] /\ v \in S
    BY DEF TypeOK
<1>2. stack' = [stack EXCEPT ![l] = <<v>> \o @]
    BY DEF Push
<1>3. /\ stack'[l] = <<v>> \o stack[l]
      /\ \A k \in LWP : k # l => stack'[k] = stack[k]
    BY <1>1, <1>2
<1>4. stack' \in [LWP -> Seq(S)]
  <2> HIDE DEF v, S
  <2>1. <<v>> \o stack[l] \in Seq(S)
      BY <1>1
  <2> QED
      BY <1>1, <1>2, <2>1
<1>5. ASSUME NEW k \in LWP, NEW u \in {"trans", "run"}, NEW x \in Mount
      PROVE  Count(k, u, x)' = Count(k, u, x)
                 + IF k = l /\ u = w /\ x = m THEN 1 ELSE 0
  <2> DEFINE y == [what |-> u, mount |-> x]
  <2>1. Count(k, u, x)' = CountOf(stack'[k], y)
      BY DEF Count, CountOf
  <2>2. /\ Count(k, u, x) = CountOf(stack[k], y)
        /\ Count(k, u, x) \in Nat
      BY TransCounts
  <2>3. v = y <=> u = w /\ x = m
      OBVIOUS
  <2> HIDE DEF v, y, S
  <2>4. CountOf(<<v>> \o stack[l], y) = CountOf(stack[l], y) + IF v = y THEN 1 ELSE 0
      BY <1>1, TransCount
  <2>5. CASE k = l
      BY <1>3, <2>1, <2>2, <2>3, <2>4, <2>5
  <2>6. CASE k # l
      BY <1>3, <2>1, <2>2, <2>6
  <2> QED
      BY <2>5, <2>6
<1> QED
    BY <1>3, <1>4, <1>5

LEMMA TransPop ==
    ASSUME TypeOK, NEW l \in LWP, NEW w \in {"trans", "run"}, NEW m \in Mount,
           Top(l, w, m), Pop(l)
    PROVE  /\ stack' \in [LWP -> Seq([what : {"trans", "run"}, mount : Mount])]
           /\ \A k \in LWP : k # l => stack'[k] = stack[k]
           /\ \A k \in LWP, u \in {"trans", "run"}, x \in Mount :
                 /\ Count(k, u, x) = Count(k, u, x)'
                       + IF k = l /\ u = w /\ x = m THEN 1 ELSE 0
                 /\ Count(k, u, x)' \in Nat
<1> DEFINE S == [what : {"trans", "run"}, mount : Mount]
           v == [what |-> w, mount |-> m]
<1>1. stack \in [LWP -> Seq(S)] /\ stack[l] # <<>> /\ Head(stack[l]) = v
    BY DEF TypeOK, Top
<1>2. stack' = [stack EXCEPT ![l] = Tail(@)]
    BY DEF Pop
<1>3. v \in S
    OBVIOUS
<1> HIDE DEF v, S
<1>4. /\ stack'[l] = Tail(stack[l]) /\ Tail(stack[l]) \in Seq(S)
      /\ \A k \in LWP : k # l => stack'[k] = stack[k]
    BY <1>1, <1>2
<1>5. stack' \in [LWP -> Seq(S)]
    BY <1>1, <1>2, <1>4
<1>6. stack[l] = <<v>> \o Tail(stack[l])
  <2>1. stack[l] \in Seq(S)
      BY <1>1
  <2> QED
      BY <1>1, <2>1
<1>7. ASSUME NEW k \in LWP, NEW u \in {"trans", "run"}, NEW x \in Mount
      PROVE  /\ Count(k, u, x) = Count(k, u, x)'
                    + IF k = l /\ u = w /\ x = m THEN 1 ELSE 0
             /\ Count(k, u, x)' \in Nat
  <2> DEFINE y == [what |-> u, mount |-> x]
  <2>1. Count(k, u, x)' = CountOf(stack'[k], y)
      BY DEF Count, CountOf
  <2>2. /\ Count(k, u, x) = CountOf(stack[k], y)
        /\ Count(k, u, x) \in Nat
      BY TransCounts
  <2>3. v = y <=> u = w /\ x = m
      BY DEF v
  <2> HIDE DEF y
  <2>4. /\ CountOf(<<v>> \o Tail(stack[l]), y)
              = CountOf(Tail(stack[l]), y) + IF v = y THEN 1 ELSE 0
        /\ CountOf(Tail(stack[l]), y) \in Nat
    <3> DEFINE t == Tail(stack[l])
    <3>1. t \in Seq(S)
        BY <1>4
    <3> HIDE DEF t
    <3>2. /\ CountOf(t, y) \in Nat
          /\ CountOf(<<v>> \o t, y) = CountOf(t, y) + IF v = y THEN 1 ELSE 0
        BY <1>3, <3>1, TransCount
    <3> QED
        BY <3>2 DEF t
  <2>5. CASE k = l
      BY <1>4, <1>6, <2>1, <2>2, <2>3, <2>4, <2>5
  <2>6. CASE k # l
      BY <1>4, <2>1, <2>2, <2>6
  <2> QED
      BY <2>5, <2>6
<1> QED
    BY <1>4, <1>5, <1>7 DEF S

LEMMA TransStay ==
    ASSUME UNCHANGED stack
    PROVE  \A k, u, x : Count(k, u, x)' = Count(k, u, x)
BY DEF Count

-----------------------------------------------------------------------------
(* The locks *)

LEMMA TransUpdate ==
    ASSUME TypeOK, NEW m \in Mount, NEW k \in Locks, NEW r \in Held
    PROVE  /\ [rwl EXCEPT ![m][k] = r] \in [Mount -> [Locks -> Held]]
           /\ \A x \in Mount, j \in Locks :
                 [rwl EXCEPT ![m][k] = r][x][j] =
                    IF x = m /\ j = k THEN r ELSE rwl[x][j]
<1>1. rwl \in [Mount -> [Locks -> Held]]
    BY DEF TypeOK
<1>2. [rwl[m] EXCEPT ![k] = r] \in [Locks -> Held]
    BY <1>1
<1> QED
    BY <1>1, <1>2

-----------------------------------------------------------------------------
(* The steps *)

\* An LWP that runs does not wait, and does not ask for a lock.
LEMMA TransRunning ==
    ASSUME TypeOK, NEW l \in LWP, Running(l)
    PROVE  /\ wait[l] = Nothing /\ wait[l].what = "nothing"
           /\ ~(l = suspend /\ phase \in Busy)
BY DEF Running, Nothing

\* CountInv and ReaderInv for one LWP and one file system: r is the record,
\* t and c are the numbers of transactions and runs, w is what the LWP waits
\* for and h are the locks.
Counted(r, t, c, w, m) ==
    /\ r.trans = t + IF r.type = "EXCL" THEN 1 ELSE 0
    /\ r.cow = c + IF w.what = "run" /\ w.mount = m THEN 1 ELSE 0
    /\ w.what = "start" /\ w.mount = m => r.trans = 0

Reads(l, r, c, h) ==
    /\ l \in h.lazy.readers <=> r.type = "LAZY"
    /\ l \in h.shared.readers <=> r.type = "SHARED"
    /\ l = h.shared.writer <=> r.type = "EXCL"
    /\ l \in h.cow.readers <=> c > 0

SameFor(l, g, h) ==
    /\ l \in g.lazy.readers <=> l \in h.lazy.readers
    /\ l \in g.shared.readers <=> l \in h.shared.readers
    /\ l = g.shared.writer <=> l = h.shared.writer
    /\ l \in g.cow.readers <=> l \in h.cow.readers

\* A step about the LWP l and the file system m has to be looked at only for
\* these two.
Elsewhere(l, m) ==
    \A k \in LWP, x \in Mount :
        k # l \/ x # m => /\ Rec(k, x)' = Rec(k, x)
                          /\ Count(k, "trans", x)' = Count(k, "trans", x)
                          /\ Count(k, "run", x)' = Count(k, "run", x)
                          /\ SameFor(k, rwl'[x], rwl[x])

WaitsHere(l, m) ==
    /\ \A k \in LWP : k # l => wait'[k] = wait[k]
    /\ \/ wait'[l] = wait[l]
       \/ /\ wait[l].what \in {"run", "start"} => wait[l].mount = m
          /\ wait'[l].what \in {"run", "start"} => wait'[l].mount = m

LEMMA TransLocal ==
    ASSUME CountInv, ReaderInv, NEW l \in LWP, NEW m \in Mount,
           Elsewhere(l, m), WaitsHere(l, m),
           Counted(Rec(l, m)', Count(l, "trans", m)',
                   Count(l, "run", m)', wait'[l], m),
           Reads(l, Rec(l, m)', Count(l, "run", m)', rwl'[m])
    PROVE  CountInv' /\ ReaderInv'
<1>1. ASSUME NEW k \in LWP, NEW x \in Mount
      PROVE  /\ Counted(Rec(k, x)', Count(k, "trans", x)',
                        Count(k, "run", x)', wait'[k], x)
             /\ Reads(k, Rec(k, x)', Count(k, "run", x)', rwl'[x])
  <2>1. CASE k = l /\ x = m
      BY <2>1
  <2>2. CASE k # l \/ x # m
    <3>1. /\ Counted(Rec(k, x), Count(k, "trans", x),
                     Count(k, "run", x), wait[k], x)
          /\ Reads(k, Rec(k, x), Count(k, "run", x), rwl[x])
        BY DEF CountInv, ReaderInv, Counted, Reads
    <3>2. /\ Rec(k, x)' = Rec(k, x)
          /\ Count(k, "trans", x)' = Count(k, "trans", x)
          /\ Count(k, "run", x)' = Count(k, "run", x)
          /\ SameFor(k, rwl'[x], rwl[x])
        BY <2>2 DEF Elsewhere
    <3>3. Reads(k, Rec(k, x)', Count(k, "run", x)', rwl'[x])
        BY <3>1, <3>2 DEF Reads, SameFor
    <3>4. CASE k # l
        BY <3>1, <3>2, <3>3, <3>4 DEF WaitsHere
    <3>5. ASSUME k = l, x # m
          PROVE  Counted(Rec(k, x), Count(k, "trans", x),
                         Count(k, "run", x), wait'[k], x)
      <4>1. CASE wait'[l] = wait[l]
          BY <3>1, <3>5, <4>1
      <4>2. CASE wait'[l] # wait[l]
        <5>1. /\ ~(wait'[k].what \in {"run", "start"} /\ wait'[k].mount = x)
              /\ ~(wait[k].what \in {"run", "start"} /\ wait[k].mount = x)
            BY <3>5, <4>2 DEF WaitsHere
        <5> QED
            BY <3>1, <5>1 DEF Counted
      <4> QED
          BY <4>1, <4>2
    <3> QED
        BY <2>2, <3>2, <3>3, <3>4, <3>5
  <2> QED
      BY <2>1, <2>2
<1> QED
    BY <1>1 DEF CountInv, ReaderInv, Counted, Reads

\* A record with another count and type.
Fields(e, r, t, y) ==
    /\ e \in Record /\ e.mount = r.mount
    /\ e.trans = t /\ e.type = y /\ e.cow = r.cow

LEMMA TransFields ==
    ASSUME NEW r \in Record, NEW t \in Nat,
           NEW y \in {"LAZY", "SHARED", "EXCL", None}
    PROVE  Fields([r EXCEPT !.trans = t, !.type = y], r, t, y)
<1> DEFINE a == [r EXCEPT !.trans = t]
<1>1. a \in Record /\ a.mount = r.mount /\ a.trans = t /\ a.cow = r.cow
    BY DEF Record
<1>2. [r EXCEPT !.trans = t, !.type = y] = [a EXCEPT !.type = y]
    BY DEF Record
<1> HIDE DEF a
<1> QED
    BY <1>1, <1>2 DEF Record, Fields

LEMMA TransStartNested ==
    ASSUME FSTransInv, NEW l \in LWP, NEW m \in Mount,
           NEW type, StartNested(l, m, type)
    PROVE  FSTransInv'
<1> DEFINE r == Rec(l, m)
           e == [r EXCEPT !.trans = @ + 1]
<1>0. /\ TypeOK /\ ListInv /\ CountInv /\ ReaderInv
      /\ WriterInv /\ OwnerInv
    BY DEF FSTransInv
<1>2. /\ wait[l] = Nothing /\ wait[l].what = "nothing"
      /\ ~(l = suspend /\ phase \in Busy)
      /\ r.trans > 0
    BY <1>0, TransRunning, TransEntry DEF StartNested
<1>1. /\ r \in Record /\ r.mount = m /\ (r.trans = 0 <=> r.type = None)
      /\ r.trans \in Nat /\ r.cow \in Nat
    BY <1>0, TransRec DEF Record
<1>3. /\ e \in Record /\ e.mount = m /\ (e.trans = 0 <=> e.type = None)
      /\ e.trans = r.trans + 1 /\ e.type = r.type /\ e.cow = r.cow
    BY <1>0, <1>1, <1>2, FSTransAssumption DEF Record
<1>4. SetEntry(l, m, e)
    BY <1>0, TransEntry DEF StartNested
<1> HIDE DEF e
<1>5. /\ fli' \in [LWP -> Seq(Record)]
      /\ ListInv'
      /\ \A k \in LWP, x \in Mount :
            Rec(k, x)' = IF k = l /\ x = m THEN e ELSE Rec(k, x)
    BY <1>0, <1>3, <1>4, TransSet
<1>6. /\ stack' \in [LWP -> Seq([what : {"trans", "run"}, mount : Mount])]
      /\ \A k \in LWP : k # l => stack'[k] = stack[k]
      /\ \A k \in LWP, u \in {"trans", "run"}, x \in Mount :
            Count(k, u, x)' = Count(k, u, x)
                + IF k = l /\ u = "trans" /\ x = m THEN 1 ELSE 0
    BY ZenonT(60), <1>0, TransPush DEF StartNested
<1>7. UNCHANGED <<rwl, state, handlers, running, suspend, phase, smount, wait>>
    BY DEF StartNested, fmivars, suspendvars
<1>8. \A k \in LWP, x \in Mount, u \in {"trans", "run"} : Count(k, u, x) \in Nat
    BY <1>0, TransCounts
<1>9. /\ Counted(r, Count(l, "trans", m), Count(l, "run", m), wait[l], m)
      /\ Reads(l, r, Count(l, "run", m), rwl[m])
    BY <1>0 DEF CountInv, ReaderInv, Counted, Reads
<1>10. TypeOK'
    BY <1>0, <1>5, <1>6, <1>7 DEF TypeOK
<1>11. /\ Count(l, "trans", m)' = Count(l, "trans", m) + 1
       /\ Count(l, "run", m)' = Count(l, "run", m)
       /\ \A k \in LWP, x \in Mount :
             k # l \/ x # m => /\ Count(k, "trans", x)' = Count(k, "trans", x)
                               /\ Count(k, "run", x)' = Count(k, "run", x)
  <2>1. Count(l, "trans", m)' = Count(l, "trans", m) + 1
      BY <1>6, <1>8
  <2>2. Count(l, "run", m)' = Count(l, "run", m)
      BY <1>6, <1>8
  <2>3. ASSUME NEW k \in LWP, NEW x \in Mount, k # l \/ x # m
        PROVE  /\ Count(k, "trans", x)' = Count(k, "trans", x)
               /\ Count(k, "run", x)' = Count(k, "run", x)
      BY <1>6, <1>8, <2>3
  <2> QED
      BY <2>1, <2>2, <2>3
<1>12. Counted(e, Count(l, "trans", m) + 1, Count(l, "run", m), wait'[l], m)
    BY <1>1, <1>2, <1>3, <1>7, <1>8, <1>9 DEF Counted
<1>13. Reads(l, e, Count(l, "run", m), rwl'[m])
    BY <1>1, <1>2, <1>3, <1>7, <1>8, <1>9 DEF Reads
<1>14. Elsewhere(l, m) /\ WaitsHere(l, m)
  <2>1. ASSUME NEW k \in LWP, NEW x \in Mount, k # l \/ x # m
        PROVE  SameFor(k, rwl'[x], rwl[x])
    BY <1>7 DEF SameFor
  <2> QED
      BY <1>2, <1>5, <1>7, <1>11, <2>1 DEF Elsewhere, WaitsHere
<1>15. CountInv' /\ ReaderInv'
  <2>1. Rec(l, m)' = e
      BY <1>5
  <2> QED
      BY <1>0, <1>11, <1>12, <1>13, <1>14, <2>1, TransLocal
<1>16. WriterInv'
    BY <1>0, <1>7 DEF WriterInv, WriterOf
<1>17. OwnerInv'
    BY <1>0, <1>2, <1>6, <1>7 DEF TypeOK, OwnerInv, Busy
<1> QED
    BY <1>5, <1>10, <1>15, <1>16, <1>17 DEF FSTransInv

\* What a step may make an LWP wait for.
WaitTyped ==
    /\ wait' \in [LWP -> [what : {"nothing", "start", "run",
                                  "establish", "disestablish"},
                          mount : Mount \cup {None},
                          type : {"LAZY", "SHARED", None}]]
    /\ \A k \in LWP :
          /\ wait'[k].what = "nothing" => wait'[k] = Nothing
          /\ wait'[k].what # "nothing" => wait'[k].mount \in Mount
          /\ wait'[k].what = "start" => wait'[k].type \in {"LAZY", "SHARED"}

LEMMA TransWait ==
    ASSUME TypeOK, NEW l \in LWP, NEW w, wait' = [wait EXCEPT ![l] = w],
           \/ w = Nothing
           \/ \E m \in Mount, t \in {"LAZY", "SHARED"} :
                 w = [what |-> "start", mount |-> m, type |-> t]
           \/ \E m \in Mount, a \in {"run", "establish", "disestablish"} :
                 w = [what |-> a, mount |-> m, type |-> None]
    PROVE  WaitTyped /\ wait'[l] = w /\ \A k \in LWP : k # l => wait'[k] = wait[k]
<1>1. /\ w \in [what : {"nothing", "start", "run", "establish", "disestablish"},
                mount : Mount \cup {None}, type : {"LAZY", "SHARED", None}]
      /\ w.what = "nothing" => w = Nothing
      /\ w.what # "nothing" => w.mount \in Mount
      /\ w.what = "start" => w.type \in {"LAZY", "SHARED"}
    BY DEF Nothing
<1>2. wait'[l] = w /\ \A k \in LWP : k # l => wait'[k] = wait[k]
    BY DEF TypeOK
<1> QED
    BY <1>1, <1>2 DEF TypeOK, WaitTyped

\* What the operations on the lock k of m do to all the locks.
ReadLockDoes(l, m, k) ==
    /\ rwl' \in [Mount -> [Locks -> Held]]
    /\ \A x \in Mount, j \in Locks :
              /\ rwl'[x][j].readers =
                    IF x = m /\ j = k THEN rwl[x][j].readers \cup {l}
                    ELSE rwl[x][j].readers
              /\ rwl'[x][j].writer = rwl[x][j].writer

LEMMA TransReadLock ==
    ASSUME TypeOK, NEW l \in LWP, NEW m \in Mount, NEW k \in Locks,
           rwl' = ReadLock(l, m, k)
    PROVE  ReadLockDoes(l, m, k)
<1>0. rwl \in [Mount -> [Locks -> Held]]
    BY DEF TypeOK
<1> DEFINE h == rwl[m][k]
           r == [h EXCEPT !.readers = @ \cup {l}]
<1>1. h \in Held
    BY <1>0
<1>2. rwl' = [rwl EXCEPT ![m][k] = r]
    BY <1>0 DEF ReadLock, Held
<1>3. r \in Held
    BY <1>1 DEF Held
<1>4. r.readers = h.readers \cup {l} /\ r.writer = h.writer
    BY <1>1 DEF Held
<1> HIDE DEF r
<1>5. /\ rwl' \in [Mount -> [Locks -> Held]]
      /\ \A x \in Mount, j \in Locks :
            rwl'[x][j] = IF x = m /\ j = k THEN r ELSE rwl[x][j]
    BY <1>2, <1>3, TransUpdate
<1>6. ASSUME NEW x \in Mount, NEW j \in Locks
      PROVE   /\ rwl'[x][j].readers =
                    IF x = m /\ j = k THEN rwl[x][j].readers \cup {l}
                    ELSE rwl[x][j].readers
              /\ rwl'[x][j].writer = rwl[x][j].writer
  <2>1. CASE x = m /\ j = k
    <3>1. rwl'[x][j] = r /\ rwl[x][j] = h
        BY <1>5, <2>1
    <3> QED
        BY <1>4, <2>1, <3>1
  <2>2. CASE ~(x = m /\ j = k)
    <3>1. rwl'[x][j] = rwl[x][j]
        BY <1>5, <2>2
    <3> QED
        BY <2>2, <3>1
  <2> QED
      BY <2>1, <2>2
<1> QED
    BY <1>5, <1>6 DEF ReadLockDoes

WriteLockDoes(l, m, k) ==
    /\ rwl' \in [Mount -> [Locks -> Held]]
    /\ \A x \in Mount, j \in Locks :
              /\ rwl'[x][j].readers = rwl[x][j].readers
              /\ rwl'[x][j].writer =
                    IF x = m /\ j = k THEN l ELSE rwl[x][j].writer

LEMMA TransWriteLock ==
    ASSUME TypeOK, NEW l \in LWP, NEW m \in Mount, NEW k \in Locks,
           rwl' = WriteLock(l, m, k)
    PROVE  WriteLockDoes(l, m, k)
<1>0. rwl \in [Mount -> [Locks -> Held]]
    BY DEF TypeOK
<1> DEFINE h == rwl[m][k]
           r == [h EXCEPT !.writer = l, !.wanted = @ \ {l}]
<1>1. h \in Held
    BY <1>0
<1>2. rwl' = [rwl EXCEPT ![m][k] = r]
    BY <1>0 DEF WriteLock, Held
<1>3. r \in Held
    BY <1>1 DEF Held
<1>4. r.readers = h.readers /\ r.writer = l
    BY <1>1 DEF Held
<1> HIDE DEF r
<1>5. /\ rwl' \in [Mount -> [Locks -> Held]]
      /\ \A x \in Mount, j \in Locks :
            rwl'[x][j] = IF x = m /\ j = k THEN r ELSE rwl[x][j]
    BY <1>2, <1>3, TransUpdate
<1>6. ASSUME NEW x \in Mount, NEW j \in Locks
      PROVE   /\ rwl'[x][j].readers = rwl[x][j].readers
              /\ rwl'[x][j].writer =
                    IF x = m /\ j = k THEN l ELSE rwl[x][j].writer
  <2>1. CASE x = m /\ j = k
    <3>1. rwl'[x][j] = r /\ rwl[x][j] = h
        BY <1>5, <2>1
    <3> QED
        BY <1>4, <2>1, <3>1
  <2>2. CASE ~(x = m /\ j = k)
    <3>1. rwl'[x][j] = rwl[x][j]
        BY <1>5, <2>2
    <3> QED
        BY <2>2, <3>1
  <2> QED
      BY <2>1, <2>2
<1> QED
    BY <1>5, <1>6 DEF WriteLockDoes

WantDoes(l, m, k) ==
    /\ rwl' \in [Mount -> [Locks -> Held]]
    /\ \A x \in Mount, j \in Locks :
              /\ rwl'[x][j].readers = rwl[x][j].readers
              /\ rwl'[x][j].writer = rwl[x][j].writer

LEMMA TransWant ==
    ASSUME TypeOK, NEW l \in LWP, NEW m \in Mount, NEW k \in Locks,
           rwl' = Want(l, m, k)
    PROVE  WantDoes(l, m, k)
<1>0. rwl \in [Mount -> [Locks -> Held]]
    BY DEF TypeOK
<1> DEFINE h == rwl[m][k]
           r == [h EXCEPT !.wanted = @ \cup {l}]
<1>1. h \in Held
    BY <1>0
<1>2. rwl' = [rwl EXCEPT ![m][k] = r]
    BY <1>0 DEF Want, Held
<1>3. r \in Held
    BY <1>1 DEF Held
<1>4. r.readers = h.readers /\ r.writer = h.writer
    BY <1>1 DEF Held
<1> HIDE DEF r
<1>5. /\ rwl' \in [Mount -> [Locks -> Held]]
      /\ \A x \in Mount, j \in Locks :
            rwl'[x][j] = IF x = m /\ j = k THEN r ELSE rwl[x][j]
    BY <1>2, <1>3, TransUpdate
<1>6. ASSUME NEW x \in Mount, NEW j \in Locks
      PROVE   /\ rwl'[x][j].readers = rwl[x][j].readers
              /\ rwl'[x][j].writer = rwl[x][j].writer
  <2>1. CASE x = m /\ j = k
    <3>1. rwl'[x][j] = r /\ rwl[x][j] = h
        BY <1>5, <2>1
    <3> QED
        BY <1>4, <2>1, <3>1
  <2>2. CASE ~(x = m /\ j = k)
    <3>1. rwl'[x][j] = rwl[x][j]
        BY <1>5, <2>2
    <3> QED
        BY <2>2, <3>1
  <2> QED
      BY <2>1, <2>2
<1> QED
    BY <1>5, <1>6 DEF WantDoes

UnlockDoes(l, m, k) ==
    /\ rwl' \in [Mount -> [Locks -> Held]]
    /\ \A x \in Mount, j \in Locks :
              /\ rwl'[x][j].readers =
                    IF x = m /\ j = k THEN rwl[x][j].readers \ {l}
                    ELSE rwl[x][j].readers
              /\ rwl'[x][j].writer =
                    IF x = m /\ j = k /\ rwl[x][j].writer = l THEN None
                    ELSE rwl[x][j].writer

LEMMA TransUnlock ==
    ASSUME TypeOK, NEW l \in LWP, NEW m \in Mount, NEW k \in Locks,
           rwl' = Unlock(l, m, k)
    PROVE  UnlockDoes(l, m, k)
<1>0. rwl \in [Mount -> [Locks -> Held]]
    BY DEF TypeOK
<1> DEFINE h == rwl[m][k]
           r == [h EXCEPT !.readers = @ \ {l}, !.wanted = @ \ {l},
                          !.writer = IF @ = l THEN None ELSE @]
<1>1. h \in Held
    BY <1>0
<1>2. rwl' = [rwl EXCEPT ![m][k] = r]
    BY <1>0 DEF Unlock, Held
<1>3. r \in Held
    BY <1>1 DEF Held
<1>4. /\ r.readers = h.readers \ {l}
      /\ r.writer = IF h.writer = l THEN None ELSE h.writer
    BY <1>1 DEF Held
<1> HIDE DEF r
<1>5. /\ rwl' \in [Mount -> [Locks -> Held]]
      /\ \A x \in Mount, j \in Locks :
            rwl'[x][j] = IF x = m /\ j = k THEN r ELSE rwl[x][j]
    BY <1>2, <1>3, TransUpdate
<1>6. ASSUME NEW x \in Mount, NEW j \in Locks
      PROVE   /\ rwl'[x][j].readers =
                    IF x = m /\ j = k THEN rwl[x][j].readers \ {l}
                    ELSE rwl[x][j].readers
              /\ rwl'[x][j].writer =
                    IF x = m /\ j = k /\ rwl[x][j].writer = l THEN None
                    ELSE rwl[x][j].writer
  <2>1. CASE x = m /\ j = k
    <3>1. rwl'[x][j] = r /\ rwl[x][j] = h
        BY <1>5, <2>1
    <3> QED
        BY <1>4, <2>1, <3>1
  <2>2. CASE ~(x = m /\ j = k)
    <3>1. rwl'[x][j] = rwl[x][j]
        BY <1>5, <2>2
    <3> QED
        BY <2>2, <3>1
  <2> QED
      BY <2>1, <2>2
<1> QED
    BY <1>5, <1>6 DEF UnlockDoes

\* The first transaction, with and without having waited.
LEMMA TransGranted ==
    ASSUME FSTransInv, NEW l \in LWP, NEW m \in Mount,
           NEW type \in {"LAZY", "SHARED"}, Rec(l, m).trans = 0,
           CanRead(m, LockOf(type)), Granted(l, m, type),
           Push(l, "trans", m), wait' = [wait EXCEPT ![l] = Nothing],
           wait[l].what \in {"nothing", "start"},
           wait[l].what = "start" => wait[l].mount = m,
           ~(l = suspend /\ phase \in Busy),
           UNCHANGED <<fmivars, suspendvars>>
    PROVE  FSTransInv'
<1> DEFINE r == Rec(l, m)
           e == [r EXCEPT !.trans = 1, !.type = type]
<1>0. /\ TypeOK /\ ListInv /\ CountInv /\ ReaderInv
      /\ WriterInv /\ OwnerInv
    BY DEF FSTransInv
<1>2. /\ wait[l].what \in {"nothing", "start"}
      /\ wait[l].what = "start" => wait[l].mount = m
      /\ r.trans = 0 /\ r.type = None /\ type # None /\ type # "EXCL"
      /\ ~(l = suspend /\ phase \in Busy)
      /\ type = "LAZY" => rwl[m].lazy.writer = None
      /\ type = "SHARED" => rwl[m].shared.writer = None
      /\ None \notin {"LAZY", "SHARED", "EXCL"}
    BY <1>0, TransRec, FSTransAssumption DEF CanRead, LockOf
<1>1. /\ r \in Record /\ r.mount = m /\ (r.trans = 0 <=> r.type = None)
      /\ r.trans \in Nat /\ r.cow \in Nat
    BY <1>0, TransRec DEF Record
<1>3. /\ e \in Record /\ e.mount = m /\ (e.trans = 0 <=> e.type = None)
      /\ e.trans = 1 /\ e.type = type /\ e.cow = r.cow
  <2>1. 1 \in Nat /\ type \in {"LAZY", "SHARED", "EXCL", None}
      BY <1>1, <1>2
  <2>2. Fields(e, r, 1, type)
      BY <1>1, <2>1, TransFields
  <2> HIDE DEF e
  <2> QED
      BY <1>1, <1>2, <2>2 DEF Fields
<1>4. SetEntry(l, m, e)
    BY <1>0, TransEntry DEF Granted
<1> HIDE DEF e
<1>5. /\ fli' \in [LWP -> Seq(Record)]
      /\ ListInv'
      /\ \A k \in LWP, x \in Mount :
            Rec(k, x)' = IF k = l /\ x = m THEN e ELSE Rec(k, x)
    BY <1>0, <1>3, <1>4, TransSet
<1>6. /\ stack' \in [LWP -> Seq([what : {"trans", "run"}, mount : Mount])]
      /\ \A k \in LWP : k # l => stack'[k] = stack[k]
      /\ \A k \in LWP, u \in {"trans", "run"}, x \in Mount :
            Count(k, u, x)' = Count(k, u, x)
                + IF k = l /\ u = "trans" /\ x = m THEN 1 ELSE 0
    BY ZenonT(60), <1>0, TransPush
<1>a. /\ rwl' \in [Mount -> [Locks -> Held]]
      /\ \A x \in Mount :
            /\ rwl'[x].lazy.readers =
                 IF x = m /\ type = "LAZY" THEN rwl[x].lazy.readers \cup {l}
                 ELSE rwl[x].lazy.readers
            /\ rwl'[x].lazy.writer = rwl[x].lazy.writer
            /\ rwl'[x].shared.readers =
                 IF x = m /\ type = "SHARED" THEN rwl[x].shared.readers \cup {l}
                 ELSE rwl[x].shared.readers
            /\ rwl'[x].shared.writer = rwl[x].shared.writer
            /\ rwl'[x].cow.readers = rwl[x].cow.readers
            /\ rwl'[x].cow.writer = rwl[x].cow.writer
  <2> DEFINE k == LockOf(type)
  <2>1. k \in Locks /\ rwl' = ReadLock(l, m, k)
      BY <1>2 DEF Granted, Locks, LockOf
  <2> HIDE DEF k
  <2>3. ReadLockDoes(l, m, k)
      BY <1>0, <2>1, TransReadLock
  <2>4. Locks = {"lazy", "shared", "cow"}
      BY DEF Locks
  <2> QED
      BY <1>2, <2>3, <2>4 DEF k, LockOf, ReadLockDoes
<1>b. WaitTyped /\ wait'[l] = Nothing /\ \A k \in LWP : k # l => wait'[k] = wait[k]
    BY <1>0, TransWait
<1>7. /\ UNCHANGED <<state, handlers, running, suspend, phase, smount>>
      /\ WaitTyped /\ wait'[l] = Nothing /\ wait'[l].what = "nothing"
      /\ \A k \in LWP : k # l => wait'[k] = wait[k]
    BY <1>b DEF fmivars, suspendvars, Nothing
<1>8. \A k \in LWP, x \in Mount, u \in {"trans", "run"} : Count(k, u, x) \in Nat
    BY <1>0, TransCounts
<1>9. /\ Counted(r, Count(l, "trans", m), Count(l, "run", m), wait[l], m)
      /\ Reads(l, r, Count(l, "run", m), rwl[m])
    BY <1>0 DEF CountInv, ReaderInv, Counted, Reads
<1>10. TypeOK'
    BY <1>0, <1>5, <1>6, <1>7, <1>a DEF TypeOK, WaitTyped
<1>11. /\ Count(l, "trans", m)' = Count(l, "trans", m) + 1
       /\ Count(l, "run", m)' = Count(l, "run", m)
       /\ \A k \in LWP, x \in Mount :
             k # l \/ x # m => /\ Count(k, "trans", x)' = Count(k, "trans", x)
                               /\ Count(k, "run", x)' = Count(k, "run", x)
  <2>1. Count(l, "trans", m)' = Count(l, "trans", m) + 1
      BY <1>6, <1>8
  <2>2. Count(l, "run", m)' = Count(l, "run", m)
      BY <1>6, <1>8
  <2>3. ASSUME NEW k \in LWP, NEW x \in Mount, k # l \/ x # m
        PROVE  /\ Count(k, "trans", x)' = Count(k, "trans", x)
               /\ Count(k, "run", x)' = Count(k, "run", x)
      BY <1>6, <1>8, <2>3
  <2> QED
      BY <2>1, <2>2, <2>3
<1>12. Counted(e, Count(l, "trans", m) + 1, Count(l, "run", m), wait'[l], m)
    BY <1>1, <1>2, <1>3, <1>7, <1>8, <1>9, <1>a DEF Counted
<1>13. Reads(l, e, Count(l, "run", m), rwl'[m])
    BY <1>1, <1>2, <1>3, <1>7, <1>8, <1>9, <1>a DEF Reads
<1>14. Elsewhere(l, m) /\ WaitsHere(l, m)
  <2>1. ASSUME NEW k \in LWP, NEW x \in Mount, k # l \/ x # m
        PROVE  SameFor(k, rwl'[x], rwl[x])
    <3>1. CASE k # l
        BY ZenonT(60), <1>a, <3>1 DEF SameFor
    <3>2. CASE x # m
        BY <1>a, <3>2 DEF SameFor
    <3> QED
        BY <2>1, <3>1, <3>2
  <2> QED
      BY <1>2, <1>5, <1>7, <1>11, <2>1 DEF Elsewhere, WaitsHere
<1>15. CountInv' /\ ReaderInv'
  <2>1. Rec(l, m)' = e
      BY <1>5
  <2> QED
      BY <1>0, <1>11, <1>12, <1>13, <1>14, <2>1, TransLocal
<1>16. WriterInv'
  <2>1. ASSUME NEW x \in Mount
        PROVE  WriterOf(x)'
    <3>1. WriterOf(x)
        BY <1>0 DEF WriterInv
    <3>2. CASE x = m
        BY ZenonT(60), <1>0, <1>2, <1>7, <1>9, <1>a, <3>1, <3>2 DEF TypeOK, WriterOf
    <3>3. CASE x # m
        BY ZenonT(60), <1>0, <1>2, <1>7, <1>a, <3>1, <3>3 DEF TypeOK, WriterOf
    <3> QED
        BY <3>2, <3>3
  <2> QED
      BY <2>1 DEF WriterInv
<1>17. OwnerInv'
    BY <1>0, <1>2, <1>6, <1>7 DEF TypeOK, OwnerInv, Busy
<1> QED
    BY <1>5, <1>10, <1>15, <1>16, <1>17 DEF FSTransInv

LEMMA TransStartFirst ==
    ASSUME FSTransInv, NEW l \in LWP, NEW m \in Mount,
           NEW type \in {"LAZY", "SHARED"}, StartFirst(l, m, type)
    PROVE  FSTransInv'
<1>1. TypeOK /\ ListInv
    BY DEF FSTransInv
<1>2. /\ wait[l] = Nothing /\ wait[l].what = "nothing"
      /\ ~(l = suspend /\ phase \in Busy)
      /\ Rec(l, m).trans = 0
    BY <1>1, TransRunning, TransEntry DEF StartFirst, MayStart
<1>3. wait' = [wait EXCEPT ![l] = Nothing]
    BY <1>1, <1>2 DEF StartFirst, TypeOK
<1>4. /\ CanRead(m, LockOf(type)) /\ Granted(l, m, type)
      /\ Push(l, "trans", m) /\ UNCHANGED <<fmivars, suspendvars>>
    BY DEF StartFirst
<1>5. wait[l].what \in {"nothing", "start"} /\ wait[l].what # "start"
    BY <1>2
<1> QED
    BY <1>2, <1>3, <1>4, <1>5, TransGranted

LEMMA TransStartGranted ==
    ASSUME FSTransInv, NEW l \in LWP, StartGranted(l)
    PROVE  FSTransInv'
<1> DEFINE m == wait[l].mount
           type == wait[l].type
<1>1. TypeOK /\ CountInv /\ OwnerInv
    BY DEF FSTransInv
<1>2. m \in Mount /\ type \in {"LAZY", "SHARED"} /\ wait[l].what = "start"
    BY <1>1 DEF StartGranted, TypeOK
<1>3. Rec(l, m).trans = 0
    BY <1>1, <1>2 DEF CountInv
<1>4. ~(l = suspend /\ phase \in Busy)
    BY <1>1, <1>2 DEF OwnerInv, Nothing
<1>5. /\ CanRead(m, LockOf(type)) /\ Granted(l, m, type)
      /\ Push(l, "trans", m) /\ UNCHANGED <<fmivars, suspendvars>>
      /\ wait' = [wait EXCEPT ![l] = Nothing]
    BY DEF StartGranted, Goes
<1>6. wait[l].what \in {"nothing", "start"} /\ wait[l].mount = m
    BY <1>2
<1> HIDE DEF m, type
<1> QED
    BY <1>2, <1>3, <1>4, <1>5, <1>6, TransGranted

LEMMA TransStartBusy ==
    ASSUME FSTransInv, NEW l \in LWP, NEW m \in Mount,
           NEW type \in {"LAZY", "SHARED"}, StartBusy(l, m, type)
    PROVE  FSTransInv'
<1> DEFINE r == Rec(l, m)
<1>0. /\ TypeOK /\ ListInv /\ CountInv /\ ReaderInv
      /\ WriterInv /\ OwnerInv
    BY DEF FSTransInv
<1>2. /\ wait[l] = Nothing /\ wait[l].what = "nothing"
      /\ ~(l = suspend /\ phase \in Busy)
      /\ None \notin LWP /\ None \notin {"LAZY", "SHARED", "EXCL"}
      /\ r.trans = 0
    BY <1>0, TransRunning, TransEntry, FSTransAssumption DEF StartBusy, MayStart
<1>1. /\ r \in Record /\ r.mount = m /\ (r.trans = 0 <=> r.type = None)
      /\ r.trans \in Nat /\ r.cow \in Nat
    BY <1>0, TransRec DEF Record
<1>4. SetEntry(l, m, r)
    BY <1>0, TransEntry DEF StartBusy
<1>5. /\ fli' \in [LWP -> Seq(Record)]
      /\ ListInv'
      /\ \A k \in LWP, x \in Mount :
            Rec(k, x)' = IF k = l /\ x = m THEN r ELSE Rec(k, x)
    BY <1>0, <1>1, <1>4, TransSet
<1>6. /\ stack' = stack
      /\ \A k, u, x : Count(k, u, x)' = Count(k, u, x)
    BY TransStay DEF StartBusy
<1>a. \A x \in Mount : rwl'[x] = rwl[x]
    BY DEF StartBusy
<1>b. /\ WaitTyped /\ \A k \in LWP : k # l => wait'[k] = wait[k]
      /\ \/ wait'[l] = [what |-> "start", mount |-> m, type |-> type]
         \/ wait'[l] = Nothing
  <2>1. CASE UNCHANGED wait
      BY <1>0, <1>2, <2>1 DEF WaitTyped, TypeOK
  <2>2. CASE Waits(l, "start", m, type)
      BY <1>0, <2>2, TransWait DEF Waits
  <2> QED
      BY <2>1, <2>2 DEF StartBusy
<1>7. /\ UNCHANGED <<rwl, state, handlers, running, suspend, phase, smount>>
      /\ WaitTyped /\ \A k \in LWP : k # l => wait'[k] = wait[k]
      /\ wait'[l].what \in {"start", "nothing"}
      /\ wait'[l].what = "start" => wait'[l].mount = m
    BY <1>b DEF StartBusy, fmivars, suspendvars, Nothing
<1>8. \A k \in LWP, x \in Mount, u \in {"trans", "run"} : Count(k, u, x) \in Nat
    BY <1>0, TransCounts
<1>9. /\ Counted(r, Count(l, "trans", m), Count(l, "run", m), wait[l], m)
      /\ Reads(l, r, Count(l, "run", m), rwl[m])
    BY <1>0 DEF CountInv, ReaderInv, Counted, Reads
<1>10. TypeOK'
    BY <1>0, <1>5, <1>6, <1>7 DEF TypeOK, WaitTyped
<1>11. /\ Count(l, "trans", m)' = Count(l, "trans", m)
       /\ Count(l, "run", m)' = Count(l, "run", m)
       /\ \A k \in LWP, x \in Mount :
             k # l \/ x # m => /\ Count(k, "trans", x)' = Count(k, "trans", x)
                               /\ Count(k, "run", x)' = Count(k, "run", x)
  <2>1. Count(l, "trans", m)' = Count(l, "trans", m)
      BY <1>6, <1>8
  <2>2. Count(l, "run", m)' = Count(l, "run", m)
      BY <1>6, <1>8
  <2>3. ASSUME NEW k \in LWP, NEW x \in Mount, k # l \/ x # m
        PROVE  /\ Count(k, "trans", x)' = Count(k, "trans", x)
               /\ Count(k, "run", x)' = Count(k, "run", x)
      BY <1>6, <1>8, <2>3
  <2> QED
      BY <2>1, <2>2, <2>3
<1>12. Counted(r, Count(l, "trans", m), Count(l, "run", m), wait'[l], m)
    BY <1>1, <1>2, <1>7, <1>8, <1>9, <1>a DEF Counted
<1>13. Reads(l, r, Count(l, "run", m), rwl'[m])
    BY <1>1, <1>2, <1>7, <1>8, <1>9, <1>a DEF Reads
<1>14. Elsewhere(l, m) /\ WaitsHere(l, m)
  <2>1. ASSUME NEW k \in LWP, NEW x \in Mount, k # l \/ x # m
        PROVE  SameFor(k, rwl'[x], rwl[x])
    <3>1. CASE k # l
        BY <1>a, <3>1 DEF SameFor
    <3>2. CASE x # m
        BY <1>a, <3>2 DEF SameFor
    <3> QED
        BY <2>1, <3>1, <3>2
  <2> QED
      BY <1>2, <1>5, <1>7, <1>11, <2>1 DEF Elsewhere, WaitsHere
<1>15. CountInv' /\ ReaderInv'
  <2>1. Rec(l, m)' = r
      BY <1>5
  <2> QED
      BY <1>0, <1>11, <1>12, <1>13, <1>14, <2>1, TransLocal
<1>16. WriterInv'
  <2>1. ASSUME NEW x \in Mount
        PROVE  WriterOf(x)'
    <3>1. WriterOf(x)
        BY <1>0 DEF WriterInv
    <3>2. CASE x = m
        BY <1>0, <1>2, <1>7, <1>9, <1>a, <3>1, <3>2 DEF TypeOK, WriterOf
    <3>3. CASE x # m
        BY <1>0, <1>2, <1>7, <1>a, <3>1, <3>3 DEF TypeOK, WriterOf
    <3> QED
        BY <3>2, <3>3
  <2> QED
      BY <2>1 DEF WriterInv
<1>17. OwnerInv'
    BY <1>0, <1>2, <1>6, <1>7 DEF TypeOK, OwnerInv, Busy
<1> QED
    BY <1>5, <1>10, <1>15, <1>16, <1>17 DEF FSTransInv

\* A transaction that is not the last one of the LWP, and the last one.
LEMMA TransDoneInner ==
    ASSUME FSTransInv, NEW l \in LWP, NEW m \in Mount,
           Done(l, m), Rec(l, m).trans > 1
    PROVE  FSTransInv'
<1> DEFINE r == Rec(l, m)
           e == [r EXCEPT !.trans = r.trans - 1]
<1>0. /\ TypeOK /\ ListInv /\ CountInv /\ ReaderInv
      /\ WriterInv /\ OwnerInv
    BY DEF FSTransInv
<1>2. /\ wait[l] = Nothing /\ wait[l].what = "nothing"
      /\ ~(l = suspend /\ phase \in Busy)
      /\ None \notin LWP /\ None \notin {"LAZY", "SHARED", "EXCL"}
      /\ r.trans > 1 /\ Top(l, "trans", m) /\ Pop(l)
    BY <1>0, TransRunning, FSTransAssumption DEF Done
<1>1. /\ r \in Record /\ r.mount = m /\ (r.trans = 0 <=> r.type = None)
      /\ r.trans \in Nat /\ r.cow \in Nat
    BY <1>0, TransRec DEF Record
<1>3. /\ e \in Record /\ e.mount = m /\ (e.trans = 0 <=> e.type = None)
      /\ e.trans = r.trans - 1 /\ e.type = r.type /\ e.cow = r.cow
    BY <1>0, <1>1, <1>2, FSTransAssumption DEF Record
<1>4. SetEntry(l, m, e)
  <2>1. r.trans # 1
      BY <1>1, <1>2
  <2>2. e = [r EXCEPT !.trans = @ - 1, !.type = IF r.trans = 1 THEN None ELSE @]
      BY <1>1, <2>1 DEF Record
  <2> HIDE DEF e
  <2> QED
      BY <1>0, <2>2, TransEntry DEF Done
<1> HIDE DEF e
<1>5. /\ fli' \in [LWP -> Seq(Record)]
      /\ ListInv'
      /\ \A k \in LWP, x \in Mount :
            Rec(k, x)' = IF k = l /\ x = m THEN e ELSE Rec(k, x)
  <2>1. e \in Record /\ e.mount = m /\ (e.trans = 0 <=> e.type = None)
      BY <1>3
  <2> QED
      BY <1>0, <1>4, <2>1, TransSet
<1>6. /\ stack' \in [LWP -> Seq([what : {"trans", "run"}, mount : Mount])]
      /\ \A k \in LWP : k # l => stack'[k] = stack[k]
      /\ \A k \in LWP, u \in {"trans", "run"}, x \in Mount :
            /\ Count(k, u, x) = Count(k, u, x)'
                   + IF k = l /\ u = "trans" /\ x = m THEN 1 ELSE 0
            /\ Count(k, u, x)' \in Nat
    BY <1>0, TransPop, <1>2
<1>a. rwl' = rwl
    BY <1>0, <1>2, TransEntry DEF Done
<1>7. UNCHANGED <<state, handlers, running, suspend, phase, smount, wait>>
    BY DEF Done, fmivars, suspendvars
<1>8. \A k \in LWP, x \in Mount, u \in {"trans", "run"} : Count(k, u, x) \in Nat
    BY <1>0, TransCounts
<1>9. /\ Counted(r, Count(l, "trans", m), Count(l, "run", m), wait[l], m)
      /\ Reads(l, r, Count(l, "run", m), rwl[m])
    BY <1>0 DEF CountInv, ReaderInv, Counted, Reads
<1>10. TypeOK'
    BY <1>0, <1>2, <1>5, <1>6, <1>7, <1>a DEF TypeOK
<1>11. /\ Count(l, "trans", m)' = Count(l, "trans", m) - 1
       /\ Count(l, "run", m)' = Count(l, "run", m)
       /\ \A k \in LWP, x \in Mount :
             k # l \/ x # m => /\ Count(k, "trans", x)' = Count(k, "trans", x)
                               /\ Count(k, "run", x)' = Count(k, "run", x)
  <2>1. Count(l, "trans", m)' = Count(l, "trans", m) - 1
      BY <1>6, <1>8
  <2>2. Count(l, "run", m)' = Count(l, "run", m)
      BY <1>6, <1>8
  <2>3. ASSUME NEW k \in LWP, NEW x \in Mount, k # l \/ x # m
        PROVE  /\ Count(k, "trans", x)' = Count(k, "trans", x)
               /\ Count(k, "run", x)' = Count(k, "run", x)
      BY SMTT(30), <1>6, <1>8, <2>3
  <2> QED
      BY <2>1, <2>2, <2>3
<1>12. Counted(e, Count(l, "trans", m) - 1, Count(l, "run", m), wait'[l], m)
    BY <1>1, <1>2, <1>3, <1>7, <1>8, <1>9, <1>a DEF Counted
<1>13. Reads(l, e, Count(l, "run", m), rwl'[m])
    BY <1>1, <1>2, <1>3, <1>7, <1>8, <1>9, <1>a DEF Reads
<1>14. Elsewhere(l, m) /\ WaitsHere(l, m)
  <2>1. ASSUME NEW k \in LWP, NEW x \in Mount, k # l \/ x # m
        PROVE  SameFor(k, rwl'[x], rwl[x])
    <3>1. CASE k # l
        BY <1>a, <3>1 DEF SameFor
    <3>2. CASE x # m
        BY <1>a, <3>2 DEF SameFor
    <3> QED
        BY <2>1, <3>1, <3>2
  <2> QED
      BY <1>2, <1>5, <1>7, <1>11, <2>1 DEF Elsewhere, WaitsHere
<1>15. CountInv' /\ ReaderInv'
  <2>1. Rec(l, m)' = e
      BY <1>5
  <2> QED
      BY <1>0, <1>11, <1>12, <1>13, <1>14, <2>1, TransLocal
<1>16. WriterInv'
  <2>1. ASSUME NEW x \in Mount
        PROVE  WriterOf(x)'
    <3>1. WriterOf(x)
        BY <1>0 DEF WriterInv
    <3>2. CASE x = m
        BY <1>0, <1>2, <1>7, <1>9, <1>a, <3>1, <3>2 DEF TypeOK, WriterOf
    <3>3. CASE x # m
        BY <1>0, <1>2, <1>7, <1>a, <3>1, <3>3 DEF TypeOK, WriterOf
    <3> QED
        BY <3>2, <3>3
  <2> QED
      BY <2>1 DEF WriterInv
<1>17. OwnerInv'
    BY <1>0, <1>2, <1>6, <1>7 DEF TypeOK, OwnerInv, Busy
<1> QED
    BY <1>5, <1>10, <1>15, <1>16, <1>17 DEF FSTransInv

LEMMA TransDoneLast ==
    ASSUME FSTransInv, NEW l \in LWP, NEW m \in Mount,
           Done(l, m), ~(Rec(l, m).trans > 1)
    PROVE  FSTransInv'
<1> DEFINE r == Rec(l, m)
           e == [r EXCEPT !.trans = 0, !.type = None]
<1>0. /\ TypeOK /\ ListInv /\ CountInv /\ ReaderInv
      /\ WriterInv /\ OwnerInv
    BY DEF FSTransInv
<1>b. /\ wait[l] = Nothing /\ wait[l].what = "nothing"
      /\ ~(l = suspend /\ phase \in Busy)
      /\ None \notin LWP /\ None \notin {"LAZY", "SHARED", "EXCL"}
      /\ Top(l, "trans", m) /\ Pop(l)
    BY <1>0, TransRunning, FSTransAssumption DEF Done
<1>6. /\ stack' \in [LWP -> Seq([what : {"trans", "run"}, mount : Mount])]
      /\ \A k \in LWP : k # l => stack'[k] = stack[k]
      /\ \A k \in LWP, u \in {"trans", "run"}, x \in Mount :
            /\ Count(k, u, x) = Count(k, u, x)'
                   + IF k = l /\ u = "trans" /\ x = m THEN 1 ELSE 0
            /\ Count(k, u, x)' \in Nat
    BY <1>0, TransPop, <1>b
<1>1. /\ r \in Record /\ r.mount = m /\ (r.trans = 0 <=> r.type = None)
      /\ r.trans \in Nat /\ r.cow \in Nat
    BY <1>0, TransRec DEF Record
<1>c. r.trans = 1 /\ Count(l, "trans", m) = 1 /\ r.type # "EXCL"
  <2>1. /\ Count(l, "trans", m) = Count(l, "trans", m)' + 1
        /\ Count(l, "trans", m)' \in Nat
      BY <1>6
  <2>2. r.trans = Count(l, "trans", m) + IF r.type = "EXCL" THEN 1 ELSE 0
      BY <1>0 DEF CountInv
  <2> QED
      BY <1>1, <2>1, <2>2
<1>d. r.type \in {"LAZY", "SHARED"}
    BY <1>1, <1>c DEF Record
<1>2. /\ wait[l] = Nothing /\ wait[l].what = "nothing"
      /\ ~(l = suspend /\ phase \in Busy)
      /\ None \notin LWP /\ None \notin {"LAZY", "SHARED", "EXCL"}
      /\ r.trans = 1 /\ Count(l, "trans", m) = 1
      /\ r.type \in {"LAZY", "SHARED"}
      /\ r.type = "LAZY" => rwl[m].lazy.writer # l
      /\ r.type = "SHARED" => rwl[m].shared.writer # l
      /\ rwl' = Unlock(l, m, LockOf(r.type))
  <2>1. WriterOf(m)
      BY <1>0 DEF WriterInv
  <2>2. /\ r.type = "LAZY" => l \in rwl[m].lazy.readers
        /\ r.type = "SHARED" => l \in rwl[m].shared.readers
      BY <1>0 DEF ReaderInv
  <2>3. /\ r.type = "LAZY" => rwl[m].lazy.writer # l
        /\ r.type = "SHARED" => rwl[m].shared.writer # l
      BY <1>b, <2>1, <2>2 DEF WriterOf
  <2>4. rwl' = Unlock(l, m, LockOf(r.type))
      BY <1>0, <1>c, TransEntry DEF Done
  <2> QED
      BY <1>b, <1>c, <1>d, <2>3, <2>4
<1>3. /\ e \in Record /\ e.mount = m /\ (e.trans = 0 <=> e.type = None)
      /\ e.trans = 0 /\ e.type = None /\ e.cow = r.cow
  <2>1. 0 \in Nat /\ None \in {"LAZY", "SHARED", "EXCL", None}
      BY <1>1, <1>2
  <2>2. Fields(e, r, 0, None)
      BY <1>1, <2>1, TransFields
  <2> HIDE DEF e
  <2> QED
      BY <1>1, <1>2, <2>2 DEF Fields
<1>4. SetEntry(l, m, e)
  <2>1. e = [r EXCEPT !.trans = @ - 1, !.type = IF r.trans = 1 THEN None ELSE @]
      BY <1>1, <1>2 DEF Record
  <2> HIDE DEF e
  <2> QED
      BY <1>0, <2>1, TransEntry DEF Done
<1> HIDE DEF e
<1>5. /\ fli' \in [LWP -> Seq(Record)]
      /\ ListInv'
      /\ \A k \in LWP, x \in Mount :
            Rec(k, x)' = IF k = l /\ x = m THEN e ELSE Rec(k, x)
    BY <1>0, <1>3, <1>4, TransSet
<1>a. /\ rwl' \in [Mount -> [Locks -> Held]]
      /\ \A x \in Mount :
            /\ rwl'[x].lazy.readers =
                 IF x = m /\ r.type = "LAZY" THEN rwl[x].lazy.readers \ {l}
                 ELSE rwl[x].lazy.readers
            /\ rwl'[x].lazy.writer = rwl[x].lazy.writer
            /\ rwl'[x].shared.readers =
                 IF x = m /\ r.type = "SHARED" THEN rwl[x].shared.readers \ {l}
                 ELSE rwl[x].shared.readers
            /\ rwl'[x].shared.writer = rwl[x].shared.writer
            /\ rwl'[x].cow.readers = rwl[x].cow.readers
            /\ rwl'[x].cow.writer = rwl[x].cow.writer
  <2> DEFINE k == LockOf(r.type)
  <2>1. k \in Locks /\ rwl' = Unlock(l, m, k)
      BY <1>2 DEF Locks, LockOf
  <2> HIDE DEF k
  <2>3. UnlockDoes(l, m, k)
      BY <1>0, <2>1, TransUnlock
  <2>4. Locks = {"lazy", "shared", "cow"}
      BY DEF Locks
  <2> QED
      BY ZenonT(60), <1>2, <2>3, <2>4 DEF k, LockOf, UnlockDoes
<1>7. UNCHANGED <<state, handlers, running, suspend, phase, smount, wait>>
    BY DEF Done, fmivars, suspendvars
<1>8. \A k \in LWP, x \in Mount, u \in {"trans", "run"} : Count(k, u, x) \in Nat
    BY <1>0, TransCounts
<1>9. /\ Counted(r, Count(l, "trans", m), Count(l, "run", m), wait[l], m)
      /\ Reads(l, r, Count(l, "run", m), rwl[m])
    BY <1>0 DEF CountInv, ReaderInv, Counted, Reads
<1>10. TypeOK'
    BY <1>0, <1>2, <1>5, <1>6, <1>7, <1>a DEF TypeOK
<1>11. /\ Count(l, "trans", m)' = Count(l, "trans", m) - 1
       /\ Count(l, "run", m)' = Count(l, "run", m)
       /\ \A k \in LWP, x \in Mount :
             k # l \/ x # m => /\ Count(k, "trans", x)' = Count(k, "trans", x)
                               /\ Count(k, "run", x)' = Count(k, "run", x)
  <2>1. Count(l, "trans", m)' = Count(l, "trans", m) - 1
      BY <1>6, <1>8
  <2>2. Count(l, "run", m)' = Count(l, "run", m)
      BY <1>6, <1>8
  <2>3. ASSUME NEW k \in LWP, NEW x \in Mount, k # l \/ x # m
        PROVE  /\ Count(k, "trans", x)' = Count(k, "trans", x)
               /\ Count(k, "run", x)' = Count(k, "run", x)
      BY SMTT(30), <1>6, <1>8, <2>3
  <2> QED
      BY <2>1, <2>2, <2>3
<1>12. Counted(e, Count(l, "trans", m) - 1, Count(l, "run", m), wait'[l], m)
    BY <1>1, <1>2, <1>3, <1>7, <1>8, <1>9, <1>a DEF Counted
<1>13. Reads(l, e, Count(l, "run", m), rwl'[m])
    BY ZenonT(60), <1>1, <1>2, <1>3, <1>7, <1>8, <1>9, <1>a DEF Reads
<1>14. Elsewhere(l, m) /\ WaitsHere(l, m)
  <2>1. ASSUME NEW k \in LWP, NEW x \in Mount, k # l \/ x # m
        PROVE  SameFor(k, rwl'[x], rwl[x])
    <3>1. CASE k # l
        BY <1>a, <3>1 DEF SameFor
    <3>2. CASE x # m
        BY <1>a, <3>2 DEF SameFor
    <3> QED
        BY <2>1, <3>1, <3>2
  <2> QED
      BY <1>2, <1>5, <1>7, <1>11, <2>1 DEF Elsewhere, WaitsHere
<1>15. CountInv' /\ ReaderInv'
  <2>1. Rec(l, m)' = e
      BY <1>5
  <2> QED
      BY <1>0, <1>11, <1>12, <1>13, <1>14, <2>1, TransLocal
<1>16. WriterInv'
  <2>1. ASSUME NEW x \in Mount
        PROVE  WriterOf(x)'
    <3>1. WriterOf(x)
        BY <1>0 DEF WriterInv
    <3>2. CASE x = m
        BY ZenonT(60), <1>0, <1>2, <1>7, <1>9, <1>a, <3>1, <3>2 DEF TypeOK, WriterOf
    <3>3. CASE x # m
        BY ZenonT(60), <1>0, <1>2, <1>7, <1>a, <3>1, <3>3 DEF TypeOK, WriterOf
    <3> QED
        BY <3>2, <3>3
  <2> QED
      BY <2>1 DEF WriterInv
<1>17. OwnerInv'
    BY <1>0, <1>2, <1>6, <1>7 DEF TypeOK, OwnerInv, Busy
<1> QED
    BY <1>5, <1>10, <1>15, <1>16, <1>17 DEF FSTransInv

LEMMA TransSuspend ==
    ASSUME FSTransInv, NEW l \in LWP, NEW m \in Mount,
           Suspend(l, m)
    PROVE  FSTransInv'
<1> DEFINE r == Rec(l, m)
<1>0. /\ TypeOK /\ ListInv /\ CountInv /\ ReaderInv
      /\ WriterInv /\ OwnerInv
    BY DEF FSTransInv
<1>2. /\ wait[l] = Nothing /\ wait[l].what = "nothing"
      /\ ~(l = suspend /\ phase \in Busy)
      /\ None \notin LWP /\ None \notin {"LAZY", "SHARED", "EXCL"}
      /\ None \notin Mount
      /\ suspend = None /\ phase = "none" /\ smount = None /\ stack[l] = <<>>
    BY <1>0, TransRunning, FSTransAssumption DEF Suspend, TypeOK
<1>1. /\ r \in Record /\ r.mount = m /\ (r.trans = 0 <=> r.type = None)
      /\ r.trans \in Nat /\ r.cow \in Nat
    BY <1>0, TransRec DEF Record
<1>4. SetEntry(l, m, r)
    BY <1>0, TransEntry DEF Suspend
<1>5. /\ fli' \in [LWP -> Seq(Record)]
      /\ ListInv'
      /\ \A k \in LWP, x \in Mount :
            Rec(k, x)' = IF k = l /\ x = m THEN r ELSE Rec(k, x)
    BY <1>0, <1>1, <1>4, TransSet
<1>6. /\ stack' = stack
      /\ \A k, u, x : Count(k, u, x)' = Count(k, u, x)
    BY TransStay DEF Suspend
<1>a. /\ rwl' \in [Mount -> [Locks -> Held]]
      /\ \A x \in Mount :
            /\ rwl'[x].lazy.readers = rwl[x].lazy.readers
            /\ rwl'[x].lazy.writer = rwl[x].lazy.writer
            /\ rwl'[x].shared.readers = rwl[x].shared.readers
            /\ rwl'[x].shared.writer = rwl[x].shared.writer
            /\ rwl'[x].cow.readers = rwl[x].cow.readers
            /\ rwl'[x].cow.writer = rwl[x].cow.writer
  <2> DEFINE k == "shared"
  <2>1. k \in Locks /\ rwl' = Want(l, m, k)
      BY <1>2 DEF Suspend, Locks, LockOf
  <2> HIDE DEF k
  <2>3. WantDoes(l, m, k)
      BY <1>0, <2>1, TransWant
  <2>4. Locks = {"lazy", "shared", "cow"}
      BY DEF Locks
  <2> QED
      BY <1>2, <2>3, <2>4 DEF k, LockOf, WantDoes
<1>7. /\ UNCHANGED <<state, handlers, running, wait>>
      /\ suspend' = l /\ phase' = "excl" /\ smount' = m
    BY DEF Suspend, fmivars
<1>8. \A k \in LWP, x \in Mount, u \in {"trans", "run"} : Count(k, u, x) \in Nat
    BY <1>0, TransCounts
<1>9. /\ Counted(r, Count(l, "trans", m), Count(l, "run", m), wait[l], m)
      /\ Reads(l, r, Count(l, "run", m), rwl[m])
    BY <1>0 DEF CountInv, ReaderInv, Counted, Reads
<1>10. TypeOK'
    BY <1>0, <1>2, <1>5, <1>6, <1>7, <1>a DEF TypeOK, Busy
<1>11. /\ Count(l, "trans", m)' = Count(l, "trans", m)
       /\ Count(l, "run", m)' = Count(l, "run", m)
       /\ \A k \in LWP, x \in Mount :
             k # l \/ x # m => /\ Count(k, "trans", x)' = Count(k, "trans", x)
                               /\ Count(k, "run", x)' = Count(k, "run", x)
  <2>1. Count(l, "trans", m)' = Count(l, "trans", m)
      BY <1>6, <1>8
  <2>2. Count(l, "run", m)' = Count(l, "run", m)
      BY <1>6, <1>8
  <2>3. ASSUME NEW k \in LWP, NEW x \in Mount, k # l \/ x # m
        PROVE  /\ Count(k, "trans", x)' = Count(k, "trans", x)
               /\ Count(k, "run", x)' = Count(k, "run", x)
      BY <1>6, <1>8, <2>3
  <2> QED
      BY <2>1, <2>2, <2>3
<1>12. Counted(r, Count(l, "trans", m), Count(l, "run", m), wait'[l], m)
    BY <1>1, <1>2, <1>7, <1>8, <1>9, <1>a DEF Counted
<1>13. Reads(l, r, Count(l, "run", m), rwl'[m])
    BY <1>1, <1>2, <1>7, <1>8, <1>9, <1>a DEF Reads
<1>14. Elsewhere(l, m) /\ WaitsHere(l, m)
  <2>1. ASSUME NEW k \in LWP, NEW x \in Mount, k # l \/ x # m
        PROVE  SameFor(k, rwl'[x], rwl[x])
    <3>1. CASE k # l
        BY <1>a, <3>1 DEF SameFor
    <3>2. CASE x # m
        BY <1>a, <3>2 DEF SameFor
    <3> QED
        BY <2>1, <3>1, <3>2
  <2> QED
      BY <1>2, <1>5, <1>7, <1>11, <2>1 DEF Elsewhere, WaitsHere
<1>15. CountInv' /\ ReaderInv'
  <2>1. Rec(l, m)' = r
      BY <1>5
  <2> QED
      BY <1>0, <1>11, <1>12, <1>13, <1>14, <2>1, TransLocal
<1>16. WriterInv'
  <2>1. ASSUME NEW x \in Mount
        PROVE  WriterOf(x)'
    <3>1. WriterOf(x)
        BY <1>0 DEF WriterInv
    <3>2. CASE x = m
        BY ZenonT(60), <1>0, <1>2, <1>7, <1>9, <1>a, <3>1, <3>2 DEF TypeOK, WriterOf
    <3>3. CASE x # m
        BY <1>0, <1>2, <1>7, <1>a, <3>1, <3>3 DEF TypeOK, WriterOf
    <3> QED
        BY <3>2, <3>3
  <2> QED
      BY <2>1 DEF WriterInv
<1>17. OwnerInv'
    BY <1>0, <1>2, <1>6, <1>7 DEF TypeOK, OwnerInv, Busy
<1> QED
    BY <1>5, <1>10, <1>15, <1>16, <1>17 DEF FSTransInv

LEMMA TransSuspending ==
    ASSUME FSTransInv, NEW l \in LWP, NEW m \in Mount,
           Suspending(l), m = smount
    PROVE  FSTransInv'
<1> DEFINE r == Rec(l, m)
           e == [r EXCEPT !.trans = 1, !.type = "EXCL"]
<1>0. /\ TypeOK /\ ListInv /\ CountInv /\ ReaderInv
      /\ WriterInv /\ OwnerInv
    BY DEF FSTransInv
<1>1. /\ r \in Record /\ r.mount = m /\ (r.trans = 0 <=> r.type = None)
      /\ r.trans \in Nat /\ r.cow \in Nat
    BY <1>0, TransRec DEF Record
<1>c. /\ None \notin LWP /\ None \notin {"LAZY", "SHARED", "EXCL"}
      /\ l = suspend /\ phase = "excl" /\ stack[l] = <<>>
      /\ wait[l] = Nothing /\ wait[l].what = "nothing"
      /\ rwl[m].shared.writer = None /\ rwl[m].shared.readers = {}
    BY <1>0, FSTransAssumption DEF Suspending, CanWrite, OwnerInv, Busy, Nothing
<1>2. /\ None \notin LWP /\ None \notin {"LAZY", "SHARED", "EXCL"}
      /\ l = suspend /\ phase = "excl" /\ stack[l] = <<>>
      /\ wait[l] = Nothing /\ wait[l].what = "nothing"
      /\ rwl[m].shared.writer = None /\ rwl[m].shared.readers = {}
      /\ Count(l, "trans", m) = 0 /\ r.trans = 0 /\ r.type = None
  <2>1. Count(l, "trans", m) = 0
      BY <1>0, <1>c, TransCounts
  <2>2. r.type # "EXCL"
      BY <1>0, <1>c DEF ReaderInv
  <2>3. r.trans = 0
      BY <1>0, <2>1, <2>2 DEF CountInv
  <2> QED
      BY <1>1, <1>c, <2>1, <2>3
<1>3. /\ e \in Record /\ e.mount = m /\ (e.trans = 0 <=> e.type = None)
      /\ e.trans = 1 /\ e.type = "EXCL" /\ e.cow = r.cow
  <2>1. 1 \in Nat /\ "EXCL" \in {"LAZY", "SHARED", "EXCL", None}
      BY <1>1, <1>2
  <2>2. Fields(e, r, 1, "EXCL")
      BY <1>1, <2>1, TransFields
  <2> HIDE DEF e
  <2> QED
      BY <1>1, <1>2, <2>2 DEF Fields
<1>4. SetEntry(l, m, e)
    BY <1>0, TransEntry DEF Suspending, Granted
<1> HIDE DEF e
<1>5. /\ fli' \in [LWP -> Seq(Record)]
      /\ ListInv'
      /\ \A k \in LWP, x \in Mount :
            Rec(k, x)' = IF k = l /\ x = m THEN e ELSE Rec(k, x)
    BY <1>0, <1>3, <1>4, TransSet
<1>6. /\ stack' = stack
      /\ \A k, u, x : Count(k, u, x)' = Count(k, u, x)
    BY TransStay DEF Suspending
<1>a. /\ rwl' \in [Mount -> [Locks -> Held]]
      /\ \A x \in Mount :
            /\ rwl'[x].lazy.readers = rwl[x].lazy.readers
            /\ rwl'[x].lazy.writer = rwl[x].lazy.writer
            /\ rwl'[x].shared.readers = rwl[x].shared.readers
            /\ rwl'[x].shared.writer = IF x = m THEN l ELSE rwl[x].shared.writer
            /\ rwl'[x].cow.readers = rwl[x].cow.readers
            /\ rwl'[x].cow.writer = rwl[x].cow.writer
  <2> DEFINE k == "shared"
  <2>1. k \in Locks /\ rwl' = WriteLock(l, m, k)
      BY <1>2 DEF Suspending, Granted, Locks, LockOf
  <2> HIDE DEF k
  <2>3. WriteLockDoes(l, m, k)
      BY <1>0, <2>1, TransWriteLock
  <2>4. Locks = {"lazy", "shared", "cow"}
      BY DEF Locks
  <2> QED
      BY <1>2, <2>3, <2>4 DEF k, LockOf, WriteLockDoes
<1>7. /\ UNCHANGED <<handlers, running, suspend, smount, wait>>
      /\ phase' = "suspending" /\ smount = m
      /\ state' = [state EXCEPT ![m] = "SUSPENDING"]
    BY DEF Suspending
<1>8. \A k \in LWP, x \in Mount, u \in {"trans", "run"} : Count(k, u, x) \in Nat
    BY <1>0, TransCounts
<1>9. /\ Counted(r, Count(l, "trans", m), Count(l, "run", m), wait[l], m)
      /\ Reads(l, r, Count(l, "run", m), rwl[m])
    BY <1>0 DEF CountInv, ReaderInv, Counted, Reads
<1>10. TypeOK'
    BY <1>0, <1>2, <1>5, <1>6, <1>7, <1>a DEF TypeOK
<1>11. /\ Count(l, "trans", m)' = Count(l, "trans", m)
       /\ Count(l, "run", m)' = Count(l, "run", m)
       /\ \A k \in LWP, x \in Mount :
             k # l \/ x # m => /\ Count(k, "trans", x)' = Count(k, "trans", x)
                               /\ Count(k, "run", x)' = Count(k, "run", x)
  <2>1. Count(l, "trans", m)' = Count(l, "trans", m)
      BY <1>6, <1>8
  <2>2. Count(l, "run", m)' = Count(l, "run", m)
      BY <1>6, <1>8
  <2>3. ASSUME NEW k \in LWP, NEW x \in Mount, k # l \/ x # m
        PROVE  /\ Count(k, "trans", x)' = Count(k, "trans", x)
               /\ Count(k, "run", x)' = Count(k, "run", x)
      BY <1>6, <1>8, <2>3
  <2> QED
      BY <2>1, <2>2, <2>3
<1>12. Counted(e, Count(l, "trans", m), Count(l, "run", m), wait'[l], m)
  <2>1. r.cow = Count(l, "run", m) /\ Count(l, "run", m) \in Nat
      BY <1>2, <1>8, <1>9 DEF Counted
  <2>2. wait'[l].what = "nothing"
      BY <1>2, <1>7
  <2> QED
      BY <1>2, <1>3, <2>1, <2>2 DEF Counted
<1>13. Reads(l, e, Count(l, "run", m), rwl'[m])
    BY <1>1, <1>2, <1>3, <1>7, <1>8, <1>9, <1>a DEF Reads
<1>14. Elsewhere(l, m) /\ WaitsHere(l, m)
  <2>1. ASSUME NEW k \in LWP, NEW x \in Mount, k # l \/ x # m
        PROVE  SameFor(k, rwl'[x], rwl[x])
    <3>1. CASE k # l
        BY <1>2, <1>a, <3>1 DEF SameFor
    <3>2. CASE x # m
        BY <1>a, <3>2 DEF SameFor
    <3> QED
        BY <2>1, <3>1, <3>2
  <2> QED
      BY <1>2, <1>5, <1>7, <1>11, <2>1 DEF Elsewhere, WaitsHere
<1>15. CountInv' /\ ReaderInv'
  <2>1. Rec(l, m)' = e
      BY <1>5
  <2> QED
      BY <1>0, <1>11, <1>12, <1>13, <1>14, <2>1, TransLocal
<1>16. WriterInv'
  <2>1. ASSUME NEW x \in Mount
        PROVE  WriterOf(x)'
    <3>1. WriterOf(x)
        BY <1>0 DEF WriterInv
    <3>2. CASE x = m
        BY ZenonT(60), <1>0, <1>2, <1>7, <1>9, <1>a, <3>1, <3>2 DEF TypeOK, WriterOf
    <3>3. CASE x # m
        BY ZenonT(60), <1>0, <1>2, <1>7, <1>a, <3>1, <3>3 DEF TypeOK, WriterOf
    <3> QED
        BY <3>2, <3>3
  <2> QED
      BY <2>1 DEF WriterInv
<1>17. OwnerInv'
    BY <1>0, <1>2, <1>6, <1>7 DEF TypeOK, OwnerInv, Busy
<1> QED
    BY <1>5, <1>10, <1>15, <1>16, <1>17 DEF FSTransInv

LEMMA TransSyncDone ==
    ASSUME FSTransInv, NEW l \in LWP, NEW m \in Mount,
           SyncDone(l), m = smount
    PROVE  FSTransInv'
<1> DEFINE r == Rec(l, m)
<1>0. /\ TypeOK /\ ListInv /\ CountInv /\ ReaderInv
      /\ WriterInv /\ OwnerInv
    BY DEF FSTransInv
<1>2. /\ wait[l] = Nothing /\ wait[l].what = "nothing"
      /\ ~(l = suspend /\ phase \in Busy)
      /\ None \notin LWP /\ None \notin {"LAZY", "SHARED", "EXCL"}
      /\ l = suspend /\ phase = "suspending" /\ stack[l] = <<>>
    BY <1>0, TransRunning, FSTransAssumption DEF SyncDone
<1>1. /\ r \in Record /\ r.mount = m /\ (r.trans = 0 <=> r.type = None)
      /\ r.trans \in Nat /\ r.cow \in Nat
    BY <1>0, TransRec DEF Record
<1>5. /\ fli' \in [LWP -> Seq(Record)]
      /\ ListInv'
      /\ \A k \in LWP, x \in Mount :
            Rec(k, x)' = IF k = l /\ x = m THEN r ELSE Rec(k, x)
    BY <1>0, TransSame DEF SyncDone
<1>6. /\ stack' = stack
      /\ \A k, u, x : Count(k, u, x)' = Count(k, u, x)
    BY TransStay DEF SyncDone
<1>a. /\ rwl' \in [Mount -> [Locks -> Held]]
      /\ \A x \in Mount :
            /\ rwl'[x].lazy.readers = rwl[x].lazy.readers
            /\ rwl'[x].lazy.writer = rwl[x].lazy.writer
            /\ rwl'[x].shared.readers = rwl[x].shared.readers
            /\ rwl'[x].shared.writer = rwl[x].shared.writer
            /\ rwl'[x].cow.readers = rwl[x].cow.readers
            /\ rwl'[x].cow.writer = rwl[x].cow.writer
  <2> DEFINE k == "lazy"
  <2>1. k \in Locks /\ rwl' = Want(l, m, k)
      BY <1>2 DEF SyncDone, Locks, LockOf
  <2> HIDE DEF k
  <2>3. WantDoes(l, m, k)
      BY <1>0, <2>1, TransWant
  <2>4. Locks = {"lazy", "shared", "cow"}
      BY DEF Locks
  <2> QED
      BY <1>2, <2>3, <2>4 DEF k, LockOf, WantDoes
<1>7. /\ UNCHANGED <<state, handlers, running, suspend, smount, wait>>
      /\ phase' = "synced" /\ smount = m
    BY DEF SyncDone, fmivars
<1>8. \A k \in LWP, x \in Mount, u \in {"trans", "run"} : Count(k, u, x) \in Nat
    BY <1>0, TransCounts
<1>9. /\ Counted(r, Count(l, "trans", m), Count(l, "run", m), wait[l], m)
      /\ Reads(l, r, Count(l, "run", m), rwl[m])
    BY <1>0 DEF CountInv, ReaderInv, Counted, Reads
<1>10. TypeOK'
    BY <1>0, <1>2, <1>5, <1>6, <1>7, <1>a DEF TypeOK, Busy
<1>11. /\ Count(l, "trans", m)' = Count(l, "trans", m)
       /\ Count(l, "run", m)' = Count(l, "run", m)
       /\ \A k \in LWP, x \in Mount :
             k # l \/ x # m => /\ Count(k, "trans", x)' = Count(k, "trans", x)
                               /\ Count(k, "run", x)' = Count(k, "run", x)
  <2>1. Count(l, "trans", m)' = Count(l, "trans", m)
      BY <1>6, <1>8
  <2>2. Count(l, "run", m)' = Count(l, "run", m)
      BY <1>6, <1>8
  <2>3. ASSUME NEW k \in LWP, NEW x \in Mount, k # l \/ x # m
        PROVE  /\ Count(k, "trans", x)' = Count(k, "trans", x)
               /\ Count(k, "run", x)' = Count(k, "run", x)
      BY <1>6, <1>8, <2>3
  <2> QED
      BY <2>1, <2>2, <2>3
<1>12. Counted(r, Count(l, "trans", m), Count(l, "run", m), wait'[l], m)
    BY <1>1, <1>2, <1>7, <1>8, <1>9, <1>a DEF Counted
<1>13. Reads(l, r, Count(l, "run", m), rwl'[m])
    BY <1>1, <1>2, <1>7, <1>8, <1>9, <1>a DEF Reads
<1>14. Elsewhere(l, m) /\ WaitsHere(l, m)
  <2>1. ASSUME NEW k \in LWP, NEW x \in Mount, k # l \/ x # m
        PROVE  SameFor(k, rwl'[x], rwl[x])
    <3>1. CASE k # l
        BY <1>a, <3>1 DEF SameFor
    <3>2. CASE x # m
        BY <1>a, <3>2 DEF SameFor
    <3> QED
        BY <2>1, <3>1, <3>2
  <2> QED
      BY <1>2, <1>5, <1>7, <1>11, <2>1 DEF Elsewhere, WaitsHere
<1>15. CountInv' /\ ReaderInv'
  <2>1. Rec(l, m)' = r
      BY <1>5
  <2> QED
      BY <1>0, <1>11, <1>12, <1>13, <1>14, <2>1, TransLocal
<1>16. WriterInv'
  <2>1. ASSUME NEW x \in Mount
        PROVE  WriterOf(x)'
    <3>1. WriterOf(x)
        BY <1>0 DEF WriterInv
    <3>2. CASE x = m
        BY ZenonT(60), <1>0, <1>2, <1>7, <1>9, <1>a, <3>1, <3>2 DEF TypeOK, WriterOf
    <3>3. CASE x # m
        BY <1>0, <1>2, <1>7, <1>a, <3>1, <3>3 DEF TypeOK, WriterOf
    <3> QED
        BY <3>2, <3>3
  <2> QED
      BY <2>1 DEF WriterInv
<1>17. OwnerInv'
    BY <1>0, <1>2, <1>6, <1>7 DEF TypeOK, OwnerInv, Busy
<1> QED
    BY <1>5, <1>10, <1>15, <1>16, <1>17 DEF FSTransInv

LEMMA TransSuspended ==
    ASSUME FSTransInv, NEW l \in LWP, NEW m \in Mount,
           Suspended(l), m = smount
    PROVE  FSTransInv'
<1> DEFINE r == Rec(l, m)
<1>0. /\ TypeOK /\ ListInv /\ CountInv /\ ReaderInv
      /\ WriterInv /\ OwnerInv
    BY DEF FSTransInv
<1>2. /\ None \notin LWP /\ l = suspend /\ phase = "synced"
      /\ rwl[m].lazy.writer = None /\ rwl[m].lazy.readers = {}
    BY <1>0, FSTransAssumption DEF Suspended, CanWrite
<1>1. /\ r \in Record /\ r.mount = m /\ (r.trans = 0 <=> r.type = None)
      /\ r.trans \in Nat /\ r.cow \in Nat
    BY <1>0, TransRec DEF Record
<1>5. /\ fli' \in [LWP -> Seq(Record)]
      /\ ListInv'
      /\ \A k \in LWP, x \in Mount :
            Rec(k, x)' = IF k = l /\ x = m THEN r ELSE Rec(k, x)
    BY <1>0, TransSame DEF Suspended
<1>6. /\ stack' = stack
      /\ \A k, u, x : Count(k, u, x)' = Count(k, u, x)
    BY TransStay DEF Suspended
<1>a. /\ rwl' \in [Mount -> [Locks -> Held]]
      /\ \A x \in Mount :
            /\ rwl'[x].lazy.readers = rwl[x].lazy.readers
            /\ rwl'[x].lazy.writer = IF x = m THEN l ELSE rwl[x].lazy.writer
            /\ rwl'[x].shared.readers = rwl[x].shared.readers
            /\ rwl'[x].shared.writer = rwl[x].shared.writer
            /\ rwl'[x].cow.readers = rwl[x].cow.readers
            /\ rwl'[x].cow.writer = rwl[x].cow.writer
  <2> DEFINE k == "lazy"
  <2>1. k \in Locks /\ rwl' = WriteLock(l, m, k)
      BY <1>2 DEF Suspended, Locks, LockOf
  <2> HIDE DEF k
  <2>3. WriteLockDoes(l, m, k)
      BY <1>0, <2>1, TransWriteLock
  <2>4. Locks = {"lazy", "shared", "cow"}
      BY DEF Locks
  <2> QED
      BY <1>2, <2>3, <2>4 DEF k, LockOf, WriteLockDoes
<1>7. /\ UNCHANGED <<handlers, running, suspend, smount, wait>>
      /\ phase' = "suspended" /\ smount = m
      /\ state' = [state EXCEPT ![m] = "SUSPENDED"]
    BY DEF Suspended
<1>8. \A k \in LWP, x \in Mount, u \in {"trans", "run"} : Count(k, u, x) \in Nat
    BY <1>0, TransCounts
<1>9. /\ Counted(r, Count(l, "trans", m), Count(l, "run", m), wait[l], m)
      /\ Reads(l, r, Count(l, "run", m), rwl[m])
    BY <1>0 DEF CountInv, ReaderInv, Counted, Reads
<1>10. TypeOK'
    BY <1>0, <1>2, <1>5, <1>6, <1>7, <1>a DEF TypeOK
<1>11. /\ Count(l, "trans", m)' = Count(l, "trans", m)
       /\ Count(l, "run", m)' = Count(l, "run", m)
       /\ \A k \in LWP, x \in Mount :
             k # l \/ x # m => /\ Count(k, "trans", x)' = Count(k, "trans", x)
                               /\ Count(k, "run", x)' = Count(k, "run", x)
  <2>1. Count(l, "trans", m)' = Count(l, "trans", m)
      BY <1>6, <1>8
  <2>2. Count(l, "run", m)' = Count(l, "run", m)
      BY <1>6, <1>8
  <2>3. ASSUME NEW k \in LWP, NEW x \in Mount, k # l \/ x # m
        PROVE  /\ Count(k, "trans", x)' = Count(k, "trans", x)
               /\ Count(k, "run", x)' = Count(k, "run", x)
      BY <1>6, <1>8, <2>3
  <2> QED
      BY <2>1, <2>2, <2>3
<1>12. Counted(r, Count(l, "trans", m), Count(l, "run", m), wait'[l], m)
    BY <1>1, <1>2, <1>7, <1>8, <1>9, <1>a DEF Counted
<1>13. Reads(l, r, Count(l, "run", m), rwl'[m])
    BY <1>1, <1>2, <1>7, <1>8, <1>9, <1>a DEF Reads
<1>14. Elsewhere(l, m) /\ WaitsHere(l, m)
  <2>1. ASSUME NEW k \in LWP, NEW x \in Mount, k # l \/ x # m
        PROVE  SameFor(k, rwl'[x], rwl[x])
    <3>1. CASE k # l
        BY <1>a, <3>1 DEF SameFor
    <3>2. CASE x # m
        BY <1>a, <3>2 DEF SameFor
    <3> QED
        BY <2>1, <3>1, <3>2
  <2> QED
      BY <1>2, <1>5, <1>7, <1>11, <2>1 DEF Elsewhere, WaitsHere
<1>15. CountInv' /\ ReaderInv'
  <2>1. Rec(l, m)' = r
      BY <1>5
  <2> QED
      BY <1>0, <1>11, <1>12, <1>13, <1>14, <2>1, TransLocal
<1>16. WriterInv'
  <2>1. ASSUME NEW x \in Mount
        PROVE  WriterOf(x)'
    <3>1. WriterOf(x)
        BY <1>0 DEF WriterInv
    <3>2. CASE x = m
        BY <1>0, <1>2, <1>7, <1>9, <1>a, <3>1, <3>2 DEF TypeOK, WriterOf
    <3>3. CASE x # m
        BY <1>0, <1>2, <1>7, <1>a, <3>1, <3>3 DEF TypeOK, WriterOf
    <3> QED
        BY <3>2, <3>3
  <2> QED
      BY <2>1 DEF WriterInv
<1>17. OwnerInv'
    BY <1>0, <1>2, <1>6, <1>7 DEF TypeOK, OwnerInv, Busy
<1> QED
    BY <1>5, <1>10, <1>15, <1>16, <1>17 DEF FSTransInv

\* vfs_resume() lets go of the lazy lock, and changes the state.
LEMMA TransResume ==
    ASSUME FSTransInv, NEW l \in LWP, NEW m \in Mount,
           Resume(l), m = smount
    PROVE  FSTransInv'
<1>0. /\ TypeOK /\ ListInv /\ CountInv /\ ReaderInv
      /\ WriterInv /\ OwnerInv
    BY DEF FSTransInv
<1>1. /\ wait[l] = Nothing /\ None \notin LWP /\ None \notin Mount
      /\ l = suspend /\ phase \notin Busy /\ stack[l] = <<>>
    BY <1>0, TransRunning, FSTransAssumption DEF Resume
<1>2. phase \in {"suspending", "suspended"}
    BY <1>0, <1>1 DEF TypeOK
<1>3. UNCHANGED <<fli, state, handlers, running, suspend, smount, wait, stack>>
    BY DEF Resume, fmivars
<1>4. phase' = "resuming" /\ smount = m
    BY DEF Resume
<1>5. /\ rwl' \in [Mount -> [Locks -> Held]]
      /\ \A x \in Mount :
            /\ rwl'[x].lazy.readers = rwl[x].lazy.readers
            /\ rwl'[x].lazy.writer = IF x = m THEN None ELSE rwl[x].lazy.writer
            /\ rwl'[x].shared.readers = rwl[x].shared.readers
            /\ rwl'[x].shared.writer = rwl[x].shared.writer
            /\ rwl'[x].cow.readers = rwl[x].cow.readers
            /\ rwl'[x].cow.writer = rwl[x].cow.writer
  <2>0. WriterOf(m)
      BY <1>0 DEF WriterInv
  <2>1. CASE state[m] = "SUSPENDED"
    <3> DEFINE k == "lazy"
    <3>1. k \in Locks /\ rwl' = Unlock(l, m, k)
        BY <1>4, <2>1 DEF Resume, Locks
    <3>2. rwl[m].lazy.writer = l /\ l \notin rwl[m].lazy.readers
      <4>1. phase = "suspended"
          BY <1>2, <1>4, <2>0, <2>1 DEF WriterOf
      <4> QED
          BY <1>1, <1>4, <2>0, <4>1 DEF WriterOf
    <3> HIDE DEF k
    <3>3. UnlockDoes(l, m, k)
        BY <1>0, <3>1, TransUnlock
    <3>4. Locks = {"lazy", "shared", "cow"}
        BY DEF Locks
    <3>5. rwl[m].lazy.readers \ {l} = rwl[m].lazy.readers
        BY <3>2
    <3> QED
        BY <3>2, <3>3, <3>4, <3>5 DEF k, UnlockDoes
  <2>2. CASE state[m] # "SUSPENDED"
    <3>1. rwl' = rwl
        BY <1>4, <2>2 DEF Resume
    <3>2. rwl[m].lazy.writer = None
        BY <1>4, <2>0, <2>2 DEF WriterOf
    <3> QED
        BY <1>0, <3>1, <3>2 DEF TypeOK
  <2> QED
      BY <2>1, <2>2
<1>6. /\ \A k, x : Rec(k, x)' = Rec(k, x)
      /\ \A k, u, x : Count(k, u, x)' = Count(k, u, x)
    BY <1>3 DEF Rec, Count, Entries
<1>7. TypeOK'
    BY <1>0, <1>1, <1>3, <1>4, <1>5 DEF TypeOK, Busy
<1>8. ListInv'
    BY <1>0, <1>3 DEF ListInv
<1>9. CountInv'
    BY <1>0, <1>3, <1>6 DEF CountInv
<1>10. ReaderInv'
    BY <1>0, <1>5, <1>6 DEF ReaderInv
<1>11. WriterInv'
  <2>1. ASSUME NEW x \in Mount
        PROVE  WriterOf(x)'
    <3>1. WriterOf(x)
        BY <1>0 DEF WriterInv
    <3>2. CASE x = m
      <4>1. state[x] \in {"SUSPENDING", "SUSPENDED"}
          BY <1>2, <1>4, <3>1, <3>2 DEF WriterOf
      <4> QED
          BY <1>2, <1>3, <1>4, <1>5, <3>1, <3>2, <4>1 DEF WriterOf
    <3>3. CASE x # m
        BY <1>3, <1>4, <1>5, <3>1, <3>3 DEF WriterOf
    <3> QED
        BY <3>2, <3>3
  <2> QED
      BY <2>1 DEF WriterInv
<1>12. OwnerInv'
    BY <1>1, <1>3 DEF OwnerInv
<1> QED
    BY <1>7, <1>8, <1>9, <1>10, <1>11, <1>12 DEF FSTransInv

LEMMA TransResumeNormal ==
    ASSUME FSTransInv, NEW l \in LWP, NEW m \in Mount,
           ResumeNormal(l), m = smount
    PROVE  FSTransInv'
<1>0. /\ TypeOK /\ ListInv /\ CountInv /\ ReaderInv
      /\ WriterInv /\ OwnerInv
    BY DEF FSTransInv
<1>1. l = suspend /\ phase = "resuming" /\ phase' = "normal" /\ smount = m
    BY DEF ResumeNormal
<1>2. /\ UNCHANGED <<fli, rwl, handlers, running, suspend, smount, wait, stack>>
      /\ state' = [state EXCEPT ![m] = "NORMAL"]
    BY DEF ResumeNormal
<1>3. /\ \A k, x : Rec(k, x)' = Rec(k, x)
      /\ \A k, u, x : Count(k, u, x)' = Count(k, u, x)
    BY <1>2 DEF Rec, Count, Entries
<1>4. TypeOK'
    BY <1>0, <1>1, <1>2 DEF TypeOK, Busy
<1>5. ListInv'
    BY <1>0, <1>2 DEF ListInv
<1>6. CountInv' /\ ReaderInv'
    BY <1>0, <1>2, <1>3 DEF CountInv, ReaderInv
<1>7. WriterInv'
  <2>1. ASSUME NEW x \in Mount
        PROVE  WriterOf(x)'
    <3>1. WriterOf(x) /\ state'[x] = IF x = m THEN "NORMAL" ELSE state[x]
        BY <1>0, <1>2 DEF WriterInv, TypeOK
    <3> QED
        BY <1>1, <1>2, <3>1 DEF WriterOf
  <2> QED
      BY <2>1 DEF WriterInv
<1>8. OwnerInv'
    BY <1>0, <1>1, <1>2 DEF OwnerInv, Busy
<1> QED
    BY <1>4, <1>5, <1>6, <1>7, <1>8 DEF FSTransInv

LEMMA TransResumed ==
    ASSUME FSTransInv, NEW l \in LWP, NEW m \in Mount,
           Resumed(l), m = smount
    PROVE  FSTransInv'
<1> DEFINE r == Rec(l, m)
           e == [r EXCEPT !.trans = 0, !.type = None]
<1>0. /\ TypeOK /\ ListInv /\ CountInv /\ ReaderInv
      /\ WriterInv /\ OwnerInv
    BY DEF FSTransInv
<1>1. /\ r \in Record /\ r.mount = m /\ (r.trans = 0 <=> r.type = None)
      /\ r.trans \in Nat /\ r.cow \in Nat
    BY <1>0, TransRec DEF Record
<1>b. /\ wait[l] = Nothing /\ wait[l].what = "nothing"
      /\ None \notin LWP /\ None \notin {"LAZY", "SHARED", "EXCL"}
      /\ None \notin Mount
      /\ l = suspend /\ phase = "normal" /\ stack[l] = <<>>
    BY <1>0, FSTransAssumption DEF Resumed, OwnerInv, Busy, Nothing
<1>2. /\ wait[l] = Nothing /\ wait[l].what = "nothing"
      /\ None \notin LWP /\ None \notin {"LAZY", "SHARED", "EXCL"}
      /\ None \notin Mount
      /\ l = suspend /\ phase = "normal"
      /\ Count(l, "trans", m) = 0
      /\ rwl[m].shared.writer = l /\ r.type = "EXCL"
  <2>1. WriterOf(m)
      BY <1>0 DEF WriterInv
  <2>2. rwl[m].shared.writer = l
      BY <1>b, <2>1 DEF WriterOf
  <2>3. r.type = "EXCL"
      BY <1>0, <2>2 DEF ReaderInv
  <2>4. Count(l, "trans", m) = 0
      BY <1>0, <1>b, TransCounts
  <2> QED
      BY <1>b, <2>2, <2>3, <2>4
<1>3. /\ e \in Record /\ e.mount = m /\ (e.trans = 0 <=> e.type = None)
      /\ e.trans = 0 /\ e.type = None /\ e.cow = r.cow
  <2>1. 0 \in Nat /\ None \in {"LAZY", "SHARED", "EXCL", None}
      BY <1>1, <1>2
  <2>2. Fields(e, r, 0, None)
      BY <1>1, <2>1, TransFields
  <2> HIDE DEF e
  <2> QED
      BY <1>1, <1>2, <2>2 DEF Fields
<1>4. SetEntry(l, m, e)
    BY <1>0, TransEntry DEF Resumed
<1> HIDE DEF e
<1>5. /\ fli' \in [LWP -> Seq(Record)]
      /\ ListInv'
      /\ \A k \in LWP, x \in Mount :
            Rec(k, x)' = IF k = l /\ x = m THEN e ELSE Rec(k, x)
    BY <1>0, <1>3, <1>4, TransSet
<1>6. /\ stack' = stack
      /\ \A k, u, x : Count(k, u, x)' = Count(k, u, x)
    BY TransStay DEF Resumed
<1>a. /\ rwl' \in [Mount -> [Locks -> Held]]
      /\ \A x \in Mount :
            /\ rwl'[x].lazy.readers = rwl[x].lazy.readers
            /\ rwl'[x].lazy.writer = rwl[x].lazy.writer
            /\ rwl'[x].shared.readers = rwl[x].shared.readers
            /\ rwl'[x].shared.writer = IF x = m THEN None ELSE rwl[x].shared.writer
            /\ rwl'[x].cow.readers = rwl[x].cow.readers
            /\ rwl'[x].cow.writer = rwl[x].cow.writer
  <2> DEFINE k == "shared"
  <2>1. k \in Locks /\ rwl' = Unlock(l, m, k)
      BY <1>2 DEF Resumed, Locks
  <2>2. l \notin rwl[m].shared.readers
      BY <1>0, <1>2 DEF ReaderInv
  <2> HIDE DEF k
  <2>3. UnlockDoes(l, m, k)
      BY <1>0, <2>1, TransUnlock
  <2>4. Locks = {"lazy", "shared", "cow"}
      BY DEF Locks
  <2>5. rwl[m].shared.readers \ {l} = rwl[m].shared.readers
      BY <2>2
  <2> QED
      BY <1>2, <2>3, <2>4, <2>5 DEF k, UnlockDoes
<1>7. /\ UNCHANGED <<state, handlers, running, wait>>
      /\ suspend' = None /\ phase' = "none" /\ smount' = None /\ smount = m
    BY DEF Resumed, fmivars
<1>8. \A k \in LWP, x \in Mount, u \in {"trans", "run"} : Count(k, u, x) \in Nat
    BY <1>0, TransCounts
<1>9. /\ Counted(r, Count(l, "trans", m), Count(l, "run", m), wait[l], m)
      /\ Reads(l, r, Count(l, "run", m), rwl[m])
    BY <1>0 DEF CountInv, ReaderInv, Counted, Reads
<1>10. TypeOK'
    BY <1>0, <1>2, <1>5, <1>6, <1>7, <1>a DEF TypeOK
<1>11. /\ Count(l, "trans", m)' = Count(l, "trans", m)
       /\ Count(l, "run", m)' = Count(l, "run", m)
       /\ \A k \in LWP, x \in Mount :
             k # l \/ x # m => /\ Count(k, "trans", x)' = Count(k, "trans", x)
                               /\ Count(k, "run", x)' = Count(k, "run", x)
  <2>1. Count(l, "trans", m)' = Count(l, "trans", m)
      BY <1>6, <1>8
  <2>2. Count(l, "run", m)' = Count(l, "run", m)
      BY <1>6, <1>8
  <2>3. ASSUME NEW k \in LWP, NEW x \in Mount, k # l \/ x # m
        PROVE  /\ Count(k, "trans", x)' = Count(k, "trans", x)
               /\ Count(k, "run", x)' = Count(k, "run", x)
      BY <1>6, <1>8, <2>3
  <2> QED
      BY <2>1, <2>2, <2>3
<1>12. Counted(e, Count(l, "trans", m), Count(l, "run", m), wait'[l], m)
  <2>1. r.cow = Count(l, "run", m) /\ Count(l, "run", m) \in Nat
      BY <1>2, <1>8, <1>9 DEF Counted
  <2>2. wait'[l].what = "nothing"
      BY <1>2, <1>7
  <2> QED
      BY <1>2, <1>3, <2>1, <2>2 DEF Counted
<1>13. Reads(l, e, Count(l, "run", m), rwl'[m])
    BY <1>1, <1>2, <1>3, <1>7, <1>8, <1>9, <1>a DEF Reads
<1>14. Elsewhere(l, m) /\ WaitsHere(l, m)
  <2>1. ASSUME NEW k \in LWP, NEW x \in Mount, k # l \/ x # m
        PROVE  SameFor(k, rwl'[x], rwl[x])
    <3>1. CASE k # l
        BY <1>2, <1>a, <3>1 DEF SameFor
    <3>2. CASE x # m
        BY <1>a, <3>2 DEF SameFor
    <3> QED
        BY <2>1, <3>1, <3>2
  <2> QED
      BY <1>2, <1>5, <1>7, <1>11, <2>1 DEF Elsewhere, WaitsHere
<1>15. CountInv' /\ ReaderInv'
  <2>1. Rec(l, m)' = e
      BY <1>5
  <2> QED
      BY <1>0, <1>11, <1>12, <1>13, <1>14, <2>1, TransLocal
<1>16. WriterInv'
  <2>1. ASSUME NEW x \in Mount
        PROVE  WriterOf(x)'
    <3>1. WriterOf(x)
        BY <1>0 DEF WriterInv
    <3>2. CASE x = m
        BY <1>0, <1>2, <1>7, <1>9, <1>a, <3>1, <3>2 DEF TypeOK, WriterOf
    <3>3. CASE x # m
        BY <1>0, <1>2, <1>7, <1>a, <3>1, <3>3 DEF TypeOK, WriterOf
    <3> QED
        BY <3>2, <3>3
  <2> QED
      BY <2>1 DEF WriterInv
<1>17. OwnerInv'
    BY <1>7 DEF OwnerInv, Busy
<1> QED
    BY <1>5, <1>10, <1>15, <1>16, <1>17 DEF FSTransInv

\* A run that begins at once, and one that has to wait.
LEMMA TransRunAtOnce ==
    ASSUME FSTransInv, NEW l \in LWP, NEW m \in Mount,
           RunEnter(l, m), Rec(l, m).cow > 0 \/ CanRead(m, "cow")
    PROVE  FSTransInv'
<1> DEFINE r == Rec(l, m)
           e == [r EXCEPT !.cow = @ + 1]
<1>0. /\ TypeOK /\ ListInv /\ CountInv /\ ReaderInv
      /\ WriterInv /\ OwnerInv
    BY DEF FSTransInv
<1>2. /\ wait[l] = Nothing /\ wait[l].what = "nothing"
      /\ ~(l = suspend /\ phase \in Busy)
      /\ None \notin LWP /\ None \notin {"LAZY", "SHARED", "EXCL"}
    BY <1>0, TransRunning, FSTransAssumption DEF RunEnter
<1>b. /\ rwl' = ReadLock(l, m, "cow") /\ RunHandler(l, m)
      /\ Push(l, "run", m) /\ UNCHANGED wait
    BY <1>0, TransEntry DEF RunEnter
<1>1. /\ r \in Record /\ r.mount = m /\ (r.trans = 0 <=> r.type = None)
      /\ r.trans \in Nat /\ r.cow \in Nat
    BY <1>0, TransRec DEF Record
<1>3. /\ e \in Record /\ e.mount = m /\ (e.trans = 0 <=> e.type = None)
      /\ e.trans = r.trans /\ e.type = r.type /\ e.cow = r.cow + 1
    BY <1>0, <1>1, <1>2, FSTransAssumption DEF Record
<1>4. SetEntry(l, m, e)
    BY <1>0, TransEntry DEF RunEnter
<1> HIDE DEF e
<1>5. /\ fli' \in [LWP -> Seq(Record)]
      /\ ListInv'
      /\ \A k \in LWP, x \in Mount :
            Rec(k, x)' = IF k = l /\ x = m THEN e ELSE Rec(k, x)
    BY <1>0, <1>3, <1>4, TransSet
<1>6. /\ stack' \in [LWP -> Seq([what : {"trans", "run"}, mount : Mount])]
      /\ \A k \in LWP : k # l => stack'[k] = stack[k]
      /\ \A k \in LWP, u \in {"trans", "run"}, x \in Mount :
            Count(k, u, x)' = Count(k, u, x)
                + IF k = l /\ u = "run" /\ x = m THEN 1 ELSE 0
    BY ZenonT(60), <1>0, TransPush, <1>b
<1>a. /\ rwl' \in [Mount -> [Locks -> Held]]
      /\ \A x \in Mount :
            /\ rwl'[x].lazy.readers = rwl[x].lazy.readers
            /\ rwl'[x].lazy.writer = rwl[x].lazy.writer
            /\ rwl'[x].shared.readers = rwl[x].shared.readers
            /\ rwl'[x].shared.writer = rwl[x].shared.writer
            /\ rwl'[x].cow.readers =
                 IF x = m THEN rwl[x].cow.readers \cup {l} ELSE rwl[x].cow.readers
            /\ rwl'[x].cow.writer = rwl[x].cow.writer
  <2> DEFINE k == "cow"
  <2>1. k \in Locks /\ rwl' = ReadLock(l, m, k)
      BY <1>2, <1>b DEF Locks, LockOf
  <2> HIDE DEF k
  <2>3. ReadLockDoes(l, m, k)
      BY <1>0, <2>1, TransReadLock
  <2>4. Locks = {"lazy", "shared", "cow"}
      BY DEF Locks
  <2> QED
      BY <1>2, <2>3, <2>4 DEF k, LockOf, ReadLockDoes
<1>7. /\ UNCHANGED <<state, handlers, suspend, phase, smount, wait>>
      /\ running' \in [Mount -> SUBSET LWP]
      /\ \A x \in Mount :
            \/ running'[x] = running[x]
            \/ x = m /\ handlers[x] /\ running'[x] = running[x] \cup {l}
    BY <1>0, <1>b DEF RunEnter, RunHandler, TypeOK, suspendvars
<1>8. \A k \in LWP, x \in Mount, u \in {"trans", "run"} : Count(k, u, x) \in Nat
    BY <1>0, TransCounts
<1>9. /\ Counted(r, Count(l, "trans", m), Count(l, "run", m), wait[l], m)
      /\ Reads(l, r, Count(l, "run", m), rwl[m])
    BY <1>0 DEF CountInv, ReaderInv, Counted, Reads
<1>10. TypeOK'
    BY <1>0, <1>2, <1>5, <1>6, <1>7, <1>a DEF TypeOK
<1>11. /\ Count(l, "trans", m)' = Count(l, "trans", m)
       /\ Count(l, "run", m)' = Count(l, "run", m) + 1
       /\ \A k \in LWP, x \in Mount :
             k # l \/ x # m => /\ Count(k, "trans", x)' = Count(k, "trans", x)
                               /\ Count(k, "run", x)' = Count(k, "run", x)
  <2>1. Count(l, "trans", m)' = Count(l, "trans", m)
      BY <1>6, <1>8
  <2>2. Count(l, "run", m)' = Count(l, "run", m) + 1
      BY <1>6, <1>8
  <2>3. ASSUME NEW k \in LWP, NEW x \in Mount, k # l \/ x # m
        PROVE  /\ Count(k, "trans", x)' = Count(k, "trans", x)
               /\ Count(k, "run", x)' = Count(k, "run", x)
      BY <1>6, <1>8, <2>3
  <2> QED
      BY <2>1, <2>2, <2>3
<1>12. Counted(e, Count(l, "trans", m), Count(l, "run", m) + 1, wait'[l], m)
    BY <1>1, <1>2, <1>3, <1>7, <1>8, <1>9, <1>a DEF Counted
<1>13. Reads(l, e, Count(l, "run", m) + 1, rwl'[m])
  <2>1. l \in rwl'[m].cow.readers
      BY <1>a
  <2>2. Count(l, "run", m) + 1 > 0
      BY <1>8
  <2>3. /\ l \in rwl'[m].lazy.readers <=> e.type = "LAZY"
        /\ l \in rwl'[m].shared.readers <=> e.type = "SHARED"
        /\ l = rwl'[m].shared.writer <=> e.type = "EXCL"
      BY <1>3, <1>9, <1>a DEF Reads
  <2> QED
      BY <2>1, <2>2, <2>3 DEF Reads
<1>14. Elsewhere(l, m) /\ WaitsHere(l, m)
  <2>1. ASSUME NEW k \in LWP, NEW x \in Mount, k # l \/ x # m
        PROVE  SameFor(k, rwl'[x], rwl[x])
    <3>1. CASE k # l
      <4>0. rwl'[x].cow.readers = IF x = m THEN rwl[x].cow.readers \cup {l}
                                  ELSE rwl[x].cow.readers
          BY <1>a
      <4>1. k \in rwl'[x].cow.readers <=> k \in rwl[x].cow.readers
          BY <3>1, <4>0
      <4> QED
          BY <1>a, <4>1 DEF SameFor
    <3>2. CASE x # m
        BY <1>a, <3>2 DEF SameFor
    <3> QED
        BY <2>1, <3>1, <3>2
  <2> QED
      BY <1>2, <1>5, <1>7, <1>11, <2>1 DEF Elsewhere, WaitsHere
<1>15. CountInv' /\ ReaderInv'
  <2>1. Rec(l, m)' = e
      BY <1>5
  <2> QED
      BY <1>0, <1>11, <1>12, <1>13, <1>14, <2>1, TransLocal
<1>16. WriterInv'
  <2>1. ASSUME NEW x \in Mount
        PROVE  WriterOf(x)'
    <3>1. WriterOf(x)
        BY <1>0 DEF WriterInv
    <3>2. CASE x = m
      <4>1. /\ running'[x] \subseteq rwl'[x].cow.readers
            /\ running'[x] # {} => handlers'[x]
        <5>1. rwl'[x].cow.readers = rwl[x].cow.readers \cup {l}
            BY <1>a, <3>2
        <5>2. /\ handlers' = handlers
              /\ \/ running'[x] = running[x]
                 \/ handlers[x] /\ running'[x] = running[x] \cup {l}
            BY <1>7
        <5>3. /\ running[x] \subseteq rwl[x].cow.readers
              /\ running[x] # {} => handlers[x]
            BY <3>1 DEF WriterOf
        <5> QED
            BY <5>1, <5>2, <5>3
      <4>2. UNCHANGED <<state, suspend, phase, smount>>
          BY <1>7
      <4> QED
          BY <1>a, <3>1, <4>1, <4>2 DEF WriterOf
    <3>3. CASE x # m
        BY <1>0, <1>2, <1>7, <1>a, <3>1, <3>3 DEF TypeOK, WriterOf
    <3> QED
        BY <3>2, <3>3
  <2> QED
      BY <2>1 DEF WriterInv
<1>17. OwnerInv'
    BY <1>0, <1>2, <1>6, <1>7 DEF TypeOK, OwnerInv, Busy
<1> QED
    BY <1>5, <1>10, <1>15, <1>16, <1>17 DEF FSTransInv

LEMMA TransRunWaits ==
    ASSUME FSTransInv, NEW l \in LWP, NEW m \in Mount,
           RunEnter(l, m), ~(Rec(l, m).cow > 0 \/ CanRead(m, "cow"))
    PROVE  FSTransInv'
<1> DEFINE r == Rec(l, m)
           e == [r EXCEPT !.cow = @ + 1]
<1>0. /\ TypeOK /\ ListInv /\ CountInv /\ ReaderInv
      /\ WriterInv /\ OwnerInv
    BY DEF FSTransInv
<1>2. /\ wait[l] = Nothing /\ wait[l].what = "nothing"
      /\ ~(l = suspend /\ phase \in Busy)
      /\ None \notin LWP /\ None \notin {"LAZY", "SHARED", "EXCL"}
    BY <1>0, TransRunning, FSTransAssumption DEF RunEnter
<1>b. Waits(l, "run", m, None) /\ UNCHANGED <<rwl, running, stack>>
    BY <1>0, TransEntry DEF RunEnter
<1>1. /\ r \in Record /\ r.mount = m /\ (r.trans = 0 <=> r.type = None)
      /\ r.trans \in Nat /\ r.cow \in Nat
    BY <1>0, TransRec DEF Record
<1>3. /\ e \in Record /\ e.mount = m /\ (e.trans = 0 <=> e.type = None)
      /\ e.trans = r.trans /\ e.type = r.type /\ e.cow = r.cow + 1
    BY <1>0, <1>1, <1>2, FSTransAssumption DEF Record
<1>4. SetEntry(l, m, e)
    BY <1>0, TransEntry DEF RunEnter
<1> HIDE DEF e
<1>5. /\ fli' \in [LWP -> Seq(Record)]
      /\ ListInv'
      /\ \A k \in LWP, x \in Mount :
            Rec(k, x)' = IF k = l /\ x = m THEN e ELSE Rec(k, x)
    BY <1>0, <1>3, <1>4, TransSet
<1>6. /\ stack' = stack
      /\ \A k, u, x : Count(k, u, x)' = Count(k, u, x)
    BY TransStay, <1>b
<1>a. rwl' = rwl
    BY <1>b
<1>c. /\ WaitTyped /\ \A k \in LWP : k # l => wait'[k] = wait[k]
      /\ wait'[l] = [what |-> "run", mount |-> m, type |-> None]
    BY <1>0, <1>b, TransWait DEF Waits
<1>7. /\ UNCHANGED <<state, handlers, running, suspend, phase, smount>>
      /\ WaitTyped /\ \A k \in LWP : k # l => wait'[k] = wait[k]
      /\ wait'[l].what = "run" /\ wait'[l].mount = m
    BY <1>b, <1>c DEF RunEnter, suspendvars
<1>8. \A k \in LWP, x \in Mount, u \in {"trans", "run"} : Count(k, u, x) \in Nat
    BY <1>0, TransCounts
<1>9. /\ Counted(r, Count(l, "trans", m), Count(l, "run", m), wait[l], m)
      /\ Reads(l, r, Count(l, "run", m), rwl[m])
    BY <1>0 DEF CountInv, ReaderInv, Counted, Reads
<1>10. TypeOK'
    BY <1>0, <1>2, <1>5, <1>6, <1>7, <1>a DEF TypeOK, WaitTyped
<1>11. /\ Count(l, "trans", m)' = Count(l, "trans", m)
       /\ Count(l, "run", m)' = Count(l, "run", m)
       /\ \A k \in LWP, x \in Mount :
             k # l \/ x # m => /\ Count(k, "trans", x)' = Count(k, "trans", x)
                               /\ Count(k, "run", x)' = Count(k, "run", x)
  <2>1. Count(l, "trans", m)' = Count(l, "trans", m)
      BY <1>6, <1>8
  <2>2. Count(l, "run", m)' = Count(l, "run", m)
      BY <1>6, <1>8
  <2>3. ASSUME NEW k \in LWP, NEW x \in Mount, k # l \/ x # m
        PROVE  /\ Count(k, "trans", x)' = Count(k, "trans", x)
               /\ Count(k, "run", x)' = Count(k, "run", x)
      BY <1>6, <1>8, <2>3
  <2> QED
      BY <2>1, <2>2, <2>3
<1>12. Counted(e, Count(l, "trans", m), Count(l, "run", m), wait'[l], m)
    BY <1>1, <1>2, <1>3, <1>7, <1>8, <1>9, <1>a DEF Counted
<1>13. Reads(l, e, Count(l, "run", m), rwl'[m])
    BY <1>1, <1>2, <1>3, <1>7, <1>8, <1>9, <1>a DEF Reads
<1>14. Elsewhere(l, m) /\ WaitsHere(l, m)
  <2>1. ASSUME NEW k \in LWP, NEW x \in Mount, k # l \/ x # m
        PROVE  SameFor(k, rwl'[x], rwl[x])
    <3>1. CASE k # l
        BY <1>a, <3>1 DEF SameFor
    <3>2. CASE x # m
        BY <1>a, <3>2 DEF SameFor
    <3> QED
        BY <2>1, <3>1, <3>2
  <2> QED
      BY <1>2, <1>5, <1>7, <1>11, <2>1 DEF Elsewhere, WaitsHere
<1>15. CountInv' /\ ReaderInv'
  <2>1. Rec(l, m)' = e
      BY <1>5
  <2> QED
      BY <1>0, <1>11, <1>12, <1>13, <1>14, <2>1, TransLocal
<1>16. WriterInv'
  <2>1. ASSUME NEW x \in Mount
        PROVE  WriterOf(x)'
    <3>1. WriterOf(x)
        BY <1>0 DEF WriterInv
    <3>2. CASE x = m
        BY <1>0, <1>2, <1>7, <1>9, <1>a, <3>1, <3>2 DEF TypeOK, WriterOf
    <3>3. CASE x # m
        BY <1>0, <1>2, <1>7, <1>a, <3>1, <3>3 DEF TypeOK, WriterOf
    <3> QED
        BY <3>2, <3>3
  <2> QED
      BY <2>1 DEF WriterInv
<1>17. OwnerInv'
    BY <1>0, <1>2, <1>6, <1>7 DEF TypeOK, OwnerInv, Busy
<1> QED
    BY <1>5, <1>10, <1>15, <1>16, <1>17 DEF FSTransInv

LEMMA TransRunGranted ==
    ASSUME FSTransInv, NEW l \in LWP, NEW m \in Mount,
           RunGranted(l), m = wait[l].mount
    PROVE  FSTransInv'
<1> DEFINE r == Rec(l, m)
<1>0. /\ TypeOK /\ ListInv /\ CountInv /\ ReaderInv
      /\ WriterInv /\ OwnerInv
    BY DEF FSTransInv
<1>2. /\ None \notin LWP /\ wait[l].what = "run" /\ wait[l].mount = m
      /\ ~(l = suspend /\ phase \in Busy)
    BY <1>0, FSTransAssumption DEF RunGranted, OwnerInv, Nothing
<1>1. /\ r \in Record /\ r.mount = m /\ (r.trans = 0 <=> r.type = None)
      /\ r.trans \in Nat /\ r.cow \in Nat
    BY <1>0, TransRec DEF Record
<1>5. /\ fli' \in [LWP -> Seq(Record)]
      /\ ListInv'
      /\ \A k \in LWP, x \in Mount :
            Rec(k, x)' = IF k = l /\ x = m THEN r ELSE Rec(k, x)
    BY <1>0, TransSame DEF RunGranted
<1>b. Push(l, "run", m) /\ RunHandler(l, m)
    BY DEF RunGranted
<1>6. /\ stack' \in [LWP -> Seq([what : {"trans", "run"}, mount : Mount])]
      /\ \A k \in LWP : k # l => stack'[k] = stack[k]
      /\ \A k \in LWP, u \in {"trans", "run"}, x \in Mount :
            Count(k, u, x)' = Count(k, u, x)
                + IF k = l /\ u = "run" /\ x = m THEN 1 ELSE 0
    BY ZenonT(60), <1>0, TransPush, <1>b
<1>a. /\ rwl' \in [Mount -> [Locks -> Held]]
      /\ \A x \in Mount :
            /\ rwl'[x].lazy.readers = rwl[x].lazy.readers
            /\ rwl'[x].lazy.writer = rwl[x].lazy.writer
            /\ rwl'[x].shared.readers = rwl[x].shared.readers
            /\ rwl'[x].shared.writer = rwl[x].shared.writer
            /\ rwl'[x].cow.readers =
                 IF x = m THEN rwl[x].cow.readers \cup {l} ELSE rwl[x].cow.readers
            /\ rwl'[x].cow.writer = rwl[x].cow.writer
  <2> DEFINE k == "cow"
  <2>1. k \in Locks /\ rwl' = ReadLock(l, m, k)
      BY <1>2 DEF RunGranted, Locks, LockOf
  <2> HIDE DEF k
  <2>3. ReadLockDoes(l, m, k)
      BY <1>0, <2>1, TransReadLock
  <2>4. Locks = {"lazy", "shared", "cow"}
      BY DEF Locks
  <2> QED
      BY <1>2, <2>3, <2>4 DEF k, LockOf, ReadLockDoes
<1>c. WaitTyped /\ wait'[l] = Nothing /\ \A k \in LWP : k # l => wait'[k] = wait[k]
    BY <1>0, TransWait DEF RunGranted, Goes
<1>7. /\ UNCHANGED <<state, handlers, suspend, phase, smount>>
      /\ WaitTyped /\ wait'[l] = Nothing /\ wait'[l].what = "nothing"
      /\ \A k \in LWP : k # l => wait'[k] = wait[k]
      /\ running' \in [Mount -> SUBSET LWP]
      /\ \A x \in Mount :
            \/ running'[x] = running[x]
            \/ x = m /\ handlers[x] /\ running'[x] = running[x] \cup {l}
    BY <1>0, <1>b, <1>c DEF RunGranted, RunHandler, TypeOK, suspendvars, Nothing
<1>8. \A k \in LWP, x \in Mount, u \in {"trans", "run"} : Count(k, u, x) \in Nat
    BY <1>0, TransCounts
<1>9. /\ Counted(r, Count(l, "trans", m), Count(l, "run", m), wait[l], m)
      /\ Reads(l, r, Count(l, "run", m), rwl[m])
    BY <1>0 DEF CountInv, ReaderInv, Counted, Reads
<1>10. TypeOK'
    BY <1>0, <1>2, <1>5, <1>6, <1>7, <1>a DEF TypeOK, WaitTyped
<1>11. /\ Count(l, "trans", m)' = Count(l, "trans", m)
       /\ Count(l, "run", m)' = Count(l, "run", m) + 1
       /\ \A k \in LWP, x \in Mount :
             k # l \/ x # m => /\ Count(k, "trans", x)' = Count(k, "trans", x)
                               /\ Count(k, "run", x)' = Count(k, "run", x)
  <2>1. Count(l, "trans", m)' = Count(l, "trans", m)
      BY <1>6, <1>8
  <2>2. Count(l, "run", m)' = Count(l, "run", m) + 1
      BY <1>6, <1>8
  <2>3. ASSUME NEW k \in LWP, NEW x \in Mount, k # l \/ x # m
        PROVE  /\ Count(k, "trans", x)' = Count(k, "trans", x)
               /\ Count(k, "run", x)' = Count(k, "run", x)
      BY <1>6, <1>8, <2>3
  <2> QED
      BY <2>1, <2>2, <2>3
<1>12. Counted(r, Count(l, "trans", m), Count(l, "run", m) + 1, wait'[l], m)
    BY <1>1, <1>2, <1>7, <1>8, <1>9, <1>a DEF Counted
<1>13. Reads(l, r, Count(l, "run", m) + 1, rwl'[m])
  <2>1. l \in rwl'[m].cow.readers
      BY <1>a
  <2>2. Count(l, "run", m) + 1 > 0
      BY <1>8
  <2>3. /\ l \in rwl'[m].lazy.readers <=> r.type = "LAZY"
        /\ l \in rwl'[m].shared.readers <=> r.type = "SHARED"
        /\ l = rwl'[m].shared.writer <=> r.type = "EXCL"
      BY <1>9, <1>a DEF Reads
  <2> QED
      BY <2>1, <2>2, <2>3 DEF Reads
<1>14. Elsewhere(l, m) /\ WaitsHere(l, m)
  <2>1. ASSUME NEW k \in LWP, NEW x \in Mount, k # l \/ x # m
        PROVE  SameFor(k, rwl'[x], rwl[x])
    <3>1. CASE k # l
      <4>0. rwl'[x].cow.readers = IF x = m THEN rwl[x].cow.readers \cup {l}
                                  ELSE rwl[x].cow.readers
          BY <1>a
      <4>1. k \in rwl'[x].cow.readers <=> k \in rwl[x].cow.readers
          BY <3>1, <4>0
      <4> QED
          BY <1>a, <4>1 DEF SameFor
    <3>2. CASE x # m
        BY <1>a, <3>2 DEF SameFor
    <3> QED
        BY <2>1, <3>1, <3>2
  <2> QED
      BY <1>2, <1>5, <1>7, <1>11, <2>1 DEF Elsewhere, WaitsHere
<1>15. CountInv' /\ ReaderInv'
  <2>1. Rec(l, m)' = r
      BY <1>5
  <2> QED
      BY <1>0, <1>11, <1>12, <1>13, <1>14, <2>1, TransLocal
<1>16. WriterInv'
  <2>1. ASSUME NEW x \in Mount
        PROVE  WriterOf(x)'
    <3>1. WriterOf(x)
        BY <1>0 DEF WriterInv
    <3>2. CASE x = m
      <4>1. /\ running'[x] \subseteq rwl'[x].cow.readers
            /\ running'[x] # {} => handlers'[x]
        <5>1. rwl'[x].cow.readers = rwl[x].cow.readers \cup {l}
            BY <1>a, <3>2
        <5>2. /\ handlers' = handlers
              /\ \/ running'[x] = running[x]
                 \/ handlers[x] /\ running'[x] = running[x] \cup {l}
            BY <1>7
        <5>3. /\ running[x] \subseteq rwl[x].cow.readers
              /\ running[x] # {} => handlers[x]
            BY <3>1 DEF WriterOf
        <5> QED
            BY <5>1, <5>2, <5>3
      <4>2. UNCHANGED <<state, suspend, phase, smount>>
          BY <1>7
      <4> QED
          BY <1>a, <3>1, <4>1, <4>2 DEF WriterOf
    <3>3. CASE x # m
        BY ZenonT(60), <1>0, <1>2, <1>7, <1>a, <3>1, <3>3 DEF TypeOK, WriterOf
    <3> QED
        BY <3>2, <3>3
  <2> QED
      BY <2>1 DEF WriterInv
<1>17. OwnerInv'
    BY <1>0, <1>2, <1>6, <1>7 DEF TypeOK, OwnerInv, Busy
<1> QED
    BY <1>5, <1>10, <1>15, <1>16, <1>17 DEF FSTransInv

\* A run in a run ends, and the outermost one.
LEMMA TransRunInner ==
    ASSUME FSTransInv, NEW l \in LWP, NEW m \in Mount,
           RunExit(l, m), Rec(l, m).cow # 1
    PROVE  FSTransInv'
<1> DEFINE r == Rec(l, m)
           e == [r EXCEPT !.cow = @ - 1]
<1>0. /\ TypeOK /\ ListInv /\ CountInv /\ ReaderInv
      /\ WriterInv /\ OwnerInv
    BY DEF FSTransInv
<1>b. /\ wait[l] = Nothing /\ wait[l].what = "nothing"
      /\ ~(l = suspend /\ phase \in Busy)
      /\ None \notin LWP /\ Top(l, "run", m) /\ Pop(l)
    BY <1>0, TransRunning, FSTransAssumption DEF RunExit
<1>6. /\ stack' \in [LWP -> Seq([what : {"trans", "run"}, mount : Mount])]
      /\ \A k \in LWP : k # l => stack'[k] = stack[k]
      /\ \A k \in LWP, u \in {"trans", "run"}, x \in Mount :
            /\ Count(k, u, x) = Count(k, u, x)'
                   + IF k = l /\ u = "run" /\ x = m THEN 1 ELSE 0
            /\ Count(k, u, x)' \in Nat
    BY <1>0, TransPop, <1>b
<1>2. /\ wait[l] = Nothing /\ wait[l].what = "nothing"
      /\ ~(l = suspend /\ phase \in Busy)
      /\ r.cow = Count(l, "run", m) /\ r.cow \in Nat /\ r.cow > 1
  <2>1. /\ Count(l, "run", m) = Count(l, "run", m)' + 1
        /\ Count(l, "run", m)' \in Nat
      BY <1>6
  <2>2. r.cow = Count(l, "run", m)
    <3>1. r.cow = Count(l, "run", m) + 0
        BY <1>0, <1>b DEF CountInv
    <3> QED
        BY <2>1, <3>1
  <2>3. r.cow \in Nat /\ r.cow > 1
      BY <2>1, <2>2
  <2> QED
      BY <1>b, <2>2, <2>3
<1>1. /\ r \in Record /\ r.mount = m /\ (r.trans = 0 <=> r.type = None)
      /\ r.trans \in Nat /\ r.cow \in Nat
    BY <1>0, TransRec DEF Record
<1>3. /\ e \in Record /\ e.mount = m /\ (e.trans = 0 <=> e.type = None)
      /\ e.trans = r.trans /\ e.type = r.type /\ e.cow = r.cow - 1
    BY <1>0, <1>1, <1>2, FSTransAssumption DEF Record
<1>4. SetEntry(l, m, e)
    BY <1>0, TransEntry DEF RunExit
<1> HIDE DEF e
<1>5. /\ fli' \in [LWP -> Seq(Record)]
      /\ ListInv'
      /\ \A k \in LWP, x \in Mount :
            Rec(k, x)' = IF k = l /\ x = m THEN e ELSE Rec(k, x)
    BY <1>0, <1>3, <1>4, TransSet
<1>a. rwl' = rwl
    BY <1>0, <1>2, TransEntry DEF RunExit
<1>7. UNCHANGED <<state, handlers, running, suspend, phase, smount, wait>>
    BY <1>0, <1>2, TransEntry DEF RunExit, suspendvars
<1>8. \A k \in LWP, x \in Mount, u \in {"trans", "run"} : Count(k, u, x) \in Nat
    BY <1>0, TransCounts
<1>9. /\ Counted(r, Count(l, "trans", m), Count(l, "run", m), wait[l], m)
      /\ Reads(l, r, Count(l, "run", m), rwl[m])
    BY <1>0 DEF CountInv, ReaderInv, Counted, Reads
<1>10. TypeOK'
    BY <1>0, <1>2, <1>5, <1>6, <1>7, <1>a DEF TypeOK
<1>11. /\ Count(l, "trans", m)' = Count(l, "trans", m)
       /\ Count(l, "run", m)' = Count(l, "run", m) - 1
       /\ \A k \in LWP, x \in Mount :
             k # l \/ x # m => /\ Count(k, "trans", x)' = Count(k, "trans", x)
                               /\ Count(k, "run", x)' = Count(k, "run", x)
  <2>1. Count(l, "trans", m)' = Count(l, "trans", m)
      BY <1>6, <1>8
  <2>2. Count(l, "run", m)' = Count(l, "run", m) - 1
      BY <1>6, <1>8
  <2>3. ASSUME NEW k \in LWP, NEW x \in Mount, k # l \/ x # m
        PROVE  /\ Count(k, "trans", x)' = Count(k, "trans", x)
               /\ Count(k, "run", x)' = Count(k, "run", x)
      BY <1>6, <1>8, <2>3
  <2> QED
      BY <2>1, <2>2, <2>3
<1>12. Counted(e, Count(l, "trans", m), Count(l, "run", m) - 1, wait'[l], m)
    BY <1>1, <1>2, <1>3, <1>7, <1>8, <1>9, <1>a DEF Counted
<1>13. Reads(l, e, Count(l, "run", m) - 1, rwl'[m])
    BY <1>1, <1>2, <1>3, <1>7, <1>8, <1>9, <1>a DEF Reads
<1>14. Elsewhere(l, m) /\ WaitsHere(l, m)
  <2>1. ASSUME NEW k \in LWP, NEW x \in Mount, k # l \/ x # m
        PROVE  SameFor(k, rwl'[x], rwl[x])
    <3>1. CASE k # l
        BY <1>a, <3>1 DEF SameFor
    <3>2. CASE x # m
        BY <1>a, <3>2 DEF SameFor
    <3> QED
        BY <2>1, <3>1, <3>2
  <2> QED
      BY <1>2, <1>5, <1>7, <1>11, <2>1 DEF Elsewhere, WaitsHere
<1>15. CountInv' /\ ReaderInv'
  <2>1. Rec(l, m)' = e
      BY <1>5
  <2> QED
      BY <1>0, <1>11, <1>12, <1>13, <1>14, <2>1, TransLocal
<1>16. WriterInv'
  <2>1. ASSUME NEW x \in Mount
        PROVE  WriterOf(x)'
    <3>1. WriterOf(x)
        BY <1>0 DEF WriterInv
    <3>2. CASE x = m
        BY <1>0, <1>2, <1>7, <1>9, <1>a, <3>1, <3>2 DEF TypeOK, WriterOf
    <3>3. CASE x # m
        BY <1>0, <1>2, <1>7, <1>a, <3>1, <3>3 DEF TypeOK, WriterOf
    <3> QED
        BY <3>2, <3>3
  <2> QED
      BY <2>1 DEF WriterInv
<1>17. OwnerInv'
    BY <1>0, <1>2, <1>6, <1>7 DEF TypeOK, OwnerInv, Busy
<1> QED
    BY <1>5, <1>10, <1>15, <1>16, <1>17 DEF FSTransInv

LEMMA TransRunLast ==
    ASSUME FSTransInv, NEW l \in LWP, NEW m \in Mount,
           RunExit(l, m), Rec(l, m).cow = 1
    PROVE  FSTransInv'
<1> DEFINE r == Rec(l, m)
           e == [r EXCEPT !.cow = @ - 1]
<1>0. /\ TypeOK /\ ListInv /\ CountInv /\ ReaderInv
      /\ WriterInv /\ OwnerInv
    BY DEF FSTransInv
<1>b. /\ wait[l] = Nothing /\ wait[l].what = "nothing"
      /\ ~(l = suspend /\ phase \in Busy)
      /\ None \notin LWP /\ Top(l, "run", m) /\ Pop(l)
    BY <1>0, TransRunning, FSTransAssumption DEF RunExit
<1>6. /\ stack' \in [LWP -> Seq([what : {"trans", "run"}, mount : Mount])]
      /\ \A k \in LWP : k # l => stack'[k] = stack[k]
      /\ \A k \in LWP, u \in {"trans", "run"}, x \in Mount :
            /\ Count(k, u, x) = Count(k, u, x)'
                   + IF k = l /\ u = "run" /\ x = m THEN 1 ELSE 0
            /\ Count(k, u, x)' \in Nat
    BY <1>0, TransPop, <1>b
<1>2. /\ wait[l] = Nothing /\ wait[l].what = "nothing"
      /\ ~(l = suspend /\ phase \in Busy)
      /\ r.cow = 1 /\ Count(l, "run", m) = 1
      /\ rwl[m].cow.writer # l /\ rwl' = Unlock(l, m, "cow")
  <2>1. /\ Count(l, "run", m) = Count(l, "run", m)' + 1
        /\ Count(l, "run", m)' \in Nat
      BY <1>6
  <2>2. r.cow = Count(l, "run", m) + 0
      BY <1>0, <1>b DEF CountInv
  <2>3. rwl[m].cow.writer # l
      BY <1>0, <1>b DEF WriterInv, WriterOf
  <2>4. rwl' = Unlock(l, m, "cow")
      BY <1>0, TransEntry DEF RunExit
  <2> QED
      BY <1>b, <2>1, <2>2, <2>3, <2>4
<1>1. /\ r \in Record /\ r.mount = m /\ (r.trans = 0 <=> r.type = None)
      /\ r.trans \in Nat /\ r.cow \in Nat
    BY <1>0, TransRec DEF Record
<1>3. /\ e \in Record /\ e.mount = m /\ (e.trans = 0 <=> e.type = None)
      /\ e.trans = r.trans /\ e.type = r.type /\ e.cow = r.cow - 1
    BY <1>0, <1>1, <1>2, FSTransAssumption DEF Record
<1>4. SetEntry(l, m, e)
    BY <1>0, TransEntry DEF RunExit
<1> HIDE DEF e
<1>5. /\ fli' \in [LWP -> Seq(Record)]
      /\ ListInv'
      /\ \A k \in LWP, x \in Mount :
            Rec(k, x)' = IF k = l /\ x = m THEN e ELSE Rec(k, x)
    BY <1>0, <1>3, <1>4, TransSet
<1>a. /\ rwl' \in [Mount -> [Locks -> Held]]
      /\ \A x \in Mount :
            /\ rwl'[x].lazy.readers = rwl[x].lazy.readers
            /\ rwl'[x].lazy.writer = rwl[x].lazy.writer
            /\ rwl'[x].shared.readers = rwl[x].shared.readers
            /\ rwl'[x].shared.writer = rwl[x].shared.writer
            /\ rwl'[x].cow.readers =
                 IF x = m THEN rwl[x].cow.readers \ {l} ELSE rwl[x].cow.readers
            /\ rwl'[x].cow.writer = rwl[x].cow.writer
  <2> DEFINE k == "cow"
  <2>1. k \in Locks /\ rwl' = Unlock(l, m, k)
      BY <1>2 DEF Locks, LockOf
  <2> HIDE DEF k
  <2>3. UnlockDoes(l, m, k)
      BY <1>0, <2>1, TransUnlock
  <2>4. Locks = {"lazy", "shared", "cow"}
      BY DEF Locks
  <2> QED
      BY <1>2, <2>3, <2>4 DEF k, LockOf, UnlockDoes
<1>7. /\ UNCHANGED <<state, handlers, suspend, phase, smount, wait>>
      /\ running' = [running EXCEPT ![m] = @ \ {l}]
    BY <1>0, <1>2, TransEntry DEF RunExit, suspendvars
<1>8. \A k \in LWP, x \in Mount, u \in {"trans", "run"} : Count(k, u, x) \in Nat
    BY <1>0, TransCounts
<1>9. /\ Counted(r, Count(l, "trans", m), Count(l, "run", m), wait[l], m)
      /\ Reads(l, r, Count(l, "run", m), rwl[m])
    BY <1>0 DEF CountInv, ReaderInv, Counted, Reads
<1>10. TypeOK'
    BY <1>0, <1>2, <1>5, <1>6, <1>7, <1>a DEF TypeOK
<1>11. /\ Count(l, "trans", m)' = Count(l, "trans", m)
       /\ Count(l, "run", m)' = Count(l, "run", m) - 1
       /\ \A k \in LWP, x \in Mount :
             k # l \/ x # m => /\ Count(k, "trans", x)' = Count(k, "trans", x)
                               /\ Count(k, "run", x)' = Count(k, "run", x)
  <2>1. Count(l, "trans", m)' = Count(l, "trans", m)
      BY <1>6, <1>8
  <2>2. Count(l, "run", m)' = Count(l, "run", m) - 1
      BY <1>6, <1>8
  <2>3. ASSUME NEW k \in LWP, NEW x \in Mount, k # l \/ x # m
        PROVE  /\ Count(k, "trans", x)' = Count(k, "trans", x)
               /\ Count(k, "run", x)' = Count(k, "run", x)
      BY SMTT(30), <1>6, <1>8, <2>3
  <2> QED
      BY <2>1, <2>2, <2>3
<1>12. Counted(e, Count(l, "trans", m), Count(l, "run", m) - 1, wait'[l], m)
    BY <1>1, <1>2, <1>3, <1>7, <1>8, <1>9, <1>a DEF Counted
<1>13. Reads(l, e, Count(l, "run", m) - 1, rwl'[m])
  <2>1. rwl'[m].cow.readers = rwl[m].cow.readers \ {l}
      BY <1>a
  <2>2. ~(Count(l, "run", m) - 1 > 0)
      BY <1>2
  <2>3. /\ l \in rwl'[m].lazy.readers <=> e.type = "LAZY"
        /\ l \in rwl'[m].shared.readers <=> e.type = "SHARED"
        /\ l = rwl'[m].shared.writer <=> e.type = "EXCL"
      BY <1>3, <1>9, <1>a DEF Reads
  <2> QED
      BY <2>1, <2>2, <2>3 DEF Reads
<1>14. Elsewhere(l, m) /\ WaitsHere(l, m)
  <2>1. ASSUME NEW k \in LWP, NEW x \in Mount, k # l \/ x # m
        PROVE  SameFor(k, rwl'[x], rwl[x])
    <3>1. CASE k # l
        BY <1>a, <3>1 DEF SameFor
    <3>2. CASE x # m
        BY <1>a, <3>2 DEF SameFor
    <3> QED
        BY <2>1, <3>1, <3>2
  <2> QED
      BY <1>2, <1>5, <1>7, <1>11, <2>1 DEF Elsewhere, WaitsHere
<1>15. CountInv' /\ ReaderInv'
  <2>1. Rec(l, m)' = e
      BY <1>5
  <2> QED
      BY <1>0, <1>11, <1>12, <1>13, <1>14, <2>1, TransLocal
<1>16. WriterInv'
  <2>1. ASSUME NEW x \in Mount
        PROVE  WriterOf(x)'
    <3>1. WriterOf(x)
        BY <1>0 DEF WriterInv
    <3>2. CASE x = m
      <4>1. /\ rwl'[x].cow.readers = rwl[x].cow.readers \ {l}
            /\ rwl'[x].cow.writer = rwl[x].cow.writer
            /\ rwl'[x].lazy.readers = rwl[x].lazy.readers
            /\ rwl'[x].lazy.writer = rwl[x].lazy.writer
            /\ rwl'[x].shared.readers = rwl[x].shared.readers
            /\ rwl'[x].shared.writer = rwl[x].shared.writer
          BY <1>a, <3>2
      <4>2. running'[x] = running[x] \ {l}
          BY <1>0, <1>7, <3>2 DEF TypeOK
      <4>3. UNCHANGED <<state, handlers, suspend, phase, smount>>
          BY <1>7
      <4>4. /\ running'[x] \subseteq rwl'[x].cow.readers
            /\ running'[x] # {} => handlers'[x]
          BY <3>1, <4>1, <4>2, <4>3 DEF WriterOf
      <4> QED
          BY <3>1, <4>1, <4>3, <4>4 DEF WriterOf
    <3>3. CASE x # m
        BY ZenonT(60), <1>0, <1>2, <1>7, <1>a, <3>1, <3>3 DEF TypeOK, WriterOf
    <3> QED
        BY <3>2, <3>3
  <2> QED
      BY <2>1 DEF WriterInv
<1>17. OwnerInv'
    BY <1>0, <1>2, <1>6, <1>7 DEF TypeOK, OwnerInv, Busy
<1> QED
    BY <1>5, <1>10, <1>15, <1>16, <1>17 DEF FSTransInv

LEMMA TransAsks ==
    ASSUME FSTransInv, NEW l \in LWP, NEW m \in Mount,
           NEW what \in {"establish", "disestablish"}, Change(l, m, what)
    PROVE  FSTransInv'
<1> DEFINE r == Rec(l, m)
<1>0. /\ TypeOK /\ ListInv /\ CountInv /\ ReaderInv
      /\ WriterInv /\ OwnerInv
    BY DEF FSTransInv
<1>2. /\ wait[l] = Nothing /\ wait[l].what = "nothing"
      /\ ~(l = suspend /\ phase \in Busy)
      /\ None \notin LWP /\ None \notin {"LAZY", "SHARED", "EXCL"}
    BY <1>0, TransRunning, FSTransAssumption DEF Change
<1>1. /\ r \in Record /\ r.mount = m /\ (r.trans = 0 <=> r.type = None)
      /\ r.trans \in Nat /\ r.cow \in Nat
    BY <1>0, TransRec DEF Record
<1>5. /\ fli' \in [LWP -> Seq(Record)]
      /\ ListInv'
      /\ \A k \in LWP, x \in Mount :
            Rec(k, x)' = IF k = l /\ x = m THEN r ELSE Rec(k, x)
    BY <1>0, TransSame DEF Change
<1>6. /\ stack' = stack
      /\ \A k, u, x : Count(k, u, x)' = Count(k, u, x)
    BY TransStay DEF Change
<1>a. /\ rwl' \in [Mount -> [Locks -> Held]]
      /\ \A x \in Mount :
            /\ rwl'[x].lazy.readers = rwl[x].lazy.readers
            /\ rwl'[x].lazy.writer = rwl[x].lazy.writer
            /\ rwl'[x].shared.readers = rwl[x].shared.readers
            /\ rwl'[x].shared.writer = rwl[x].shared.writer
            /\ rwl'[x].cow.readers = rwl[x].cow.readers
            /\ rwl'[x].cow.writer = rwl[x].cow.writer
  <2> DEFINE k == "cow"
  <2>1. k \in Locks /\ rwl' = Want(l, m, k)
      BY <1>2 DEF Change, Locks, LockOf
  <2> HIDE DEF k
  <2>3. WantDoes(l, m, k)
      BY <1>0, <2>1, TransWant
  <2>4. Locks = {"lazy", "shared", "cow"}
      BY DEF Locks
  <2> QED
      BY <1>2, <2>3, <2>4 DEF k, LockOf, WantDoes
<1>c. /\ WaitTyped /\ \A k \in LWP : k # l => wait'[k] = wait[k]
      /\ wait'[l] = [what |-> what, mount |-> m, type |-> None]
    BY <1>0, TransWait DEF Waits, Change
<1>7. /\ UNCHANGED <<state, handlers, running, suspend, phase, smount>>
      /\ WaitTyped /\ \A k \in LWP : k # l => wait'[k] = wait[k]
      /\ wait'[l].what \in {"establish", "disestablish"}
    BY <1>c DEF Change, suspendvars, fmivars
<1>8. \A k \in LWP, x \in Mount, u \in {"trans", "run"} : Count(k, u, x) \in Nat
    BY <1>0, TransCounts
<1>9. /\ Counted(r, Count(l, "trans", m), Count(l, "run", m), wait[l], m)
      /\ Reads(l, r, Count(l, "run", m), rwl[m])
    BY <1>0 DEF CountInv, ReaderInv, Counted, Reads
<1>10. TypeOK'
    BY <1>0, <1>2, <1>5, <1>6, <1>7, <1>a DEF TypeOK, WaitTyped
<1>11. /\ Count(l, "trans", m)' = Count(l, "trans", m)
       /\ Count(l, "run", m)' = Count(l, "run", m)
       /\ \A k \in LWP, x \in Mount :
             k # l \/ x # m => /\ Count(k, "trans", x)' = Count(k, "trans", x)
                               /\ Count(k, "run", x)' = Count(k, "run", x)
  <2>1. Count(l, "trans", m)' = Count(l, "trans", m)
      BY <1>6, <1>8
  <2>2. Count(l, "run", m)' = Count(l, "run", m)
      BY <1>6, <1>8
  <2>3. ASSUME NEW k \in LWP, NEW x \in Mount, k # l \/ x # m
        PROVE  /\ Count(k, "trans", x)' = Count(k, "trans", x)
               /\ Count(k, "run", x)' = Count(k, "run", x)
      BY <1>6, <1>8, <2>3
  <2> QED
      BY <2>1, <2>2, <2>3
<1>12. Counted(r, Count(l, "trans", m), Count(l, "run", m), wait'[l], m)
    BY <1>1, <1>2, <1>7, <1>8, <1>9, <1>a DEF Counted
<1>13. Reads(l, r, Count(l, "run", m), rwl'[m])
    BY <1>1, <1>2, <1>7, <1>8, <1>9, <1>a DEF Reads
<1>14. Elsewhere(l, m) /\ WaitsHere(l, m)
  <2>1. ASSUME NEW k \in LWP, NEW x \in Mount, k # l \/ x # m
        PROVE  SameFor(k, rwl'[x], rwl[x])
    <3>1. CASE k # l
        BY <1>a, <3>1 DEF SameFor
    <3>2. CASE x # m
        BY <1>a, <3>2 DEF SameFor
    <3> QED
        BY <2>1, <3>1, <3>2
  <2> QED
      BY <1>2, <1>5, <1>7, <1>11, <2>1 DEF Elsewhere, WaitsHere
<1>15. CountInv' /\ ReaderInv'
  <2>1. Rec(l, m)' = r
      BY <1>5
  <2> QED
      BY <1>0, <1>11, <1>12, <1>13, <1>14, <2>1, TransLocal
<1>16. WriterInv'
  <2>1. ASSUME NEW x \in Mount
        PROVE  WriterOf(x)'
    <3>1. WriterOf(x)
        BY <1>0 DEF WriterInv
    <3>2. CASE x = m
        BY <1>0, <1>2, <1>7, <1>9, <1>a, <3>1, <3>2 DEF TypeOK, WriterOf
    <3>3. CASE x # m
        BY <1>0, <1>2, <1>7, <1>a, <3>1, <3>3 DEF TypeOK, WriterOf
    <3> QED
        BY <3>2, <3>3
  <2> QED
      BY <2>1 DEF WriterInv
<1>17. OwnerInv'
    BY <1>0, <1>2, <1>6, <1>7 DEF TypeOK, OwnerInv, Busy
<1> QED
    BY <1>5, <1>10, <1>15, <1>16, <1>17 DEF FSTransInv

LEMMA TransChanged ==
    ASSUME FSTransInv, NEW l \in LWP, NEW m \in Mount,
           Changed(l), m = wait[l].mount
    PROVE  FSTransInv'
<1> DEFINE r == Rec(l, m)
<1>0. /\ TypeOK /\ ListInv /\ CountInv /\ ReaderInv
      /\ WriterInv /\ OwnerInv
    BY DEF FSTransInv
<1>2. /\ None \notin LWP /\ wait[l].what \in {"establish", "disestablish"}
      /\ ~(l = suspend /\ phase \in Busy)
      /\ rwl[m].cow.writer = None /\ rwl[m].cow.readers = {}
    BY <1>0, FSTransAssumption DEF Changed, CanWrite, OwnerInv, Nothing
<1>1. /\ r \in Record /\ r.mount = m /\ (r.trans = 0 <=> r.type = None)
      /\ r.trans \in Nat /\ r.cow \in Nat
    BY <1>0, TransRec DEF Record
<1>5. /\ fli' \in [LWP -> Seq(Record)]
      /\ ListInv'
      /\ \A k \in LWP, x \in Mount :
            Rec(k, x)' = IF k = l /\ x = m THEN r ELSE Rec(k, x)
    BY <1>0, TransSame DEF Changed
<1>6. /\ stack' = stack
      /\ \A k, u, x : Count(k, u, x)' = Count(k, u, x)
    BY TransStay DEF Changed
<1>a. /\ rwl' \in [Mount -> [Locks -> Held]]
      /\ \A x \in Mount :
            /\ rwl'[x].lazy.readers = rwl[x].lazy.readers
            /\ rwl'[x].lazy.writer = rwl[x].lazy.writer
            /\ rwl'[x].shared.readers = rwl[x].shared.readers
            /\ rwl'[x].shared.writer = rwl[x].shared.writer
            /\ rwl'[x].cow.readers = rwl[x].cow.readers
            /\ rwl'[x].cow.writer = rwl[x].cow.writer
  <2> DEFINE k == "cow"
  <2>1. k \in Locks /\ rwl' = Unlock(l, m, k)
      BY <1>2 DEF Changed, Locks, LockOf
  <2> HIDE DEF k
  <2>3. UnlockDoes(l, m, k)
      BY <1>0, <2>1, TransUnlock
  <2>4. Locks = {"lazy", "shared", "cow"}
      BY DEF Locks
  <2> QED
      BY <1>2, <2>3, <2>4 DEF k, LockOf, UnlockDoes
<1>c. WaitTyped /\ wait'[l] = Nothing /\ \A k \in LWP : k # l => wait'[k] = wait[k]
    BY <1>0, TransWait DEF Changed, Goes
<1>7. /\ UNCHANGED <<state, running, suspend, phase, smount>>
      /\ handlers' = [handlers EXCEPT ![m] = wait[l].what = "establish"]
      /\ WaitTyped /\ wait'[l] = Nothing /\ wait'[l].what = "nothing"
      /\ \A k \in LWP : k # l => wait'[k] = wait[k]
    BY <1>c DEF Changed, suspendvars, Nothing
<1>8. \A k \in LWP, x \in Mount, u \in {"trans", "run"} : Count(k, u, x) \in Nat
    BY <1>0, TransCounts
<1>9. /\ Counted(r, Count(l, "trans", m), Count(l, "run", m), wait[l], m)
      /\ Reads(l, r, Count(l, "run", m), rwl[m])
    BY <1>0 DEF CountInv, ReaderInv, Counted, Reads
<1>10. TypeOK'
    BY <1>0, <1>2, <1>5, <1>6, <1>7, <1>a DEF TypeOK, WaitTyped
<1>11. /\ Count(l, "trans", m)' = Count(l, "trans", m)
       /\ Count(l, "run", m)' = Count(l, "run", m)
       /\ \A k \in LWP, x \in Mount :
             k # l \/ x # m => /\ Count(k, "trans", x)' = Count(k, "trans", x)
                               /\ Count(k, "run", x)' = Count(k, "run", x)
  <2>1. Count(l, "trans", m)' = Count(l, "trans", m)
      BY <1>6, <1>8
  <2>2. Count(l, "run", m)' = Count(l, "run", m)
      BY <1>6, <1>8
  <2>3. ASSUME NEW k \in LWP, NEW x \in Mount, k # l \/ x # m
        PROVE  /\ Count(k, "trans", x)' = Count(k, "trans", x)
               /\ Count(k, "run", x)' = Count(k, "run", x)
      BY <1>6, <1>8, <2>3
  <2> QED
      BY <2>1, <2>2, <2>3
<1>12. Counted(r, Count(l, "trans", m), Count(l, "run", m), wait'[l], m)
    BY <1>1, <1>2, <1>7, <1>8, <1>9, <1>a DEF Counted
<1>13. Reads(l, r, Count(l, "run", m), rwl'[m])
    BY <1>1, <1>2, <1>7, <1>8, <1>9, <1>a DEF Reads
<1>14. Elsewhere(l, m) /\ WaitsHere(l, m)
  <2>1. ASSUME NEW k \in LWP, NEW x \in Mount, k # l \/ x # m
        PROVE  SameFor(k, rwl'[x], rwl[x])
    <3>1. CASE k # l
        BY <1>a, <3>1 DEF SameFor
    <3>2. CASE x # m
        BY <1>a, <3>2 DEF SameFor
    <3> QED
        BY <2>1, <3>1, <3>2
  <2> QED
      BY <1>2, <1>5, <1>7, <1>11, <2>1 DEF Elsewhere, WaitsHere
<1>15. CountInv' /\ ReaderInv'
  <2>1. Rec(l, m)' = r
      BY <1>5
  <2> QED
      BY <1>0, <1>11, <1>12, <1>13, <1>14, <2>1, TransLocal
<1>16. WriterInv'
  <2>1. ASSUME NEW x \in Mount
        PROVE  WriterOf(x)'
    <3>1. WriterOf(x)
        BY <1>0 DEF WriterInv
    <3>2. CASE x = m
        BY ZenonT(60), <1>0, <1>2, <1>7, <1>9, <1>a, <3>1, <3>2 DEF TypeOK, WriterOf
    <3>3. CASE x # m
      <4>1. handlers'[x] = handlers[x]
          BY <1>0, <1>7, <3>3 DEF TypeOK
      <4>2. UNCHANGED <<state, running, suspend, phase, smount>>
          BY <1>7
      <4> QED
          BY <1>a, <3>1, <4>1, <4>2 DEF WriterOf
    <3> QED
        BY <3>2, <3>3
  <2> QED
      BY <2>1 DEF WriterInv
<1>17. OwnerInv'
    BY <1>0, <1>2, <1>6, <1>7 DEF TypeOK, OwnerInv, Busy
<1> QED
    BY <1>5, <1>10, <1>15, <1>16, <1>17 DEF FSTransInv

-----------------------------------------------------------------------------
(* The invariant *)

LEMMA TransInit ==
    ASSUME Init
    PROVE  FSTransInv
<1>1. TypeOK
  <2>1. /\ <<>> \in Seq(Record)
        /\ <<>> \in Seq([what : {"trans", "run"}, mount : Mount])
      OBVIOUS
  <2>2. rwl \in [Mount -> [Locks -> Held]]
    <3>1. FreeLock \in Held
        BY DEF FreeLock, Held
    <3> QED
        BY <3>1 DEF Init
  <2>3. /\ wait \in [LWP -> [what : {"nothing", "start", "run",
                                     "establish", "disestablish"},
                             mount : Mount \cup {None},
                             type : {"LAZY", "SHARED", None}]]
        /\ \A l \in LWP : wait[l] = Nothing /\ wait[l].what = "nothing"
      BY DEF Init, Nothing
  <2> QED
      BY <2>1, <2>2, <2>3 DEF Init, TypeOK
<1>2. ListInv
    BY DEF Init, ListInv
<1>3. \A l \in LWP, m \in Mount :
         /\ Rec(l, m).trans = 0 /\ Rec(l, m).cow = 0
         /\ Rec(l, m).type = None
    BY DEF Init, Rec, Entries, NewEntry
<1>4. \A l \in LWP : \A w, m : Count(l, w, m) = 0
    BY <1>1, TransCounts DEF Init
<1>5. \A l \in LWP : wait[l].what = "nothing"
    BY DEF Init, Nothing
<1>6. \A m \in Mount : /\ rwl[m].lazy = FreeLock /\ rwl[m].shared = FreeLock
                       /\ rwl[m].cow = FreeLock
    BY DEF Init, Locks
<1>7. FreeLock.readers = {} /\ FreeLock.writer = None
    BY DEF FreeLock
<1>8. CountInv
  <2>1. None # "EXCL"
      BY FSTransAssumption
  <2> QED
      BY <1>3, <1>4, <1>5, <2>1 DEF CountInv
<1>9. ReaderInv
  <2>1. None \notin {"LAZY", "SHARED", "EXCL"} /\ None \notin LWP
      BY FSTransAssumption
  <2> QED
      BY <1>3, <1>4, <1>6, <1>7, <2>1 DEF ReaderInv
<1>10. WriterInv
  <2>1. /\ None \notin Mount
        /\ \A m \in Mount : state[m] = "NORMAL" /\ running[m] = {}
        /\ phase = "none" /\ smount = None
      BY FSTransAssumption DEF Init
  <2> QED
      BY <1>6, <1>7, <2>1 DEF WriterInv, WriterOf
<1> QED
    BY <1>1, <1>2, <1>8, <1>9, <1>10 DEF Init, OwnerInv, Busy, FSTransInv

LEMMA TransStep ==
    ASSUME FSTransInv, [Next]_(vars)
    PROVE  FSTransInv'
<1>0. TypeOK /\ ListInv
    BY DEF FSTransInv
<1>1. ASSUME NEW l \in LWP, Continue(l)
      PROVE  FSTransInv'
  <2>1. CASE StartGranted(l)
      BY <2>1, TransStartGranted
  <2>2. CASE RunGranted(l)
    <3>1. wait[l].mount \in Mount
        BY <1>0, <2>2 DEF RunGranted, TypeOK
    <3> QED
        BY <2>2, <3>1, TransRunGranted
  <2>3. CASE Changed(l)
    <3>1. wait[l].mount \in Mount
        BY <1>0, <2>3 DEF Changed, TypeOK
    <3> QED
        BY <2>3, <3>1, TransChanged
  <2>4. CASE Suspending(l)
    <3>1. smount \in Mount
        BY <1>0, <2>4 DEF Suspending, TypeOK
    <3> QED
        BY <2>4, <3>1, TransSuspending
  <2>5. CASE Suspended(l)
    <3>1. smount \in Mount
        BY <1>0, <2>5 DEF Suspended, TypeOK
    <3> QED
        BY <2>5, <3>1, TransSuspended
  <2>6. CASE ResumeNormal(l)
    <3>1. smount \in Mount
        BY <1>0, <2>6 DEF ResumeNormal, TypeOK
    <3> QED
        BY <2>6, <3>1, TransResumeNormal
  <2>7. CASE Resumed(l)
    <3>1. smount \in Mount
        BY <1>0, <2>7 DEF Resumed, TypeOK
    <3> QED
        BY <2>7, <3>1, TransResumed
  <2> QED
      BY <1>1, <2>1, <2>2, <2>3, <2>4, <2>5, <2>6, <2>7 DEF Continue
<1>2. ASSUME NEW l \in LWP, SyncDone(l)
      PROVE  FSTransInv'
  <2>1. smount \in Mount
      BY <1>0, <1>2 DEF SyncDone, TypeOK
  <2> QED
      BY <1>2, <2>1, TransSyncDone
<1>3. ASSUME NEW l \in LWP, Resume(l)
      PROVE  FSTransInv'
  <2>1. smount \in Mount
      BY <1>0, <1>3, FSTransAssumption DEF Resume, TypeOK
  <2> QED
      BY <1>3, <2>1, TransResume
<1>4. ASSUME NEW l \in LWP, NEW m \in Mount, Start(l, m)
      PROVE  FSTransInv'
    BY <1>4, TransStartNested, TransStartFirst, TransStartBusy DEF Start
<1>5. ASSUME NEW l \in LWP, NEW m \in Mount, Done(l, m)
      PROVE  FSTransInv'
    BY <1>5, TransDoneInner, TransDoneLast
<1>6. ASSUME NEW l \in LWP, NEW m \in Mount, RunEnter(l, m)
      PROVE  FSTransInv'
    BY <1>6, TransRunAtOnce, TransRunWaits
<1>7. ASSUME NEW l \in LWP, NEW m \in Mount, RunExit(l, m)
      PROVE  FSTransInv'
    BY <1>7, TransRunInner, TransRunLast
<1>8. CASE UNCHANGED vars
  <2> USE <1>8 DEF vars, fmivars, suspendvars
  <2>1. TypeOK' /\ ListInv' /\ OwnerInv'
      BY DEF FSTransInv, TypeOK, ListInv, OwnerInv
  <2>2. WriterInv'
      BY DEF FSTransInv, WriterInv, WriterOf
  <2>3. /\ \A k, x : Rec(k, x)' = Rec(k, x)
        /\ \A k, u, x : Count(k, u, x)' = Count(k, u, x)
      BY DEF Rec, Count, Entries
  <2>4. CountInv' /\ ReaderInv'
      BY <2>3 DEF FSTransInv, CountInv, ReaderInv
  <2> QED
      BY <2>1, <2>2, <2>4 DEF FSTransInv
<1>9. CASE Next
  <2>1. PICK l \in LWP :
            \/ Continue(l) \/ SyncDone(l) \/ Resume(l)
            \/ \E m \in Mount :
                  \/ Start(l, m) \/ Done(l, m) \/ Suspend(l, m)
                  \/ RunEnter(l, m) \/ RunExit(l, m)
                  \/ \E what \in {"establish", "disestablish"} :
                        Change(l, m, what)
      BY <1>9 DEF Next
  <2>2. ASSUME NEW m \in Mount, Suspend(l, m)
        PROVE  FSTransInv'
      BY <2>2, TransSuspend
  <2>3. ASSUME NEW m \in Mount, NEW what \in {"establish", "disestablish"},
               Change(l, m, what)
        PROVE  FSTransInv'
      BY <2>3, TransAsks
  <2> QED
      BY <1>1, <1>2, <1>3, <1>4, <1>5, <1>6, <1>7, <2>1, <2>2, <2>3
<1> QED
    BY <1>8, <1>9

(***************************************************************************)
(* What the lists, the stacks and the locks say of an LWP and a file       *)
(* system agrees at every step, and the writers of a suspension keep       *)
(* readers out.                                                            *)
(***************************************************************************)
THEOREM FSTransInvariance == Spec => []FSTransInv
BY TransInit, TransStep, PTL DEF Spec

-----------------------------------------------------------------------------
(* What the invariant says of the records and of suspended file systems *)

LEMMA TransRecorded ==
    ASSUME FSTransInv, NEW l \in LWP, NEW m \in Mount
    PROVE  /\ Cardinality(Entries(l, m)) <= 1
           /\ InTrans(l, m) <=> Rec(l, m).trans > 0
           /\ Entries(l, m) # {} => TypeOf(l, m) = Rec(l, m).type
           /\ InTrans(l, m) => Entries(l, m) # {}
<1> DEFINE E == Entries(l, m)
<1>0. TypeOK /\ ListInv
    BY DEF FSTransInv
<1>1. CASE E = {}
  <2>1. Cardinality(E) = 0
      BY <1>1, FS_EmptySet
  <2>2. Rec(l, m).trans = 0
      BY <1>1 DEF Rec, NewEntry
  <2>3. ~InTrans(l, m)
      BY <1>1 DEF InTrans
  <2> QED
      BY <1>1, <2>1, <2>2, <2>3
<1>2. CASE E # {}
  <2>1. E \subseteq Nat
      BY <1>0 DEF TypeOK, Entries
  <2>2. First(E) \in E
      BY <1>2, <2>1, TransFirst
  <2>3. E = {First(E)}
      BY <1>0, <2>2 DEF ListInv, Entries
  <2>4. Cardinality(E) = 1
      BY <2>3, FS_Singleton
  <2>5. Rec(l, m) = fli[l][First(E)]
      BY <1>2 DEF Rec
  <2>6. InTrans(l, m) <=> fli[l][First(E)].trans > 0
      BY <2>3 DEF InTrans
  <2> QED
      BY <1>2, <2>4, <2>5, <2>6 DEF TypeOf
<1> QED
    BY <1>1, <1>2

LEMMA TransRecordsExact ==
    ASSUME FSTransInv
    PROVE  RecordsExact
<1> SUFFICES ASSUME NEW l \in LWP, NEW m \in Mount
             PROVE
        LET Recorded(f) == IF Entries(l, m) = {} THEN 0
                           ELSE fli[l][First(Entries(l, m))][f]
            Excl == IF InTrans(l, m) /\ TypeOf(l, m) = "EXCL" THEN 1 ELSE 0
            Waiting == IF wait[l].what = "run" /\ wait[l].mount = m THEN 1 ELSE 0
        IN  /\ Cardinality(Entries(l, m)) <= 1
            /\ Recorded("trans") = Count(l, "trans", m) + Excl
            /\ Recorded("cow") = Count(l, "run", m) + Waiting
            /\ l \in rwl[m].lazy.readers
                  <=> InTrans(l, m) /\ TypeOf(l, m) = "LAZY"
            /\ l \in rwl[m].shared.readers
                  <=> InTrans(l, m) /\ TypeOf(l, m) = "SHARED"
            /\ l = rwl[m].shared.writer <=> Excl = 1
            /\ l \in rwl[m].cow.readers <=> Count(l, "run", m) > 0
    BY DEF RecordsExact
<1> DEFINE r == Rec(l, m)
<1>0. TypeOK /\ ListInv /\ CountInv /\ ReaderInv
    BY DEF FSTransInv
<1>1. /\ Cardinality(Entries(l, m)) <= 1
      /\ InTrans(l, m) <=> r.trans > 0
      /\ InTrans(l, m) => TypeOf(l, m) = r.type
    BY TransRecorded
<1>2. r \in Record /\ (r.trans = 0 <=> r.type = None)
    BY <1>0, TransRec
<1>a. r.trans \in Nat
    BY <1>2 DEF Record
<1>3. InTrans(l, m) <=> r.type # None
    BY <1>1, <1>2, <1>a
<1>4. ASSUME NEW t \in {"LAZY", "SHARED", "EXCL"}
      PROVE  InTrans(l, m) /\ TypeOf(l, m) = t <=> r.type = t
    BY <1>1, <1>3, FSTransAssumption
<1>5. (IF Entries(l, m) = {} THEN 0 ELSE fli[l][First(Entries(l, m))]["trans"])
        = r.trans
    BY DEF Rec, NewEntry
<1>6. (IF Entries(l, m) = {} THEN 0 ELSE fli[l][First(Entries(l, m))]["cow"])
        = r.cow
    BY DEF Rec, NewEntry
<1>7. /\ r.trans = Count(l, "trans", m) + IF r.type = "EXCL" THEN 1 ELSE 0
      /\ r.cow = Count(l, "run", m)
                 + IF wait[l].what = "run" /\ wait[l].mount = m THEN 1 ELSE 0
    BY <1>0 DEF CountInv
<1>8. /\ l \in rwl[m].lazy.readers <=> r.type = "LAZY"
      /\ l \in rwl[m].shared.readers <=> r.type = "SHARED"
      /\ l = rwl[m].shared.writer <=> r.type = "EXCL"
      /\ l \in rwl[m].cow.readers <=> Count(l, "run", m) > 0
    BY <1>0 DEF ReaderInv
<1>9. (IF InTrans(l, m) /\ TypeOf(l, m) = "EXCL" THEN 1 ELSE 0)
        = IF r.type = "EXCL" THEN 1 ELSE 0
    BY <1>4
<1>10. /\ l \in rwl[m].lazy.readers
             <=> InTrans(l, m) /\ TypeOf(l, m) = "LAZY"
       /\ l \in rwl[m].shared.readers
             <=> InTrans(l, m) /\ TypeOf(l, m) = "SHARED"
       /\ l = rwl[m].shared.writer
             <=> InTrans(l, m) /\ TypeOf(l, m) = "EXCL"
    BY <1>4, <1>8
<1> HIDE DEF r
<1> QED
    BY <1>1, <1>5, <1>6, <1>7, <1>8, <1>9, <1>10

LEMMA TransQuiescent ==
    ASSUME FSTransInv
    PROVE  Quiescent
<1>0. TypeOK /\ ListInv /\ CountInv /\ ReaderInv /\ WriterInv
    BY DEF FSTransInv
<1>1. ASSUME NEW l \in LWP, NEW m \in Mount, l # suspend
      PROVE  /\ state[m] = "SUSPENDED" /\ phase # "resuming" => ~InTrans(l, m)
             /\ state[m] # "NORMAL" /\ InTrans(l, m) => TypeOf(l, m) = "LAZY"
  <2> DEFINE r == Rec(l, m)
  <2>1. /\ InTrans(l, m) <=> r.trans > 0
        /\ InTrans(l, m) => TypeOf(l, m) = r.type
      BY TransRecorded
  <2>2. r \in Record /\ (r.trans = 0 <=> r.type = None)
      BY <1>0, TransRec
  <2>3. r.trans \in Nat /\ r.type \in {"LAZY", "SHARED", "EXCL", None}
      BY <2>2 DEF Record
  <2>4. WriterOf(m)
      BY <1>0 DEF WriterInv
  <2>5. /\ l \in rwl[m].lazy.readers <=> r.type = "LAZY"
        /\ l \in rwl[m].shared.readers <=> r.type = "SHARED"
        /\ l = rwl[m].shared.writer <=> r.type = "EXCL"
      BY <1>0 DEF ReaderInv
  <2>6. ASSUME state[m] # "NORMAL"
        PROVE  r.type \in {"LAZY", None}
    <3>1. m = smount /\ phase # "excl" /\ rwl[m].shared.writer = suspend
        BY <2>4, <2>6 DEF WriterOf
    <3>2. suspend # None
        BY <1>0, <3>1, FSTransAssumption DEF TypeOK
    <3>3. rwl[m].shared.readers = {}
        BY <2>4, <3>1, <3>2 DEF WriterOf
    <3> QED
        BY <1>1, <2>3, <2>5, <3>1, <3>3
  <2>7. ASSUME state[m] = "SUSPENDED", phase # "resuming"
        PROVE  r.type = None
    <3>1. m = smount /\ phase = "suspended" /\ rwl[m].lazy.writer = suspend
        BY <2>4, <2>7 DEF WriterOf
    <3>2. suspend # None
        BY <1>0, <3>1, FSTransAssumption DEF TypeOK
    <3>3. rwl[m].lazy.readers = {}
        BY <2>4, <3>1, <3>2 DEF WriterOf
    <3> QED
        BY <2>5, <2>6, <2>7, <3>3
  <2> QED
      BY <2>1, <2>2, <2>3, <2>6, <2>7, FSTransAssumption
<1>2. ASSUME NEW m \in Mount
      PROVE  running[m] # {} => handlers[m]
    BY <1>0 DEF WriterInv, WriterOf
<1> QED
    BY <1>1, <1>2 DEF Quiescent

(***************************************************************************)
(* For any number of LWPs and file systems, and however deep transactions  *)
(* and copy-on-write runs are nested: the records of fstrans_start(),      *)
(* fstrans_done() and fscow_run() count what each LWP is in and say which  *)
(* locks it has, though they change hands between file systems; and        *)
(* fstrans_setstate() reports a suspension only once nobody else is in a   *)
(* transaction that it excludes.                                           *)
(***************************************************************************)
THEOREM FSTransIsSafe == Spec => []FSTransSafe
<1>1. FSTransInv => FSTransSafe
    BY TransRecordsExact, TransQuiescent DEF FSTransSafe
<1> QED
    BY <1>1, FSTransInvariance, PTL

=============================================================================
