------------------------------- MODULE MCPmap -------------------------------
(***************************************************************************)
(* Small instances of Pmap.  The user addresses u1 and u2 have different   *)
(* cache indexes and lie in different segments; of the kernel addresses    *)
(* k1 has the index of u2 and k2 that of u1.                               *)
(***************************************************************************)
EXTENDS Pmap, TLC

Addresses == {"u1", "u2", "k1", "k2"}

MCColour == [va \in Addresses |-> IF va \in {"u2", "k1"} THEN 1 ELSE 0]

MCSegment == [va \in Addresses |-> IF va = "u2" THEN 1 ELSE 0]

TwoIndexes == {"u1", "u2"}
OneAddress == {"u1"}
KernelAddress == {"k1"}
KernelAddresses == {"k1", "k2"}

\* Bound: what is in use at a time, counting the references to the two pmaps
\* and the mappings of the kernel.
FewInUse ==
    \A p, q \in UserPmap : p # q =>
        pm_count[p] + pm_count[q]
            + Cardinality({va \in KVA : pte[Kernel][va] # NoPTE}) <= 2

PmapSymmetry == Permutations(UserPmap) \cup Permutations(Page)
=============================================================================
