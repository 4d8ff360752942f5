--------------------------- MODULE GpuLeaseProofs ---------------------------
(* The abstract allocator never gives a GPU to two tasks. *)
EXTENDS GpuLease, TLAPS

LeaseInv ==
  /\ lease \in [Task -> SUBSET (Worker \X Gpu)]
  /\ Exclusive

LEMMA LeaseInvStep == LeaseInv /\ [LeaseNext]_lease => LeaseInv'
<1>1. SUFFICES ASSUME LeaseInv, LeaseNext PROVE LeaseInv'
  BY DEF LeaseInv, Exclusive
<1>2. PICK t \in Task :
        \/ \E w \in Worker, G \in SUBSET Gpu : Acquire(t, w, G)
        \/ Release(t)
  BY <1>1 DEF LeaseNext
<1>3. CASE Release(t)
  BY <1>1, <1>3 DEF Release, LeaseInv, Exclusive
<1>4. ASSUME NEW w \in Worker, NEW G \in SUBSET Gpu, Acquire(t, w, G)
      PROVE  LeaseInv'
  <2>1. lease' = [lease EXCEPT ![t] = {w} \X G]
        /\ \A u \in Task : lease[u] \cap ({w} \X G) = {}
    BY <1>4 DEF Acquire
  <2>2. lease' \in [Task -> SUBSET (Worker \X Gpu)]
    BY <1>1, <2>1 DEF LeaseInv
  <2>3. ASSUME NEW u \in Task, NEW v \in Task, u # v
        PROVE  lease'[u] \cap lease'[v] = {}
    <3>1. lease[u] \cap lease[v] = {}
      BY <1>1, <2>3 DEF LeaseInv, Exclusive
    <3>2. /\ lease'[u] = IF u = t THEN {w} \X G ELSE lease[u]
          /\ lease'[v] = IF v = t THEN {w} \X G ELSE lease[v]
      BY <1>1, <2>1 DEF LeaseInv
    <3> HIDE <1>1
    <3> QED
      BY <2>1, <2>3, <3>1, <3>2
  <2> QED
    BY <2>2, <2>3 DEF LeaseInv, Exclusive
<1> QED
  BY <1>2, <1>3, <1>4

(***************************************************************************)
(* At no time is a GPU of a worker leased to two tasks, whatever is        *)
(* acquired and released and in whatever order.                            *)
(***************************************************************************)
THEOREM LeaseIsExclusive == LeaseSpec => []Exclusive
<1>1. LeaseInit => LeaseInv
  BY DEF LeaseInit, LeaseInv, Exclusive
<1>2. LeaseInv => Exclusive
  BY DEF LeaseInv
<1> QED
  BY <1>1, <1>2, LeaseInvStep, PTL DEF LeaseSpec
=============================================================================
