------------------------------ MODULE MCFzStore ------------------------------
(* Values for FzStore: an image and a tile of it, which collide in the     *)
(* hash table and which two threads may load at once, and an object that   *)
(* is not hashed.                                                          *)
EXTENDS FzStore

CONSTANTS t1, t2, k1, k2, k3, a1, a2, b1, b2, c1

MCThreads == {t1, t2}
MCKeys == {k1, k2, k3}
MCVals == {a1, a2, b1, b2, c1}
MCHashed == {k1, k2}
MCKeyOf ==
    [v \in MCVals |-> CASE v \in {a1, a2} -> k1 [] v \in {b1, b2} -> k2 [] v = c1 -> k3]
MCWeight == [k \in MCKeys |-> IF k = k3 THEN 3 ELSE 1]
MCSlot == [k \in MCKeys |-> 5]
MCRequests == {1}

MCImageOf == [k \in MCKeys |-> IF k = k1 THEN b1 ELSE NoVal]

MCSymmetry == Permutations({t1, t2}) \cup Permutations({a1, a2})
===============================================================================
