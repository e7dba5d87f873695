------------------------- MODULE StorePromiseProofs -------------------------
(***************************************************************************)
(* What follows from the promise of the resource store, for any threads,   *)
(* keys and values.                                                        *)
(***************************************************************************)
EXTENDS StorePromise, TLAPS

IInv == TypeOK /\ InUseIsLive /\ OneEntryPerKey

(* An empty dictionary has nothing freed and nothing twice.                *)
LEMMA InitHolds == Init => IInv
  BY DEF Init, IInv, TypeOK, InUseIsLive, OneEntryPerKey

(* What a thread has been given, it has of the values that exist.          *)
LEMMA NextHolds == IInv /\ [Next]_vars => IInv'
<1> SUFFICES ASSUME IInv, [Next]_vars PROVE IInv'
  OBVIOUS
<1> USE DEF IInv, TypeOK, InUseIsLive
<1>1. ASSUME NEW t \in Threads, NEW v \in Vals, Create(t, v) PROVE IInv'
  BY <1>1 DEF Create, OneEntryPerKey
<1>2. ASSUME NEW t \in Threads, NEW v \in Vals, Put(t, v) PROVE IInv'
  <2>1. TypeOK' /\ InUseIsLive'
    BY <1>2 DEF Put
  <2>2. OneEntryPerKey'
    BY <1>2 DEF Put, OneEntryPerKey
  <2> QED  BY <2>1, <2>2
<1>3. ASSUME NEW t \in Threads, NEW v \in Vals, Get(t, v) PROVE IInv'
  BY <1>3 DEF Get, OneEntryPerKey
<1>4. ASSUME NEW t \in Threads, NEW u \in Threads, NEW v \in Vals, Give(t, u, v)
      PROVE IInv'
  BY <1>4 DEF Give, OneEntryPerKey
<1>5. ASSUME NEW t \in Threads, NEW v \in Vals, Drop(t, v) PROVE IInv'
  BY <1>5 DEF Drop, FreeUnused, OneEntryPerKey
<1>6. ASSUME NEW v \in Vals, Evict(v) PROVE IInv'
  BY <1>6 DEF Evict, FreeUnused, OneEntryPerKey
<1>7. CASE Close
  BY <1>7 DEF Close, OneEntryPerKey
<1>9. CASE Free
  BY <1>9 DEF Free, FreeUnused, OneEntryPerKey
<1>8. CASE UNCHANGED vars
  BY <1>8 DEF vars, OneEntryPerKey
<1> QED  BY <1>1, <1>2, <1>3, <1>4, <1>5, <1>6, <1>7, <1>8, <1>9 DEF Next

(* The invariant holds whatever threads load, share, drop and evict.       *)
THEOREM InvariantHolds == Spec => []IInv
  BY InitHolds, NextHolds, PTL DEF Spec

(* What a caller has found or loaded stays valid until the caller drops    *)
(* it, whatever the store evicts (fz_find_item, fz_store_item, evict).     *)
THEOREM NothingInUseIsFreed == Spec => []InUseIsLive
<1>1. IInv => InUseIsLive
  BY DEF IInv
<1> QED  BY <1>1, InvariantHolds, PTL

(* The race of two loads of one hashed key ends with one entry, which is   *)
(* what the test for an existing value in fz_store_item is for.            *)
THEOREM RacingLoadsShareOneEntry == Spec => []OneEntryPerKey
<1>1. IInv => OneEntryPerKey
  BY DEF IInv
<1> QED  BY <1>1, InvariantHolds, PTL
=============================================================================
