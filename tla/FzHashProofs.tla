----------------------------- MODULE FzHashProofs -----------------------------
(***************************************************************************)
(* Proofs about FzHash, for tables of any size and any hash function: a    *)
(* table finds what was inserted and not removed, and nothing else.        *)
(***************************************************************************)
EXTENDS FzHash, FoldProofs

-----------------------------------------------------------------------------
(* Arithmetic of positions *)

(* A position modulo the size is an index of the table.                    *)
LEMMA ModRange ==
    ASSUME NEW a \in Nat, NEW N \in Nat \ {0}
    PROVE  a % N \in 0 .. N - 1
OBVIOUS

(* A walk of at most one round past an index wraps at most once.           *)
LEMMA ModWrap ==
    ASSUME NEW N \in Nat \ {0}, NEW a \in 0 .. N - 1, NEW d \in 0 .. N
    PROVE  (a + d) % N = IF a + d < N THEN a + d ELSE a + d - N
OBVIOUS

(* A table of N slots for the values of V.                                 *)
Table(tb, N, V) ==
    /\ N \in Nat \ {0}
    /\ tb \in [0 .. N - 1 -> V \cup {NoVal}]
    /\ NoVal \notin V
    /\ \A v \in V : Slot[KeyOf[v]] \in Nat

(* The size of a table is the number of its slots.                         *)
LEMMA SizeOfTable ==
    ASSUME NEW N, NEW V, NEW tb, Table(tb, N, V)
    PROVE  SizeOf(tb) = N
<1>1. DOMAIN tb = 0 .. N - 1 /\ N \in Nat \ {0}
  BY DEF Table
<1>2. Cardinality(0 .. N - 1) = N
  BY <1>1, FS_Interval
<1> QED
  BY <1>1, <1>2 DEF SizeOf

(* Nothing is empty between the home of an entry and its place.            *)
Reachable(tb, N) ==
    \A i, q \in 0 .. N - 1 :
       tb[i] # NoVal /\ MayFill(Home(tb, KeyOf[tb[i]]), q, i) => tb[q] # NoVal

Distinct(tb, N) ==
    \A i, j \in 0 .. N - 1 :
       tb[i] # NoVal /\ tb[j] # NoVal /\ KeyOf[tb[i]] = KeyOf[tb[j]] => i = j

WellFormed(tb, N, V) == Table(tb, N, V) /\ Reachable(tb, N) /\ Distinct(tb, N)

Contents(tb) == {tb[i] : i \in Entries(tb)}

(* The slot where the search of a key starts is an index of the table.     *)
LEMMA HomeRange ==
    ASSUME NEW N, NEW V, NEW tb, Table(tb, N, V), NEW k, Slot[k] \in Nat
    PROVE  Home(tb, k) \in 0 .. N - 1 /\ Home(tb, k) = Slot[k] % N
<1>1. SizeOf(tb) = N /\ N \in Nat \ {0}
  BY SizeOfTable DEF Table
<1> QED
  BY <1>1, ModRange DEF Home

(* A table that is not full has an empty slot.                             *)
LEMMA LoadType ==
    ASSUME NEW N, NEW V, NEW tb, Table(tb, N, V)
    PROVE  /\ IsFiniteSet(Entries(tb)) /\ Load(tb) \in Nat
           /\ Load(tb) < N => \E e \in 0 .. N - 1 : tb[e] = NoVal
<1>1. N \in Nat \ {0} /\ DOMAIN tb = 0 .. N - 1
  BY DEF Table
<1>2. IsFiniteSet(0 .. N - 1) /\ Cardinality(0 .. N - 1) = N
  BY <1>1, FS_Interval
<1>3. Entries(tb) \in SUBSET (0 .. N - 1)
  BY <1>1 DEF Entries
<1>4. IsFiniteSet(Entries(tb)) /\ Load(tb) \in Nat
  BY <1>2, <1>3, FS_Subset, FS_CardinalityType DEF Load
<1>5. ASSUME Load(tb) < N PROVE Entries(tb) # 0 .. N - 1
  BY <1>1, <1>2, <1>4, <1>5 DEF Load
<1> QED
  BY <1>1, <1>3, <1>4, <1>5 DEF Entries

-----------------------------------------------------------------------------
(* Searching *)

(* The search for k ends at the first slot from its home on that is empty  *)
(* or has k.                                                               *)
LEMMA ProbeEnds ==
    ASSUME NEW N, NEW V, NEW tb, Table(tb, N, V), Load(tb) < N,
           NEW k, Slot[k] \in Nat
    PROVE  /\ Probe(tb, k) \in 0 .. N - 1
           /\ tb[Probe(tb, k)] = NoVal \/ KeyOf[tb[Probe(tb, k)]] = k
           /\ \A q \in 0 .. N - 1 :
                 MayFill(Home(tb, k), q, Probe(tb, k)) => tb[q] # NoVal /\ KeyOf[tb[q]] # k
<1> DEFINE h == Home(tb, k)
           Pos(d) == (h + d) % SizeOf(tb)
           Ends(d) == tb[Pos(d)] = NoVal \/ KeyOf[tb[Pos(d)]] = k
           D == {d \in 0 .. SizeOf(tb) - 1 : Ends(d)}
           Dist(q) == IF q >= h THEN q - h ELSE q - h + N
<1>1. h \in 0 .. N - 1 /\ SizeOf(tb) = N /\ N \in Nat \ {0}
  BY HomeRange, SizeOfTable DEF Table
<1>2. \A d \in 0 .. N - 1 : Pos(d) = IF h + d < N THEN h + d ELSE h + d - N
  <2> HIDE DEF h
  <2> QED
    BY <1>1, ModWrap
<1>3. \A q \in 0 .. N - 1 : Dist(q) \in 0 .. N - 1 /\ Pos(Dist(q)) = q
  <2> HIDE DEF h, Pos
  <2> QED
    BY <1>1, <1>2
<1>4. D \in SUBSET Nat /\ D # {}
  <2>1. PICK e \in 0 .. N - 1 : tb[e] = NoVal
    BY LoadType
  <2>2. Dist(e) \in D
    <3> HIDE DEF h, Pos, Dist
    <3> QED
      BY <1>1, <1>3, <2>1
  <2> HIDE DEF Ends
  <2> QED
    BY <1>1, <2>2
<1>5. Min(D) \in D /\ \A y \in D : Min(D) <= y
  <2> HIDE DEF D
  <2> QED
    BY <1>4, MinOfNaturals
<1> DEFINE m == Min(D)
<1>6. Probe(tb, k) = Pos(m)
  BY DEF Probe
<1>7. m \in 0 .. N - 1 /\ Ends(m) /\ \A d \in 0 .. N - 1 : d < m => ~Ends(d)
  <2>1. m \in D /\ \A y \in D : m <= y
    BY <1>5
  <2> HIDE DEF m
  <2> QED
    BY <1>1, <2>1
<1> HIDE DEF m, h, D
<1>8. Pos(m) \in 0 .. N - 1
  <2> HIDE DEF Pos
  <2> QED
    BY <1>1, <1>2, <1>7
<1>9. ASSUME NEW q \in 0 .. N - 1, MayFill(h, q, Pos(m))
      PROVE  Dist(q) < m
  <2> HIDE DEF Pos
  <2> QED
    BY <1>1, <1>2, <1>7, <1>9 DEF MayFill
<1> QED
  <2>1. \A q \in 0 .. N - 1 : MayFill(h, q, Pos(m)) => tb[q] # NoVal /\ KeyOf[tb[q]] # k
    <3> HIDE DEF Pos, Dist
    <3> QED
      BY <1>3, <1>7, <1>9
  <2> HIDE DEF Pos
  <2> QED
    BY <1>6, <1>7, <1>8, <2>1 DEF h

(* It ends at the entry of k if there is one, and else at an empty slot.   *)
LEMMA ProbeFinds ==
    ASSUME NEW N, NEW V, NEW tb, WellFormed(tb, N, V), Load(tb) < N,
           NEW i \in 0 .. N - 1, tb[i] # NoVal
    PROVE  Probe(tb, KeyOf[tb[i]]) = i
<1> DEFINE k == KeyOf[tb[i]]
           h == Home(tb, k)
           p == Probe(tb, k)
<1>1. Table(tb, N, V) /\ N \in Nat \ {0} /\ tb[i] \in V /\ Slot[k] \in Nat
  BY DEF WellFormed, Table
<1>2. /\ p \in 0 .. N - 1
      /\ tb[p] = NoVal \/ KeyOf[tb[p]] = k
      /\ \A q \in 0 .. N - 1 : MayFill(h, q, p) => tb[q] # NoVal /\ KeyOf[tb[q]] # k
  <2> HIDE DEF k
  <2> QED
    BY <1>1, ProbeEnds
<1>3. h \in 0 .. N - 1
  <2> HIDE DEF k
  <2> QED
    BY <1>1, HomeRange
<1>4. MayFill(h, p, i) => tb[p] # NoVal
  BY <1>2 DEF WellFormed, Reachable
<1>5. tb[p] # NoVal /\ KeyOf[tb[p]] = k => p = i
  BY <1>2 DEF WellFormed, Distinct
<1>6. ~MayFill(h, i, p)
  BY <1>2
<1> HIDE DEF p, h
<1>7. p = i \/ MayFill(h, p, i) \/ MayFill(h, i, p)
  BY <1>1, <1>2, <1>3 DEF MayFill
<1> QED
  BY <1>2, <1>4, <1>5, <1>6, <1>7 DEF p

(* fz_hash_find: what is in the table is found, and nothing else.          *)
LEMMA FindProperties ==
    ASSUME NEW N, NEW V, NEW tb, WellFormed(tb, N, V), Load(tb) < N,
           NEW k, Slot[k] \in Nat
    PROVE  {HashFind(tb, k)} \ {NoVal} = {v \in Contents(tb) : KeyOf[v] = k}
<1> DEFINE p == Probe(tb, k)
<1>1. DOMAIN tb = 0 .. N - 1
  BY DEF WellFormed, Table
<1>2. p \in 0 .. N - 1 /\ (tb[p] = NoVal \/ KeyOf[tb[p]] = k)
  <2>1. Table(tb, N, V) /\ Slot[k] \in Nat /\ Load(tb) < N
    BY DEF WellFormed
  <2> QED
    BY <2>1, ProbeEnds
<1>3. \A i \in 0 .. N - 1 : tb[i] # NoVal /\ KeyOf[tb[i]] = k => p = i
  BY ProbeFinds
<1> HIDE DEF p
<1>4. HashFind(tb, k) = tb[p]
  BY DEF HashFind, p
<1> QED
  BY <1>1, <1>2, <1>3, <1>4 DEF Contents, Entries

-----------------------------------------------------------------------------
(* Inserting *)

(* do_hash_insert of a key that is absent.                                 *)
LEMMA InsertProperties ==
    ASSUME NEW N, NEW V, NEW tb, WellFormed(tb, N, V), Load(tb) < N,
           NEW v \in V, \A u \in Contents(tb) : KeyOf[u] # KeyOf[v]
    PROVE  /\ WellFormed(HashInsert(tb, v), N, V)
           /\ Contents(HashInsert(tb, v)) = Contents(tb) \cup {v}
           /\ Load(HashInsert(tb, v)) = Load(tb) + 1
<1> DEFINE k == KeyOf[v]
           p == Probe(tb, k)
           h == Home(tb, k)
           new == [tb EXCEPT ![p] = v]
<1>1. /\ Table(tb, N, V) /\ N \in Nat \ {0} /\ Slot[k] \in Nat /\ NoVal \notin V
      /\ tb \in [0 .. N - 1 -> V \cup {NoVal}] /\ DOMAIN tb = 0 .. N - 1
  BY DEF WellFormed, Table
<1>2. /\ p \in 0 .. N - 1
      /\ tb[p] = NoVal \/ KeyOf[tb[p]] = k
      /\ \A q \in 0 .. N - 1 : MayFill(h, q, p) => tb[q] # NoVal /\ KeyOf[tb[q]] # k
  <2> HIDE DEF k
  <2> QED
    BY <1>1, ProbeEnds
<1>3. \A i \in 0 .. N - 1 : tb[i] # NoVal => KeyOf[tb[i]] # k
  BY <1>1 DEF Contents, Entries
<1>4. tb[p] = NoVal
  BY <1>2, <1>3
<1>5. HashInsert(tb, v) = new
  BY DEF HashInsert
<1> HIDE DEF p
<1>6. /\ new \in [0 .. N - 1 -> V \cup {NoVal}] /\ DOMAIN new = 0 .. N - 1
      /\ new[p] = v /\ v # NoVal
      /\ \A i \in 0 .. N - 1 : i # p => new[i] = tb[i]
  BY <1>1, <1>2
<1> HIDE DEF new
<1>7. Table(new, N, V)
  BY <1>1, <1>6 DEF Table
<1>8. \A u : Slot[u] \in Nat => Home(new, u) = Home(tb, u)
  BY <1>1, <1>7, HomeRange
<1>9. Reachable(new, N)
  <2> SUFFICES ASSUME NEW i \in 0 .. N - 1, NEW q \in 0 .. N - 1, new[i] # NoVal,
                      MayFill(Home(new, KeyOf[new[i]]), q, i), q # p
               PROVE  tb[q] # NoVal
    BY <1>6 DEF Reachable
  <2>1. CASE i = p
    BY <2>1, <1>1, <1>2, <1>6, <1>8
  <2>2. CASE i # p
    <3>1. new[i] = tb[i] /\ Slot[KeyOf[tb[i]]] \in Nat
      BY <2>2, <1>6, <1>1 DEF Table
    <3> QED
      BY <3>1, <1>8 DEF WellFormed, Reachable
  <2> QED
    BY <2>1, <2>2
<1>10. Distinct(new, N)
  BY <1>3, <1>6 DEF WellFormed, Distinct
<1>11. Entries(new) = Entries(tb) \cup {p} /\ p \notin Entries(tb)
  BY <1>1, <1>2, <1>4, <1>6 DEF Entries
<1>12. Load(new) = Load(tb) + 1
  BY <1>1, <1>11, LoadType, FS_AddElement DEF Load
<1>13. Contents(new) = Contents(tb) \cup {v}
  BY <1>6, <1>11, <1>1 DEF Contents, Entries
<1> QED
  BY <1>5, <1>7, <1>9, <1>10, <1>12, <1>13 DEF WellFormed
-----------------------------------------------------------------------------
(* Removing *)

(* How far x is behind p, going round.                                     *)
Dist(p, x, N) == IF x >= p THEN x - p ELSE x - p + N

(* The steps from p to a slot, going up and around, determine the slot.    *)
LEMMA DistProperties ==
    ASSUME NEW N \in Nat \ {0}, NEW p \in 0 .. N - 1
    PROVE  /\ \A x \in 0 .. N - 1 :
                 Dist(p, x, N) \in 0 .. N - 1 /\ (Dist(p, x, N) = 0 <=> x = p)
           /\ \A x, y \in 0 .. N - 1 : Dist(p, x, N) = Dist(p, y, N) => x = y
           /\ \A d \in 0 .. N - 1 :
                 (p + d) % N \in 0 .. N - 1 /\ Dist(p, (p + d) % N, N) = d
<1>1. ASSUME NEW d \in 0 .. N - 1
      PROVE  (p + d) % N = IF p + d < N THEN p + d ELSE p + d - N
  <2>1. d \in 0 .. N
    OBVIOUS
  <2> QED
    BY <2>1, ModWrap
<1> QED
  BY <1>1 DEF Dist

(* A way that leaves a run, or comes from before it, passes the end of it. *)
LEMMA WayAcross ==
    ASSUME NEW N \in Nat \ {0}, NEW p \in 0 .. N - 1, NEW h \in 0 .. N - 1,
           NEW a \in 0 .. N - 1, NEW b \in 0 .. N - 1, NEW e \in 0 .. N - 1,
           MayFill(h, a, b), Dist(p, a, N) < Dist(p, e, N),
           Dist(p, e, N) < Dist(p, b, N)
    PROVE  MayFill(h, e, b)
  BY DEF MayFill, Dist

(* A slot that lies beyond the run of the deletion could be filled         *)
(* whenever the slot passed over could: the way to it is longer.           *)
LEMMA WayAround ==
    ASSUME NEW N \in Nat \ {0}, NEW p \in 0 .. N - 1, NEW h \in 0 .. N - 1,
           NEW a \in 0 .. N - 1, NEW b \in 0 .. N - 1, NEW e \in 0 .. N - 1,
           MayFill(h, a, b), Dist(p, b, N) < Dist(p, a, N),
           Dist(p, a, N) < Dist(p, e, N)
    PROVE  MayFill(h, e, b)
  BY DEF MayFill, Dist

(* Moving an entry into the hole shortens its way, so nothing moves back.  *)
LEMMA WayShorter ==
    ASSUME NEW h \in Int, NEW a \in Int, NEW b \in Int, MayFill(h, a, b)
    PROVE  /\ ~MayFill(h, b, a)
           /\ \A q \in Int : MayFill(h, q, a) => MayFill(h, q, b) /\ q # a /\ q # b
  BY DEF MayFill

(* The states of the loop of fz_hash_remove that has filled the gap at p   *)
(* up to a distance of j: what has to be moved into the gap is still to    *)
(* come.                                                                   *)
States(N, V) == [ents : [0 .. N - 1 -> V \cup {NoVal}], hole : 0 .. N - 1]

Filled(tb, N, V, p, j) ==
    {s \in States(N, V) :
       /\ Dist(p, s.hole, N) <= j
       /\ s.ents[s.hole] = NoVal
       /\ \A i \in 0 .. N - 1 :
             /\ Dist(p, i, N) <= j /\ i # s.hole => s.ents[i] # NoVal
             /\ Dist(p, i, N) > j => s.ents[i] = tb[i]
       /\ \A i, q \in 0 .. N - 1 :
             /\ s.ents[i] # NoVal /\ s.ents[q] = NoVal
             /\ MayFill(Slot[KeyOf[s.ents[i]]] % N, q, i)
             => q = s.hole /\ Dist(p, i, N) > j
       /\ \A i, q \in 0 .. N - 1 :
             /\ s.ents[i] # NoVal /\ s.ents[q] # NoVal
             /\ KeyOf[s.ents[i]] = KeyOf[s.ents[q]]
             => i = q
       /\ {s.ents[i] : i \in 0 .. N - 1} \ {NoVal} = Contents(tb) \ {tb[p]}}

(* The body of the loop.                                                   *)
FillStep(s, look, N) ==
    IF MayFill(Slot[KeyOf[s.ents[look]]] % N, s.hole, look)
    THEN [ents |-> [s.ents EXCEPT ![s.hole] = s.ents[look], ![look] = NoVal],
          hole |-> look]
    ELSE s

(* One turn of the loop of the deletion keeps what the loop has reached:   *)
(* every entry can be found with only the hole on its way.                 *)
LEMMA FillKeeps ==
    ASSUME NEW N \in Nat \ {0}, NEW V, NEW tb, Table(tb, N, V), NEW p \in 0 .. N - 1,
           NEW j \in Nat, NEW look \in 0 .. N - 1, Dist(p, look, N) = j + 1,
           tb[look] # NoVal,
           NEW e \in 0 .. N - 1, Dist(p, e, N) > j + 1, tb[e] = NoVal,
           NEW s \in Filled(tb, N, V, p, j)
    PROVE  FillStep(s, look, N) \in Filled(tb, N, V, p, j + 1)
<1> DEFINE H(v) == Slot[KeyOf[v]] % N
           D(i) == Dist(p, i, N)
           ents == s.ents
           hole == s.hole
<1>1. /\ s = [ents |-> ents, hole |-> hole]
      /\ ents \in [0 .. N - 1 -> V \cup {NoVal}] /\ hole \in 0 .. N - 1
  BY DEF Filled, States
<1>2. /\ D(hole) <= j /\ ents[hole] = NoVal
      /\ \A i \in 0 .. N - 1 :
            /\ D(i) <= j /\ i # hole => ents[i] # NoVal
            /\ D(i) > j => ents[i] = tb[i]
      /\ {ents[i] : i \in 0 .. N - 1} \ {NoVal} = Contents(tb) \ {tb[p]}
  BY DEF Filled
<1>3. \A i, q \in 0 .. N - 1 :
          /\ ents[i] # NoVal /\ ents[q] = NoVal /\ MayFill(H(ents[i]), q, i)
          => q = hole /\ D(i) > j
  BY DEF Filled
<1>4. \A i, q \in 0 .. N - 1 :
          ents[i] # NoVal /\ ents[q] # NoVal /\ KeyOf[ents[i]] = KeyOf[ents[q]] => i = q
  BY DEF Filled
<1>5. \A v \in V : H(v) \in 0 .. N - 1
  BY ModRange DEF Table
<1>6. \A i \in 0 .. N - 1 : ents[i] # NoVal => H(ents[i]) \in 0 .. N - 1
  <2> HIDE DEF H, ents
  <2> QED
    BY <1>1, <1>5
<1>7. /\ \A i \in 0 .. N - 1 : D(i) \in 0 .. N - 1
      /\ \A i \in 0 .. N - 1 : D(i) = j + 1 => i = look
      /\ D(look) = j + 1 /\ D(e) > j + 1
  <2>1. /\ \A x \in 0 .. N - 1 : D(x) \in 0 .. N - 1
        /\ \A x, y \in 0 .. N - 1 : D(x) = D(y) => x = y
    BY DistProperties
  <2>2. D(look) = j + 1 /\ D(e) > j + 1
    OBVIOUS
  <2> HIDE DEF D
  <2> QED
    BY <2>1, <2>2
<1> HIDE DEF H, D, ents, hole
<1>8. ents[look] = tb[look] /\ ents[look] # NoVal /\ ents[e] = NoVal /\ look # hole /\ e # hole
  <2>1. j < j + 1 /\ ~(j + 1 <= j) /\ D(look) > j /\ D(e) > j
    BY <1>7
  <2>2. ents[look] = tb[look] /\ ents[e] = tb[e]
    BY <1>2, <2>1
  <2>3. look # hole /\ e # hole
    BY <1>2, <1>7
  <2> QED
    BY <2>2, <2>3
<1>11. \A i \in 0 .. N - 1 :
          /\ D(i) <= j + 1 => D(i) <= j \/ i = look
          /\ D(i) > j + 1 => D(i) > j /\ i # look /\ i # hole
          /\ D(i) > j /\ i # look => D(i) > j + 1
  <2> SUFFICES ASSUME NEW i \in 0 .. N - 1
               PROVE  /\ D(i) <= j + 1 => D(i) <= j \/ i = look
                      /\ D(i) > j + 1 => D(i) > j /\ i # look /\ i # hole
                      /\ D(i) > j /\ i # look => D(i) > j + 1
    OBVIOUS
  <2>1. D(i) \in Nat /\ (D(i) = j + 1 => i = look) /\ D(look) = j + 1 /\ D(hole) <= j
    BY <1>2, <1>7
  <2>2. D(hole) \in Nat
    BY <1>1, <1>7
  <2> QED
    BY <2>1, <2>2
<1>9. CASE MayFill(H(ents[look]), hole, look)
  <2> DEFINE new == [ents EXCEPT ![hole] = ents[look], ![look] = NoVal]
  <2>1. FillStep(s, look, N) = [ents |-> new, hole |-> look]
    BY <1>9 DEF FillStep, ents, hole, H
  <2>2. /\ new \in [0 .. N - 1 -> V \cup {NoVal}]
        /\ new[look] = NoVal /\ new[hole] = ents[look]
        /\ \A i \in 0 .. N - 1 : i # look /\ i # hole => new[i] = ents[i]
    BY <1>1, <1>8
  <2> HIDE DEF new
  <2>3. ASSUME NEW i \in 0 .. N - 1
        PROVE  /\ D(i) <= j + 1 /\ i # look => new[i] # NoVal
               /\ D(i) > j + 1 => new[i] = tb[i]
    <3>1. D(i) <= j + 1 /\ i # look => new[i] # NoVal
      BY <1>2, <1>8, <1>11, <2>2
    <3>2. D(i) > j + 1 => new[i] = tb[i]
      BY <1>2, <1>11, <2>2
    <3> QED
      BY <3>1, <3>2
  <2>4. ASSUME NEW i \in 0 .. N - 1, NEW q \in 0 .. N - 1, new[i] # NoVal, new[q] = NoVal,
               MayFill(H(new[i]), q, i)
        PROVE  q = look /\ D(i) > j + 1
    <3>1. i # look /\ q # hole
      BY <1>8, <2>2, <2>4
    <3>2. CASE i = hole
      <4>1. MayFill(H(ents[look]), q, hole) /\ H(ents[look]) \in 0 .. N - 1
        BY <1>6, <1>8, <2>2, <2>4, <3>2
      <4>2. MayFill(H(ents[look]), q, look) /\ q # look
        BY <1>1, <1>9, <4>1, WayShorter
      <4>3. ents[q] = NoVal
        BY <2>2, <2>4, <3>1, <4>2
      <4> QED
        BY <1>3, <1>8, <3>1, <4>2, <4>3
    <3>3. CASE i # hole
      <4>1. new[i] = ents[i] /\ ents[i] # NoVal /\ H(ents[i]) \in 0 .. N - 1
        BY <1>6, <2>2, <2>4, <3>1, <3>3
      <4>2. q = look
        <5> SUFFICES ASSUME q # look PROVE FALSE
          OBVIOUS
        <5>1. ents[q] = NoVal
          BY <2>2, <2>4, <3>1
        <5> QED
          BY <1>3, <2>4, <3>1, <4>1, <5>1
      <4>3. D(i) # j + 1
        BY <1>7, <3>1
      <4>4. ~(D(i) < j + 1)
        <5> SUFFICES ASSUME D(i) < j + 1 PROVE FALSE
          OBVIOUS
        <5>1. MayFill(H(ents[i]), look, i)
          BY <2>4, <4>1, <4>2
        <5>2. Dist(p, i, N) < Dist(p, look, N) /\ Dist(p, look, N) < Dist(p, e, N)
          BY <1>7 DEF D
        <5>3. MayFill(H(ents[i]), e, i)
          BY <4>1, <5>1, <5>2, WayAround
        <5> QED
          BY <1>3, <1>8, <4>1, <5>3
      <4> QED
        BY <1>7, <4>2, <4>3, <4>4
    <3> QED
      BY <3>2, <3>3
  <2>5. ASSUME NEW i \in 0 .. N - 1, NEW q \in 0 .. N - 1, new[i] # NoVal, new[q] # NoVal,
               KeyOf[new[i]] = KeyOf[new[q]]
        PROVE  i = q
    BY <1>1, <1>4, <1>8, <2>2, <2>5
  <2>6. {new[i] : i \in 0 .. N - 1} \ {NoVal} = {ents[i] : i \in 0 .. N - 1} \ {NoVal}
    <3>1. ASSUME NEW x, x # NoVal, NEW i \in 0 .. N - 1, x = new[i]
          PROVE  \E q \in 0 .. N - 1 : x = ents[q]
      BY <1>1, <2>2, <3>1
    <3>2. ASSUME NEW x, x # NoVal, NEW i \in 0 .. N - 1, x = ents[i]
          PROVE  \E q \in 0 .. N - 1 : x = new[q]
      BY <1>1, <1>2, <2>2, <3>2
    <3> DEFINE A == {new[i] : i \in 0 .. N - 1}
               B == {ents[i] : i \in 0 .. N - 1}
    <3>3. ASSUME NEW x \in A, x # NoVal PROVE x \in B
      <4>1. PICK i \in 0 .. N - 1 : x = new[i]
        OBVIOUS
      <4>2. \E q \in 0 .. N - 1 : x = ents[q]
        BY <3>1, <3>3, <4>1
      <4> HIDE DEF new, ents
      <4> QED
        BY <4>2
    <3>4. ASSUME NEW x \in B, x # NoVal PROVE x \in A
      <4>1. PICK i \in 0 .. N - 1 : x = ents[i]
        OBVIOUS
      <4>2. \E q \in 0 .. N - 1 : x = new[q]
        BY <3>2, <3>4, <4>1
      <4> HIDE DEF new, ents
      <4> QED
        BY <4>2
    <3> HIDE DEF A, B
    <3>5. A \ {NoVal} = B \ {NoVal}
      BY <3>3, <3>4
    <3> QED
      BY <3>5 DEF A, B
  <2>7. [ents |-> new, hole |-> look] \in States(N, V)
    BY <2>2 DEF States
  <2> DEFINE r == [ents |-> new, hole |-> look]
  <2>8. r.ents = new /\ r.hole = look
    OBVIOUS
  <2> HIDE DEF r
  <2>9. r \in Filled(tb, N, V, p, j + 1)
    <3>1. D(look) <= j + 1
      BY <1>7
    <3>2. \A i, q \in 0 .. N - 1 : new[i] # NoVal /\ new[q] = NoVal /\ MayFill(H(new[i]), q, i)
              => q = look /\ D(i) > j + 1
      BY <2>4
    <3>3. \A i, q \in 0 .. N - 1 :
              new[i] # NoVal /\ new[q] # NoVal /\ KeyOf[new[i]] = KeyOf[new[q]] => i = q
      BY <2>5
    <3>4. {new[i] : i \in 0 .. N - 1} \ {NoVal} = Contents(tb) \ {tb[p]}
      BY <1>2, <2>6
    <3>5. r \in States(N, V) /\ new[look] = NoVal
      BY <2>2, <2>7 DEF r
    <3>6. /\ D(r.hole) <= j + 1
          /\ r.ents[r.hole] = NoVal
          /\ \A i \in 0 .. N - 1 :
               /\ D(i) <= j + 1 /\ i # r.hole => r.ents[i] # NoVal
               /\ D(i) > j + 1 => r.ents[i] = tb[i]
          /\ \A i, q \in 0 .. N - 1 :
               r.ents[i] # NoVal /\ r.ents[q] = NoVal /\ MayFill(H(r.ents[i]), q, i)
               => q = r.hole /\ D(i) > j + 1
          /\ \A i, q \in 0 .. N - 1 :
               r.ents[i] # NoVal /\ r.ents[q] # NoVal /\ KeyOf[r.ents[i]] = KeyOf[r.ents[q]]
               => i = q
          /\ {r.ents[i] : i \in 0 .. N - 1} \ {NoVal} = Contents(tb) \ {tb[p]}
      BY <2>3, <2>8, <3>1, <3>2, <3>3, <3>4, <3>5
    <3> QED
      BY <3>5, <3>6 DEF Filled, D, H
  <2> QED
    BY <2>1, <2>9 DEF r
<1>10. CASE ~MayFill(H(ents[look]), hole, look)
  <2>1. FillStep(s, look, N) = s
    BY <1>10 DEF FillStep, ents, hole, H
  <2>2. ASSUME NEW i \in 0 .. N - 1
        PROVE  /\ D(i) <= j + 1 /\ i # hole => ents[i] # NoVal
               /\ D(i) > j + 1 => ents[i] = tb[i]
    BY <1>2, <1>8, <1>11
  <2>3. ASSUME NEW i \in 0 .. N - 1, NEW q \in 0 .. N - 1, ents[i] # NoVal, ents[q] = NoVal,
               MayFill(H(ents[i]), q, i)
        PROVE  q = hole /\ D(i) > j + 1
    <3>1. q = hole /\ D(i) > j
      BY <1>3, <2>3
    <3>2. i # look
      BY <1>10, <2>3, <3>1
    <3> QED
      BY <1>7, <3>1, <3>2
  <2>4. s \in States(N, V)
    BY DEF Filled
  <2>5. D(hole) <= j + 1
    BY <1>1, <1>2, <1>7
  <2>6. \A i, q \in 0 .. N - 1 : ents[i] # NoVal /\ ents[q] = NoVal /\ MayFill(H(ents[i]), q, i)
            => q = hole /\ D(i) > j + 1
    BY <2>3
  <2>7. s \in Filled(tb, N, V, p, j + 1)
    BY <1>2, <1>4, <2>2, <2>4, <2>5, <2>6 DEF Filled, D, H, ents, hole
  <2> QED
    BY <2>1, <2>7
<1> QED
  BY <1>9, <1>10

(* Taking an entry out of a well-formed table starts the loop of the       *)
(* deletion.                                                               *)
LEMMA FillStarts ==
    ASSUME NEW N, NEW V, NEW tb, WellFormed(tb, N, V), NEW p \in 0 .. N - 1, tb[p] # NoVal
    PROVE  [ents |-> [tb EXCEPT ![p] = NoVal], hole |-> p] \in Filled(tb, N, V, p, 0)
<1> DEFINE ents == [tb EXCEPT ![p] = NoVal]
           s == [ents |-> ents, hole |-> p]
           D(i) == Dist(p, i, N)
           H(v) == Slot[KeyOf[v]] % N
<1>1. /\ Table(tb, N, V) /\ N \in Nat \ {0} /\ tb \in [0 .. N - 1 -> V \cup {NoVal}]
      /\ DOMAIN tb = 0 .. N - 1 /\ NoVal \notin V /\ \A v \in V : Slot[KeyOf[v]] \in Nat
  BY DEF WellFormed, Table
<1>2. /\ ents \in [0 .. N - 1 -> V \cup {NoVal}]
      /\ ents[p] = NoVal
      /\ \A i \in 0 .. N - 1 : i # p => ents[i] = tb[i]
  BY <1>1
<1> HIDE DEF ents
<1>3. \A i \in 0 .. N - 1 : D(i) \in 0 .. N - 1 /\ (D(i) = 0 <=> i = p)
  BY <1>1, DistProperties
<1> HIDE DEF D
<1>4. \A i \in 0 .. N - 1 : (D(i) <= 0 <=> i = p) /\ (D(i) > 0 <=> i # p)
  BY <1>3
<1>5. ASSUME NEW i \in 0 .. N - 1, NEW q \in 0 .. N - 1, ents[i] # NoVal, ents[q] = NoVal,
             MayFill(H(ents[i]), q, i)
      PROVE  q = p /\ D(i) > 0
  <2>1. i # p /\ ents[i] = tb[i]
    BY <1>2, <1>5
  <2>2. Home(tb, KeyOf[tb[i]]) = H(tb[i])
    <3>1. tb[i] \in V
      BY <1>1, <1>2, <1>5, <2>1
    <3>2. Slot[KeyOf[tb[i]]] \in Nat
      BY <1>1, <3>1
    <3> QED
      BY <1>1, <3>2, HomeRange
  <2>3. MayFill(Home(tb, KeyOf[tb[i]]), q, i) /\ tb[i] # NoVal
    BY <1>5, <2>1, <2>2
  <2>4. tb[q] # NoVal
    BY <2>3 DEF WellFormed, Reachable
  <2> QED
    BY <1>2, <1>4, <1>5, <2>1, <2>4
<1>6. ASSUME NEW i \in 0 .. N - 1, NEW q \in 0 .. N - 1, ents[i] # NoVal, ents[q] # NoVal,
             KeyOf[ents[i]] = KeyOf[ents[q]]
      PROVE  i = q
  BY <1>2, <1>6 DEF WellFormed, Distinct
<1>7. {ents[i] : i \in 0 .. N - 1} \ {NoVal} = Contents(tb) \ {tb[p]}
  <2> SUFFICES ASSUME NEW x, x # NoVal
               PROVE  x \in {ents[i] : i \in 0 .. N - 1}
                        <=> x \in {tb[i] : i \in 0 .. N - 1} /\ x # tb[p]
    BY <1>1 DEF Contents, Entries
  <2>1. ASSUME NEW i \in 0 .. N - 1, x = ents[i] PROVE x = tb[i] /\ x # tb[p]
    <3>1. i # p /\ x = tb[i]
      BY <1>2, <2>1
    <3> QED
      BY <3>1 DEF WellFormed, Distinct
  <2>2. ASSUME NEW i \in 0 .. N - 1, x = tb[i], x # tb[p] PROVE x = ents[i]
    BY <1>2, <2>2
  <2> QED
    BY <2>1, <2>2
<1>8. s \in States(N, V)
  BY <1>2 DEF States
<1>9. s.ents = ents /\ s.hole = p
  OBVIOUS
<1> HIDE DEF s
<1>10. s \in Filled(tb, N, V, p, 0)
  <2>1. D(p) <= 0
    BY <1>4
  <2>2. \A i, q \in 0 .. N - 1 :
           ents[i] # NoVal /\ ents[q] = NoVal /\ MayFill(H(ents[i]), q, i) => q = p /\ D(i) > 0
    BY <1>5
  <2>3. \A i, q \in 0 .. N - 1 :
           ents[i] # NoVal /\ ents[q] # NoVal /\ KeyOf[ents[i]] = KeyOf[ents[q]] => i = q
    BY <1>6
  <2>4. \A i \in 0 .. N - 1 :
           /\ D(i) <= 0 /\ i # p => ents[i] # NoVal
           /\ D(i) > 0 => ents[i] = tb[i]
    BY <1>2, <1>4
  <2>5. /\ D(s.hole) <= 0
        /\ s.ents[s.hole] = NoVal
        /\ \A i \in 0 .. N - 1 :
             /\ D(i) <= 0 /\ i # s.hole => s.ents[i] # NoVal
             /\ D(i) > 0 => s.ents[i] = tb[i]
        /\ \A i, q \in 0 .. N - 1 :
             s.ents[i] # NoVal /\ s.ents[q] = NoVal /\ MayFill(H(s.ents[i]), q, i)
             => q = s.hole /\ D(i) > 0
        /\ \A i, q \in 0 .. N - 1 :
             s.ents[i] # NoVal /\ s.ents[q] # NoVal /\ KeyOf[s.ents[i]] = KeyOf[s.ents[q]]
             => i = q
        /\ {s.ents[i] : i \in 0 .. N - 1} \ {NoVal} = Contents(tb) \ {tb[p]}
    BY <1>2, <1>7, <1>9, <2>1, <2>2, <2>3, <2>4
  <2> QED
    BY <1>8, <2>5 DEF Filled, D
<1> QED
  BY <1>10 DEF s, ents

(* When the gap has reached the last entry before an empty slot, nothing   *)
(* is on the wrong side of it.                                             *)
LEMMA FillEnds ==
    ASSUME NEW N \in Nat \ {0}, NEW V, NEW tb, Table(tb, N, V), NEW p \in 0 .. N - 1,
           NEW j \in Nat, NEW e \in 0 .. N - 1, Dist(p, e, N) = j + 1, tb[e] = NoVal,
           NEW s \in Filled(tb, N, V, p, j)
    PROVE  /\ WellFormed(s.ents, N, V)
           /\ Contents(s.ents) = Contents(tb) \ {tb[p]}
<1> DEFINE H(v) == Slot[KeyOf[v]] % N
           D(i) == Dist(p, i, N)
           ents == s.ents
           hole == s.hole
<1>1. ents \in [0 .. N - 1 -> V \cup {NoVal}] /\ hole \in 0 .. N - 1
  BY DEF Filled, States
<1>2. /\ D(hole) <= j /\ ents[hole] = NoVal
      /\ \A i \in 0 .. N - 1 : D(i) > j => ents[i] = tb[i]
      /\ {ents[i] : i \in 0 .. N - 1} \ {NoVal} = Contents(tb) \ {tb[p]}
  BY DEF Filled
<1>3. \A i, q \in 0 .. N - 1 :
          /\ ents[i] # NoVal /\ ents[q] = NoVal /\ MayFill(H(ents[i]), q, i)
          => q = hole /\ D(i) > j
  BY DEF Filled
<1>4. Distinct(ents, N)
  BY DEF Filled, Distinct
<1>5. /\ \A x \in 0 .. N - 1 : D(x) \in 0 .. N - 1
      /\ \A x, y \in 0 .. N - 1 : D(x) = D(y) => x = y
      /\ D(e) = j + 1
  <2>1. /\ \A x \in 0 .. N - 1 : D(x) \in 0 .. N - 1
        /\ \A x, y \in 0 .. N - 1 : D(x) = D(y) => x = y
    BY DistProperties
  <2> QED
    BY <2>1
<1>6. Table(ents, N, V)
  <2> HIDE DEF ents
  <2> QED
    BY <1>1 DEF Table
<1>7. \A i \in 0 .. N - 1 : ents[i] # NoVal =>
         Home(ents, KeyOf[ents[i]]) = H(ents[i]) /\ H(ents[i]) \in 0 .. N - 1
  <2> SUFFICES ASSUME NEW i \in 0 .. N - 1, ents[i] # NoVal
               PROVE  Home(ents, KeyOf[ents[i]]) = H(ents[i]) /\ H(ents[i]) \in 0 .. N - 1
    OBVIOUS
  <2> HIDE DEF ents
  <2>1. ents[i] \in V
    BY <1>1
  <2>2. Slot[KeyOf[ents[i]]] \in Nat
    BY <1>6, <2>1 DEF Table
  <2> QED
    BY <1>6, <2>2, HomeRange
<1> HIDE DEF H, D, ents, hole
<1>8. ents[e] = NoVal /\ e # hole
  <2>1. D(e) > j /\ ~(D(e) <= j)
    BY <1>5
  <2>2. ents[e] = tb[e]
    BY <1>2, <2>1
  <2> QED
    BY <1>2, <2>1, <2>2
<1>9. Reachable(ents, N)
  <2> SUFFICES ASSUME NEW i \in 0 .. N - 1, NEW q \in 0 .. N - 1, ents[i] # NoVal,
                      MayFill(Home(ents, KeyOf[ents[i]]), q, i), ents[q] = NoVal
               PROVE  FALSE
    BY DEF Reachable
  <2>1. /\ MayFill(H(ents[i]), q, i) /\ H(ents[i]) \in 0 .. N - 1
        /\ q = hole /\ D(i) > j
    BY <1>3, <1>7
  <2>2. i # e
    BY <1>8
  <2>3. D(hole) < D(e) /\ D(e) < D(i)
    <3>1. D(i) # D(e)
      BY <1>5, <2>2
    <3>2. D(i) \in Int /\ D(e) = j + 1 /\ D(hole) <= j /\ D(hole) \in Int
      BY <1>1, <1>2, <1>5
    <3> QED
      BY <2>1, <3>1, <3>2
  <2>4. MayFill(H(ents[i]), e, i)
    BY <1>1, <2>1, <2>3, WayAcross DEF D
  <2> QED
    BY <1>3, <1>8, <2>4
<1>10. Contents(ents) = {ents[i] : i \in 0 .. N - 1} \ {NoVal}
  BY <1>1 DEF Contents, Entries
<1> QED
  BY <1>2, <1>4, <1>6, <1>9, <1>10 DEF WellFormed, ents

(* No key is twice in a table.                                             *)
LEMMA LoadCounts ==
    ASSUME NEW N, NEW V, NEW tb, WellFormed(tb, N, V)
    PROVE  /\ Load(tb) = Cardinality(Contents(tb)) /\ IsFiniteSet(Contents(tb))
           /\ Contents(tb) \subseteq V
           /\ \A u, v \in Contents(tb) : KeyOf[u] = KeyOf[v] => u = v
<1>1. Table(tb, N, V) /\ DOMAIN tb = 0 .. N - 1 /\ tb \in [0 .. N - 1 -> V \cup {NoVal}]
  BY DEF WellFormed, Table
<1>2. IsFiniteSet(Entries(tb))
  BY <1>1, LoadType
<1>3. \A i, j \in Entries(tb) : tb[i] = tb[j] => i = j
  BY <1>1 DEF Entries, WellFormed, Distinct
<1>4. IsFiniteSet({tb[i] : i \in Entries(tb)})
      /\ Cardinality({tb[i] : i \in Entries(tb)}) = Cardinality(Entries(tb))
  BY <1>2, <1>3, FiniteImage
<1>5. Contents(tb) \subseteq V
  BY <1>1 DEF Contents, Entries
<1>6. \A u, v \in Contents(tb) : KeyOf[u] = KeyOf[v] => u = v
  BY <1>1 DEF Contents, Entries, WellFormed, Distinct
<1> QED
  BY <1>4, <1>5, <1>6 DEF Contents, Load

(* The loop goes over the entries up to the next empty slot.               *)
LEMMA RunProperties ==
    ASSUME NEW N, NEW V, NEW tb, Table(tb, N, V), Load(tb) < N,
           NEW p \in 0 .. N - 1, tb[p] # NoVal
    PROVE  \E n \in Nat, e \in 0 .. N - 1 :
              /\ DOMAIN RunAfter(tb, p) = 1 .. n
              /\ \A j \in 1 .. n :
                    /\ RunAfter(tb, p)[j] \in 0 .. N - 1
                    /\ Dist(p, RunAfter(tb, p)[j], N) = j
                    /\ tb[RunAfter(tb, p)[j]] # NoVal
              /\ Dist(p, e, N) = n + 1 /\ tb[e] = NoVal
<1> DEFINE At(d) == (p + d) % SizeOf(tb)
           D == {d \in 1 .. SizeOf(tb) : tb[At(d)] = NoVal \/ At(d) = p}
           n == Min(D) - 1
<1>1. N \in Nat \ {0} /\ SizeOf(tb) = N
  BY SizeOfTable DEF Table
<1>2. /\ \A x \in 0 .. N - 1 : Dist(p, x, N) \in 0 .. N - 1 /\ (Dist(p, x, N) = 0 <=> x = p)
      /\ \A x, y \in 0 .. N - 1 : Dist(p, x, N) = Dist(p, y, N) => x = y
      /\ \A d \in 0 .. N - 1 : At(d) \in 0 .. N - 1 /\ Dist(p, At(d), N) = d
  BY <1>1, DistProperties
<1> HIDE DEF At
<1>3. PICK x \in 0 .. N - 1 : tb[x] = NoVal
  BY LoadType
<1> DEFINE d == Dist(p, x, N)
<1>4. d \in 1 .. N - 1 /\ At(d) = x
  <2>1. d \in 0 .. N - 1 /\ d # 0
    BY <1>2, <1>3
  <2> HIDE DEF d
  <2>2. Dist(p, At(d), N) = d /\ At(d) \in 0 .. N - 1 /\ d \in 1 .. N - 1
    BY <1>2, <2>1
  <2>3. At(d) = x
    BY <1>2, <2>2 DEF d
  <2> QED
    BY <2>2, <2>3
<1>5. D \in SUBSET Nat /\ d \in D
  <2> HIDE DEF d
  <2> QED
    BY <1>1, <1>3, <1>4
<1>6. Min(D) \in D /\ \A y \in D : Min(D) <= y
  <2> HIDE DEF D
  <2> QED
    BY <1>5, MinOfNaturals
<1> DEFINE m == Min(D)
<1>7. m \in D /\ m <= d /\ \A y \in D : m <= y
  BY <1>5, <1>6
<1>8. RunAfter(tb, p) = [i \in 1 .. m - 1 |-> At(i)]
  BY DEF RunAfter, At
<1> HIDE DEF m, d
<1>9. m \in 1 .. N - 1 /\ \A i \in 1 .. m - 1 : i \in 1 .. N - 1 /\ i \notin D
  BY <1>1, <1>4, <1>7
<1>10. \A i \in 1 .. N - 1 : At(i) \in 0 .. N - 1 /\ Dist(p, At(i), N) = i /\ At(i) # p
  BY <1>2
<1>11. \A i \in 1 .. m - 1 : At(i) \in 0 .. N - 1 /\ Dist(p, At(i), N) = i /\ tb[At(i)] # NoVal
  BY <1>1, <1>9, <1>10
<1>12. At(m) \in 0 .. N - 1 /\ Dist(p, At(m), N) = m /\ tb[At(m)] = NoVal
  BY <1>7, <1>9, <1>10
<1> DEFINE k == m - 1
<1>13. k \in Nat /\ k + 1 = m
  BY <1>9
<1>14. RunAfter(tb, p) = [i \in 1 .. k |-> At(i)]
  BY <1>8
<1>15. \A i \in 1 .. k : RunAfter(tb, p)[i] = At(i)
  BY <1>14
<1>16. DOMAIN RunAfter(tb, p) = 1 .. k
  BY <1>14
<1>17. \A j \in 1 .. k :
          /\ RunAfter(tb, p)[j] \in 0 .. N - 1
          /\ Dist(p, RunAfter(tb, p)[j], N) = j
          /\ tb[RunAfter(tb, p)[j]] # NoVal
  BY <1>11, <1>15
<1>18. Dist(p, At(m), N) = k + 1
  BY <1>12, <1>13
<1> HIDE DEF k
<1> QED
  BY <1>12, <1>13, <1>16, <1>17, <1>18

(* fz_hash_remove: the table is the table without the key.                 *)
LEMMA RemoveProperties ==
    ASSUME NEW N, NEW V, NEW tb, WellFormed(tb, N, V), Load(tb) < N,
           NEW k, Slot[k] \in Nat
    PROVE  /\ WellFormed(HashRemove(tb, k), N, V)
           /\ Contents(HashRemove(tb, k)) = {v \in Contents(tb) : KeyOf[v] # k}
<1> DEFINE p == Probe(tb, k)
<1>1. /\ Table(tb, N, V) /\ N \in Nat \ {0} /\ DOMAIN tb = 0 .. N - 1 /\ NoVal \notin V
      /\ tb \in [0 .. N - 1 -> V \cup {NoVal}] /\ SizeOf(tb) = N
  <2>1. Table(tb, N, V)
    BY DEF WellFormed
  <2> QED
    BY <2>1, SizeOfTable DEF Table
<1>2. p \in 0 .. N - 1 /\ (tb[p] = NoVal \/ KeyOf[tb[p]] = k)
  <2>1. Table(tb, N, V) /\ Slot[k] \in Nat /\ Load(tb) < N
    BY <1>1
  <2> QED
    BY <2>1, ProbeEnds
<1>3. {tb[p]} \ {NoVal} = {v \in Contents(tb) : KeyOf[v] = k}
  BY FindProperties DEF HashFind
<1>4. CASE tb[p] = NoVal
  <2>1. HashRemove(tb, k) = tb
    BY <1>4 DEF HashRemove
  <2>2. Contents(tb) = {v \in Contents(tb) : KeyOf[v] # k}
    BY <1>3, <1>4
  <2> QED
    BY <2>1, <2>2
<1>5. CASE tb[p] # NoVal
  <2> DEFINE run == RunAfter(tb, p)
  <2>1. PICK n \in Nat, e \in 0 .. N - 1 :
              /\ DOMAIN run = 1 .. n
              /\ \A j \in 1 .. n :
                    /\ run[j] \in 0 .. N - 1
                    /\ Dist(p, run[j], N) = j
                    /\ tb[run[j]] # NoVal
              /\ Dist(p, e, N) = n + 1 /\ tb[e] = NoVal
    <3>1. Table(tb, N, V) /\ Load(tb) < N /\ p \in 0 .. N - 1
      BY <1>1, <1>2
    <3> HIDE DEF p
    <3> QED
      BY <3>1, <1>5, RunProperties
  <2> DEFINE base == [ents |-> [tb EXCEPT ![p] = NoVal], hole |-> p]
             St == States(N, V)
             step == [j \in 1 .. n |-> [s \in St |-> FillStep(s, run[j], N)]]
             Inv == [j \in 0 .. n |-> Filled(tb, N, V, p, j)]
             Fill(s, look) ==
                 IF MayFill(Home(tb, KeyOf[s.ents[look]]), s.hole, look)
                 THEN [ents |-> [s.ents EXCEPT ![s.hole] = s.ents[look], ![look] = NoVal],
                       hole |-> look]
                 ELSE s
             Eq(it) == it = [s \in SUBSET (DOMAIN run) |->
                              IF s = {} THEN base
                              ELSE Fill(it[s \ {Max(s)}], run[Max(s)])]
  <2>2. base \in Filled(tb, N, V, p, 0)
    <3> HIDE DEF p
    <3> QED
      BY <1>2, <1>5, FillStarts
  <2>3. base \in St
    BY <2>2 DEF Filled
  <2>4. ASSUME NEW s \in St, NEW look \in 0 .. N - 1
        PROVE  FillStep(s, look, N) \in St
    BY <2>4 DEF FillStep, States
  <2>5. step \in [1 .. n -> [St -> St]]
    BY <2>1, <2>4
  <2>6. PICK it \in [SUBSET (1 .. n) -> St] : LoopEquation(n, base, step, it)
    <3> HIDE DEF step, St, base
    <3> QED
      BY <2>3, <2>5, LoopExists
  <2>7. \A s, look : Fill(s, look) = FillStep(s, look, N)
    BY <1>1 DEF FillStep, Home
  <2>8. ASSUME NEW s \in SUBSET (1 .. n), s # {}
        PROVE  Max(s) \in s /\ Max(s) \in 1 .. n /\ s \ {Max(s)} \in SUBSET (1 .. n)
    <3>1. s \in SUBSET Nat /\ \A x \in s : x <= n
      OBVIOUS
    <3>2. Max(s) \in s
      BY <2>8, <3>1, MaxOfNaturals
    <3> QED
      BY <3>2
  <2>9. ASSUME NEW s \in SUBSET (1 .. n), s # {}
        PROVE  it[s] = FillStep(it[s \ {Max(s)}], run[Max(s)], N)
    <3>1. it[s] = step[Max(s)][it[s \ {Max(s)}]]
      BY <2>6, <2>9 DEF LoopEquation
    <3>2. Max(s) \in 1 .. n /\ it[s \ {Max(s)}] \in St
      BY <2>6, <2>8, <2>9
    <3> HIDE DEF St
    <3> QED
      BY <3>1, <3>2
  <2>10. Eq(it)
    <3>1. it[{}] = base
      BY <2>6 DEF LoopEquation
    <3>2. \A s \in SUBSET (1 .. n) :
             it[s] = IF s = {} THEN base ELSE Fill(it[s \ {Max(s)}], run[Max(s)])
      BY <2>7, <2>9, <3>1
    <3> HIDE DEF Fill, base, run, St
    <3> QED
      BY <2>1, <2>6, <3>2
  <2> DEFINE g == CHOOSE h : Eq(h)
  <2>11. Eq(g)
    BY <2>10
  <2>12. HashRemove(tb, k) = g[DOMAIN run].ents
    BY <1>5 DEF HashRemove, FoldLeft, MapThenFoldSet
  <2> HIDE DEF g, Fill, base, run, St, step, p, Inv
  <2>13. SUBSET (1 .. n) \subseteq {s \in SUBSET (1 .. n) : g[s] = it[s]}
    <3> DEFINE P == {s \in SUBSET (1 .. n) : g[s] = it[s]}
    <3>1. \A s \in SUBSET (1 .. n) :
             /\ g[s] = IF s = {} THEN base ELSE Fill(g[s \ {Max(s)}], run[Max(s)])
             /\ it[s] = IF s = {} THEN base ELSE Fill(it[s \ {Max(s)}], run[Max(s)])
      BY <2>1, <2>10, <2>11
    <3>2. {} \in P
      BY <3>1
    <3>3. ASSUME NEW s \in SUBSET (1 .. n), s # {}, \A x \in s : s \ {x} \in P
          PROVE  s \in P
      BY <2>8, <3>1, <3>3
    <3>4. IsFiniteSet(1 .. n)
      BY FS_Interval
    <3> HIDE DEF P
    <3>5. SUBSET (1 .. n) \subseteq P
      BY <3>2, <3>3, <3>4, SubsetInduction
    <3> QED
      BY <3>5 DEF P
  <2>14. HashRemove(tb, k) = it[1 .. n].ents
    BY <2>1, <2>12, <2>13
  <2>15. base \in Inv[0]
    BY <2>2 DEF Inv
  <2>16. ASSUME NEW j \in 0 .. n - 1, NEW s \in Inv[j]
         PROVE  step[j + 1][s] \in Inv[j + 1]
    <3>1. /\ j \in Nat /\ j + 1 \in 1 .. n /\ j + 1 \in 0 .. n /\ j \in 0 .. n
          /\ n + 1 > j + 1
      OBVIOUS
    <3>2. s \in Filled(tb, N, V, p, j) /\ s \in St
      BY <2>16, <3>1 DEF Inv, Filled, St
    <3>3. step[j + 1][s] = FillStep(s, run[j + 1], N)
      BY <3>1, <3>2 DEF step
    <3>4. /\ run[j + 1] \in 0 .. N - 1 /\ Dist(p, run[j + 1], N) = j + 1
          /\ tb[run[j + 1]] # NoVal
          /\ Dist(p, e, N) > j + 1 /\ tb[e] = NoVal
      BY <2>1, <3>1
    <3>5. FillStep(s, run[j + 1], N) \in Filled(tb, N, V, p, j + 1)
      BY <1>1, <1>2, <3>1, <3>2, <3>4, FillKeeps
    <3> QED
      BY <3>1, <3>3, <3>5 DEF Inv
  <2>17. it[1 .. n] \in Inv[n]
    BY <2>6, <2>15, <2>16, LoopInvariant
  <2>18. it[1 .. n] \in Filled(tb, N, V, p, n)
    BY <2>17 DEF Inv
  <2>19. WellFormed(HashRemove(tb, k), N, V)
         /\ Contents(HashRemove(tb, k)) = Contents(tb) \ {tb[p]}
    <3> DEFINE s == it[1 .. n]
    <3>1. Dist(p, e, N) = n + 1 /\ tb[e] = NoVal /\ s \in Filled(tb, N, V, p, n)
      BY <2>1, <2>18
    <3> HIDE DEF s
    <3>2. WellFormed(s.ents, N, V) /\ Contents(s.ents) = Contents(tb) \ {tb[p]}
      BY <1>1, <1>2, <3>1, FillEnds
    <3> QED
      BY <2>14, <3>2 DEF s
  <2>20. Contents(tb) \ {tb[p]} = {v \in Contents(tb) : KeyOf[v] # k}
    BY <1>3, <1>5 DEF p
  <2> QED
    BY <2>19, <2>20
<1> QED
  BY <1>4, <1>5
-----------------------------------------------------------------------------
(* Making and growing *)

(* A new table has no entries and every search in it is exact.             *)
LEMMA EmptyProperties ==
    ASSUME NEW N \in Nat \ {0}, NEW V, NoVal \notin V, \A v \in V : Slot[KeyOf[v]] \in Nat
    PROVE  WellFormed(EmptyTable(N), N, V) /\ Contents(EmptyTable(N)) = {}
<1> DEFINE tb == EmptyTable(N)
<1>1. DOMAIN tb = 0 .. N - 1 /\ tb \in [0 .. N - 1 -> V \cup {NoVal}]
      /\ \A i \in 0 .. N - 1 : tb[i] = NoVal
  BY DEF EmptyTable
<1> HIDE DEF tb
<1>2. WellFormed(tb, N, V) /\ Contents(tb) = {}
  BY <1>1 DEF WellFormed, Table, Reachable, Distinct, Contents, Entries
<1> QED
  BY <1>2 DEF tb

(* fz_resize_hash: the entries are those of the old table.                 *)
LEMMA ResizeProperties ==
    ASSUME NEW N, NEW V, NEW tb, WellFormed(tb, N, V),
           NEW M \in Nat \ {0}, Load(tb) < M
    PROVE  /\ WellFormed(Resized(tb, M), M, V)
           /\ Contents(Resized(tb, M)) = Contents(tb)
<1> DEFINE Old == [i \in 1 .. SizeOf(tb) |-> tb[i - 1]]
           base == EmptyTable(M)
           Put(new, v) == IF v = NoVal THEN new ELSE HashInsert(new, v)
           St == [0 .. M - 1 -> V \cup {NoVal}]
           step == [j \in 1 .. N |-> [t \in St |-> Put(t, Old[j])]]
           Done(j) == {tb[i] : i \in 0 .. j - 1} \ {NoVal}
           Inv == [j \in 0 .. N |-> {t \in St : WellFormed(t, M, V) /\ Contents(t) = Done(j)}]
           Eq(it) == it = [s \in SUBSET (DOMAIN Old) |->
                            IF s = {} THEN base ELSE Put(it[s \ {Max(s)}], Old[Max(s)])]
<1>1. /\ N \in Nat \ {0} /\ DOMAIN tb = 0 .. N - 1 /\ NoVal \notin V
      /\ tb \in [0 .. N - 1 -> V \cup {NoVal}] /\ SizeOf(tb) = N
      /\ \A v \in V : Slot[KeyOf[v]] \in Nat
  <2>1. Table(tb, N, V)
    BY DEF WellFormed
  <2> QED
    BY <2>1, SizeOfTable DEF Table
<1>2. DOMAIN Old = 1 .. N /\ \A j \in 1 .. N : Old[j] = tb[j - 1] /\ Old[j] \in V \cup {NoVal}
  <2>1. DOMAIN Old = 1 .. N /\ \A j \in 1 .. N : Old[j] = tb[j - 1]
    BY <1>1
  <2>2. \A j \in 1 .. N : j - 1 \in 0 .. N - 1
    BY <1>1
  <2> QED
    BY <1>1, <2>1, <2>2
<1>3. WellFormed(base, M, V) /\ Contents(base) = {} /\ base \in St
  <2>1. WellFormed(base, M, V) /\ Contents(base) = {}
    BY <1>1, EmptyProperties
  <2> QED
    BY <2>1 DEF WellFormed, Table
<1>4. ASSUME NEW t \in St, NEW v \in V \cup {NoVal} PROVE Put(t, v) \in St
  <2>1. CASE v = NoVal
    BY <2>1
  <2>2. CASE v # NoVal
    <3> DEFINE q == Probe(t, KeyOf[v])
    <3>1. [t EXCEPT ![q] = v] \in St
      <4> HIDE DEF q
      <4> QED
        BY <1>4
    <3> QED
      BY <2>2, <3>1 DEF HashInsert
  <2> QED
    BY <2>1, <2>2
<1>5. step \in [1 .. N -> [St -> St]]
  <2> HIDE DEF Put, St, Old
  <2> QED
    BY <1>2, <1>4
<1>6. PICK it \in [SUBSET (1 .. N) -> St] : LoopEquation(N, base, step, it)
  <2> HIDE DEF step, St, base
  <2> QED
    BY <1>1, <1>3, <1>5, LoopExists
<1>7. ASSUME NEW s \in SUBSET (1 .. N), s # {}
      PROVE  Max(s) \in s /\ Max(s) \in 1 .. N /\ s \ {Max(s)} \in SUBSET (1 .. N)
  <2>1. s \in SUBSET Nat /\ \A x \in s : x <= N
    BY <1>1
  <2>2. Max(s) \in s
    BY <1>1, <1>7, <2>1, MaxOfNaturals
  <2> QED
    BY <2>2
<1>8. ASSUME NEW s \in SUBSET (1 .. N), s # {}
      PROVE  it[s] = Put(it[s \ {Max(s)}], Old[Max(s)])
  <2>1. it[s] = step[Max(s)][it[s \ {Max(s)}]]
    BY <1>6, <1>8 DEF LoopEquation
  <2>2. Max(s) \in 1 .. N /\ it[s \ {Max(s)}] \in St
    BY <1>6, <1>7, <1>8
  <2> HIDE DEF St, Put, Old
  <2> QED
    BY <2>1, <2>2
<1>9. Eq(it)
  <2>1. it[{}] = base
    BY <1>6 DEF LoopEquation
  <2> HIDE DEF Put, base, St, Old
  <2>2. \A s \in SUBSET (1 .. N) :
           it[s] = IF s = {} THEN base ELSE Put(it[s \ {Max(s)}], Old[Max(s)])
    BY <1>8, <2>1
  <2> QED
    BY <1>2, <1>6, <2>2
<1> DEFINE g == CHOOSE h : Eq(h)
<1>10. Eq(g)
  <2> HIDE DEF Eq
  <2> QED
    BY <1>9
<1>11. Resized(tb, M) = g[DOMAIN Old]
  BY DEF Resized, FoldLeft, MapThenFoldSet
<1> HIDE DEF g, Put, base, Old, St, step, Inv
<1>12. SUBSET (1 .. N) \subseteq {s \in SUBSET (1 .. N) : g[s] = it[s]}
  <2> DEFINE P == {s \in SUBSET (1 .. N) : g[s] = it[s]}
  <2>1. \A s \in SUBSET (1 .. N) :
           /\ g[s] = IF s = {} THEN base ELSE Put(g[s \ {Max(s)}], Old[Max(s)])
           /\ it[s] = IF s = {} THEN base ELSE Put(it[s \ {Max(s)}], Old[Max(s)])
    BY <1>2, <1>9, <1>10
  <2>2. {} \in P
    BY <2>1
  <2>3. ASSUME NEW s \in SUBSET (1 .. N), s # {}, \A x \in s : s \ {x} \in P
        PROVE  s \in P
    BY <1>7, <2>1, <2>3
  <2>4. IsFiniteSet(1 .. N)
    BY <1>1, FS_Interval
  <2> HIDE DEF P
  <2>5. SUBSET (1 .. N) \subseteq P
    BY <2>2, <2>3, <2>4, SubsetInduction
  <2> QED
    BY <2>5 DEF P
<1>13. Resized(tb, M) = it[1 .. N]
  BY <1>2, <1>11, <1>12
<1>14. base \in Inv[0]
  <2>1. 0 \in 0 .. N /\ 0 .. 0 - 1 = {}
    BY <1>1
  <2>2. Done(0) = {}
    BY <2>1
  <2> QED
    BY <1>3, <2>1, <2>2 DEF Inv
<1>15. ASSUME NEW j \in 0 .. N - 1, NEW t \in Inv[j]
       PROVE  step[j + 1][t] \in Inv[j + 1]
  <2> DEFINE v == tb[j]
  <2>1. j \in Nat /\ j + 1 \in 1 .. N /\ j + 1 \in 0 .. N /\ j \in 0 .. N /\ (j + 1) - 1 = j
    BY <1>1
  <2>2. t \in St /\ WellFormed(t, M, V) /\ Contents(t) = Done(j)
    BY <1>15, <2>1 DEF Inv
  <2>3. Old[j + 1] = v /\ v \in V \cup {NoVal}
    BY <1>2, <2>1
  <2>4. step[j + 1][t] = Put(t, v) /\ Put(t, v) \in St
    BY <1>4, <2>1, <2>2, <2>3 DEF step
  <2>5. Done(j + 1) = (Done(j) \cup {v}) \ {NoVal}
    <3>1. 0 .. (j + 1) - 1 = (0 .. j - 1) \cup {j}
      BY <2>1
    <3> QED
      BY <3>1
  <2>6. CASE v = NoVal
    <3>1. Put(t, v) = t /\ Done(j + 1) = Done(j)
      BY <2>5, <2>6 DEF Put
    <3> QED
      BY <2>1, <2>2, <2>4, <3>1 DEF Inv
  <2>7. CASE v # NoVal
    <3>1. \A u \in Done(j) : \E i \in 0 .. N - 1 : i # j /\ u = tb[i] /\ u # NoVal
      BY <1>1, <2>1
    <3>2. \A u \in Contents(t) : u \in Contents(tb) /\ KeyOf[u] # KeyOf[v]
      BY <1>1, <2>2, <2>7, <3>1 DEF WellFormed, Distinct, Contents, Entries
    <3>3. Load(t) < M
      <4>1. /\ Load(t) = Cardinality(Contents(t)) /\ IsFiniteSet(Contents(t))
            /\ Load(tb) = Cardinality(Contents(tb)) /\ IsFiniteSet(Contents(tb))
        BY <2>2, LoadCounts
      <4>2. Contents(t) \in SUBSET Contents(tb)
        BY <3>2
      <4>3. Cardinality(Contents(t)) <= Cardinality(Contents(tb))
        BY <4>1, <4>2, FS_Subset
      <4>4. Cardinality(Contents(t)) \in Nat /\ Cardinality(Contents(tb)) \in Nat
        BY <4>1, FS_CardinalityType
      <4> QED
        BY <4>1, <4>3, <4>4
    <3>4. Put(t, v) = HashInsert(t, v) /\ v \in V
      BY <2>3, <2>7 DEF Put
    <3>5. /\ WellFormed(HashInsert(t, v), M, V)
          /\ Contents(HashInsert(t, v)) = Contents(t) \cup {v}
      <4> HIDE DEF v
      <4> QED
        BY <2>2, <3>2, <3>3, <3>4, InsertProperties
    <3>6. Done(j + 1) = Done(j) \cup {v}
      BY <2>5, <2>7
    <3> QED
      BY <2>1, <2>2, <2>4, <3>4, <3>5, <3>6 DEF Inv
  <2> QED
    BY <2>6, <2>7
<1>16. it[1 .. N] \in Inv[N]
  BY <1>1, <1>6, <1>14, <1>15, LoopInvariant
<1>17. Contents(tb) = Done(N)
  BY <1>1 DEF Contents, Entries
<1> QED
  BY <1>1, <1>13, <1>16, <1>17 DEF Inv
===============================================================================
