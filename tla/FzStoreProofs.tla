---------------------------- MODULE FzStoreProofs ----------------------------
(***************************************************************************)
(* Proofs about FzStore, for any number of threads, any keys and values,   *)
(* any sizes and any hash function: its type correctness, its invariants,  *)
(* and that it keeps the promise of StorePromise.                          *)
(***************************************************************************)
EXTENDS FzStore, FzHashProofs, SequenceTheorems

-----------------------------------------------------------------------------
(* The inductive invariant *)

Listed == ToSet(lru)

HashedOf(S) == {v \in S : KeyOf[v] \in Hashed}

(* A list without repetition.                                              *)
Once(s) == \A i, j \in DOMAIN s : s[i] = s[j] => i = j

ListedOnce == Once(lru)

(* What a thread is about, by where it is.                                 *)
Control ==
    \A t \in Threads :
       /\ pc[t] \in {"idle", "empty"} => then[t] = "return"
       /\ pc[t] \in {"store", "space", "failed"} => then[t] = "store"
       /\ pc[t] \in {"resize", "insert"} => then[t] = "resize"
       /\ pc[t] = "swap" => then[t] \in {"store", "resize"}
       /\ pc[t] = "space" => need[t] > 0
       /\ prev[t] # NoVal => pc[t] \in {"space", "undefined"}
       /\ pc[t] = "empty" => closed
       /\ closed => then[t] = "return"
       /\ pc[t] = "undefined" => \A u \in Threads : pc[u] = "undefined"
       /\ then[t] = "key" => pc[t] \in {"malloc", "scavenge", "undefined"}
       /\ dropping[t] # NoVal =>
             /\ IsTile(dropping[t])
             /\ pc[t] \in {"idle", "space", "scavenge", "empty", "undefined"}

(* The threads that have a value which they may list yet.                  *)
Storing ==
    {t \in Threads :
       then[t] \in {"key", "store", "resize"} /\ pc[t] \notin {"swap", "undefined"}}

(* What a thread loads or stores is its own: nobody lists it, nobody else  *)
(* stores it, and the thread holds no other value of its key.  While it    *)
(* makes the key of a tile it holds the image.                             *)
Loads ==
    \A t \in Threads :
       /\ then[t] = "create" =>
             /\ wanted[t] \in Keys /\ \A v \in kept[t] : KeyOf[v] # wanted[t]
             /\ wanted[t] \in Tiles => ImageOf[wanted[t]] \in kept[t]
       /\ then[t] = "key" => IsTile(wanted[t]) /\ Image(wanted[t]) \in kept[t]
       /\ then[t] \in {"key", "store", "resize"} => wanted[t] \in kept[t]
       /\ t \in Storing =>
             /\ wanted[t] \notin Listed
             /\ \A v \in kept[t] : KeyOf[v] = KeyOf[wanted[t]] => v = wanted[t]
             /\ \A u \in Storing : wanted[u] = wanted[t] => u = t

(* The table has the listed values of hashed keys.                         *)
TableListed ==
    /\ WellFormed(table, SizeOf(table), Vals)
    /\ Contents(table) = HashedOf(Listed)

Pending == {t \in Threads : pc[t] = "insert"}

Limit(n) == (n * LoadTenths) \div 10

(* A table of n slots that has been doubled j times has room for j         *)
(* insertions beyond the one that finds it too full.                       *)
Room(n, j) == 10 * n - n * LoadTenths > 10 * (j + 1)

(* Threads that have enlarged the table insert without looking at it       *)
(* again, but there are fewer of them than there is room.                  *)
TableHasRoom ==
    /\ \E j \in Nat :
          /\ Room(SizeOf(table), j)
          /\ Cardinality(Pending) <= j
          /\ Load(table) + Cardinality(Pending) <= Limit(SizeOf(table)) + 1 + j
    /\ \A t \in Threads :
          then[t] = "resize" => grown[t] = 2 * SizeOf(table) \/ grown[t] <= SizeOf(table)

(* The size covers the values of all threads that have been through the    *)
(* enlarging of the table, also when they find their key in the end.       *)
Counted == {t \in Threads : then[t] = "resize"}

ValueWeight == [v \in Vals |-> WeightOf(v)]
EnteringWeight == [t \in Threads |-> WeightOf(wanted[t])]

SizesCovered ==
    /\ SumFunctionOnSet(ValueWeight, Listed) + SumFunctionOnSet(EnteringWeight, Counted) <= size
    /\ size <= MaxSize

(* The references to the key of a tile: of the thread that stores it, of    *)
(* its item, of the threads that drop it, and those that are lost.         *)
Own == [t \in Threads |-> IF then[t] \in {"store", "resize"} THEN {wanted[t]} ELSE {}]

KeysExact ==
    \A v \in Vals :
       IsTile(v) => keyRefs[v] = Cardinality({t \in Threads : v \in Own[t]})
                                   + Cardinality({i \in DOMAIN lru : lru[i] = v})
                                   + Cardinality({t \in Threads : dropping[t] = v})
                                   + leaked[v]

(* A thread that makes a key is the first to have it.                      *)
KeysUnmade == \A t \in Threads : then[t] = "key" => keyRefs[wanted[t]] = 0

StoreInv ==
    /\ TypeOK /\ RefsExact /\ ListedOnce /\ Control /\ Loads /\ PinnedIsListed
    /\ TableListed /\ TableHasRoom /\ SizesCovered

(* The invariant with the references to keys, which only three steps need. *)
KeyedInv == StoreInv /\ KeysExact /\ KeysUnmade
-----------------------------------------------------------------------------
(* Lists *)

(* Taking an item out of a list leaves the others, in their order.         *)
LEMMA RemoveAtProperties ==
    ASSUME NEW S, NEW s \in Seq(S), Once(s), NEW i \in DOMAIN s
    PROVE  /\ RemoveAt(s, i) \in Seq(S)
           /\ ToSet(RemoveAt(s, i)) = ToSet(s) \ {s[i]}
           /\ Once(RemoveAt(s, i))
<1> DEFINE n == Len(s)
           r == RemoveAt(s, i)
<1>1. n \in Nat /\ DOMAIN s = 1 .. n /\ i \in 1 .. n /\ \A j \in 1 .. n : s[j] \in S
  OBVIOUS
<1>2. /\ SubSeq(s, 1, i - 1) \in Seq(S) /\ Len(SubSeq(s, 1, i - 1)) = i - 1
      /\ \A j \in 1 .. i - 1 : SubSeq(s, 1, i - 1)[j] = s[j]
  BY <1>1
<1>3. /\ SubSeq(s, i + 1, n) \in Seq(S) /\ Len(SubSeq(s, i + 1, n)) = n - i
      /\ \A j \in 1 .. n - i : SubSeq(s, i + 1, n)[j] = s[i + j]
  <2>1. \A j \in i + 1 .. n : s[j] \in S
    BY <1>1
  <2>2. i + 1 \in Int /\ n \in Int /\ n - (i + 1) + 1 = n - i
        /\ (IF i + 1 <= n THEN n - (i + 1) + 1 ELSE 0) = n - i
    BY <1>1
  <2>3. /\ SubSeq(s, i + 1, n) \in Seq(S)
        /\ Len(SubSeq(s, i + 1, n)) = (IF i + 1 <= n THEN n - (i + 1) + 1 ELSE 0)
        /\ \A j \in 1 .. n - (i + 1) + 1 : SubSeq(s, i + 1, n)[j] = s[(i + 1) + j - 1]
    BY <2>1, <2>2, SubSeqProperties
  <2>4. \A j \in 1 .. n - i : (i + 1) + j - 1 = i + j
    BY <1>1
  <2> QED
    BY <2>2, <2>3, <2>4
<1>4. r = SubSeq(s, 1, i - 1) \o SubSeq(s, i + 1, n)
  BY DEF RemoveAt
<1> HIDE DEF r, n
<1>5. /\ r \in Seq(S) /\ DOMAIN r = 1 .. n - 1
      /\ \A j \in 1 .. n - 1 : r[j] = IF j < i THEN s[j] ELSE s[j + 1]
  <2> DEFINE a == SubSeq(s, 1, i - 1)
             b == SubSeq(s, i + 1, n)
  <2>1. /\ a \in Seq(S) /\ b \in Seq(S) /\ Len(a) = i - 1 /\ Len(b) = n - i
        /\ \A j \in 1 .. i - 1 : a[j] = s[j]
        /\ \A j \in 1 .. n - i : b[j] = s[i + j]
        /\ r = a \o b
    BY <1>2, <1>3, <1>4
  <2> HIDE DEF a, b
  <2>2. /\ r \in Seq(S) /\ Len(r) = (i - 1) + (n - i)
        /\ \A j \in 1 .. (i - 1) + (n - i) : r[j] = IF j <= i - 1 THEN a[j] ELSE b[j - (i - 1)]
    BY <2>1, ConcatProperties
  <2>3. DOMAIN r = 1 .. Len(r)
    BY <2>2, LenProperties
  <2>4. ASSUME NEW j \in 1 .. n - 1
        PROVE  r[j] = IF j < i THEN s[j] ELSE s[j + 1]
    <3>1. CASE j < i
      <4>1. j \in 1 .. i - 1 /\ j \in 1 .. (i - 1) + (n - i) /\ j <= i - 1
        BY <1>1, <3>1
      <4> QED
        BY <2>1, <2>2, <3>1, <4>1
    <3>2. CASE ~(j < i)
      <4>1. /\ j \in 1 .. (i - 1) + (n - i) /\ ~(j <= i - 1)
            /\ j - (i - 1) \in 1 .. n - i /\ i + (j - (i - 1)) = j + 1
        BY <1>1, <3>2
      <4>2. r[j] = b[j - (i - 1)] /\ b[j - (i - 1)] = s[i + (j - (i - 1))]
        BY <2>1, <2>2, <4>1
      <4> QED
        BY <3>2, <4>1, <4>2
    <3> QED
      BY <3>1, <3>2
  <2>5. (i - 1) + (n - i) = n - 1
    BY <1>1
  <2> QED
    BY <2>2, <2>3, <2>4, <2>5
<1>6. \A a, b \in 1 .. n - 1 : r[a] = r[b] => a = b
  <2> SUFFICES ASSUME NEW a \in 1 .. n - 1, NEW b \in 1 .. n - 1, r[a] = r[b]
               PROVE  a = b
    OBVIOUS
  <2> DEFINE A == IF a < i THEN a ELSE a + 1
             B == IF b < i THEN b ELSE b + 1
  <2>1. A \in DOMAIN s /\ B \in DOMAIN s /\ r[a] = s[A] /\ r[b] = s[B]
    BY <1>1, <1>5
  <2>2. A = B
    BY <2>1 DEF Once
  <2> QED
    BY <1>1, <2>2
<1>7. ToSet(r) = ToSet(s) \ {s[i]}
  <2>1. ASSUME NEW j \in 1 .. n - 1
        PROVE  \E a \in 1 .. n : a # i /\ r[j] = s[a]
    <3> DEFINE a == IF j < i THEN j ELSE j + 1
    <3>1. a \in 1 .. n /\ a # i /\ r[j] = s[a]
      BY <1>1, <1>5
    <3> QED
      BY <3>1
  <2>2. ASSUME NEW a \in 1 .. n, a # i
        PROVE  \E j \in 1 .. n - 1 : r[j] = s[a]
    <3> DEFINE j == IF a < i THEN a ELSE a - 1
    <3>1. j \in 1 .. n - 1 /\ r[j] = s[a]
      BY <1>1, <1>5, <2>2
    <3> QED
      BY <3>1
  <2>3. \A a \in 1 .. n : s[a] = s[i] => a = i
    BY <1>1 DEF Once
  <2>4. ToSet(s) = {s[a] : a \in 1 .. n} /\ ToSet(r) = {r[j] : j \in 1 .. n - 1}
    BY <1>1, <1>5 DEF ToSet
  <2>5. ASSUME NEW x
        PROVE  x \in {r[j] : j \in 1 .. n - 1} <=> x \in {s[a] : a \in 1 .. n} /\ x # s[i]
    <3>1. ASSUME NEW j \in 1 .. n - 1, x = r[j]
          PROVE  x \in {s[a] : a \in 1 .. n} /\ x # s[i]
      BY <2>1, <2>3, <3>1
    <3>2. ASSUME NEW a \in 1 .. n, x = s[a], x # s[i]
          PROVE  x \in {r[j] : j \in 1 .. n - 1}
      BY <2>2, <3>2
    <3> QED
      BY <3>1, <3>2
  <2> QED
    BY <2>4, <2>5
<1> QED
  BY <1>5, <1>6, <1>7 DEF r, Once

(* A value that is put in front of a list without it.                      *)
LEMMA ConsProperties ==
    ASSUME NEW S, NEW s \in Seq(S), Once(s), NEW v \in S, v \notin ToSet(s)
    PROVE  /\ <<v>> \o s \in Seq(S)
           /\ ToSet(<<v>> \o s) = ToSet(s) \cup {v}
           /\ Once(<<v>> \o s)
<1> DEFINE n == Len(s)
           r == <<v>> \o s
<1>1. n \in Nat /\ DOMAIN s = 1 .. n /\ \A j \in 1 .. n : s[j] \in S
  OBVIOUS
<1>2. /\ r \in Seq(S) /\ DOMAIN r = 1 .. n + 1 /\ r[1] = v
      /\ \A j \in 2 .. n + 1 : r[j] = s[j - 1]
  BY <1>1
<1> HIDE DEF r, n
<1>3. \A j \in 1 .. n + 1 : j = 1 \/ (j \in 2 .. n + 1 /\ j - 1 \in 1 .. n)
  BY <1>1
<1>4. \A a \in 1 .. n : a + 1 \in 2 .. n + 1 /\ (a + 1) - 1 = a
  BY <1>1
<1>5. \A j \in 1 .. n : s[j] # v
  BY <1>1 DEF ToSet
<1>6. \A a, b \in 1 .. n + 1 : r[a] = r[b] => a = b
  <2> SUFFICES ASSUME NEW a \in 1 .. n + 1, NEW b \in 1 .. n + 1, r[a] = r[b]
               PROVE  a = b
    OBVIOUS
  <2>1. CASE a = 1 \/ b = 1
    BY <1>2, <1>3, <1>5, <2>1
  <2>2. CASE a # 1 /\ b # 1
    <3>1. /\ a - 1 \in DOMAIN s /\ b - 1 \in DOMAIN s
          /\ s[a - 1] = s[b - 1]
      BY <1>1, <1>2, <1>3, <2>2
    <3>2. a - 1 = b - 1
      BY <3>1 DEF Once
    <3> QED
      BY <1>1, <3>2
  <2> QED
    BY <2>1, <2>2
<1>7. ToSet(r) = ToSet(s) \cup {v}
  <2>1. \A a \in 1 .. n : s[a] = r[a + 1] /\ a + 1 \in 1 .. n + 1
    BY <1>1, <1>2, <1>4
  <2>2. 1 \in 1 .. n + 1
    BY <1>1
  <2>3. ToSet(s) = {s[a] : a \in 1 .. n} /\ ToSet(r) = {r[j] : j \in 1 .. n + 1}
    BY <1>1, <1>2 DEF ToSet
  <2>4. ASSUME NEW j \in 1 .. n + 1 PROVE r[j] \in {s[a] : a \in 1 .. n} \cup {v}
    BY <1>2, <1>3
  <2>5. ASSUME NEW x
        PROVE  x \in {r[j] : j \in 1 .. n + 1} <=> x \in {s[a] : a \in 1 .. n} \/ x = v
    <3>1. ASSUME NEW a \in 1 .. n, x = s[a] PROVE x \in {r[j] : j \in 1 .. n + 1}
      BY <2>1, <3>1
    <3>2. v \in {r[j] : j \in 1 .. n + 1}
      BY <1>2, <2>2
    <3> QED
      BY <2>4, <3>1, <3>2
  <2> QED
    BY <2>3, <2>5
<1> QED
  BY <1>2, <1>6, <1>7 DEF r, Once
-----------------------------------------------------------------------------
(* Counting references *)

Has(v, S) == IF v \in S THEN 1 ELSE 0
Is(v, w) == IF v = w THEN 1 ELSE 0

(* The threads that hold v, where what they hold is h.                     *)
Holders(h, v) == {t \in Threads : v \in h[t]}

(* The threads that have v pinned.                                         *)
Pinners(p, v) == {t \in Threads : p[t] = v}

(* The number of threads changes by one when one of them joins or leaves.  *)
LEMMA CardinalityOfThreads ==
    ASSUME NEW A \in SUBSET Threads, NEW B \in SUBSET Threads, NEW t \in Threads,
           \A u \in Threads : u # t => (u \in A <=> u \in B)
    PROVE  /\ Cardinality(A) \in Nat /\ Cardinality(B) \in Nat
           /\ Cardinality(B) = Cardinality(A) - Has(t, A) + Has(t, B)
<1>1. IsFiniteSet(A) /\ IsFiniteSet(B)
  BY FS_Subset, StoreAssumption
<1>2. Cardinality(A) \in Nat /\ Cardinality(B) \in Nat
  BY <1>1, FS_CardinalityType
<1>3. CASE t \in A <=> t \in B
  <2>1. A = B
    BY <1>3
  <2> QED
    BY <1>2, <2>1 DEF Has, Is
<1>4. CASE t \in A /\ t \notin B
  <2>1. B = A \ {t}
    BY <1>4
  <2>2. Cardinality(B) = Cardinality(A) - 1
    BY <1>1, <1>4, <2>1, FS_RemoveElement
  <2> QED
    BY <1>2, <1>4, <2>2 DEF Has, Is
<1>5. CASE t \notin A /\ t \in B
  <2>1. B = A \cup {t}
    BY <1>5
  <2>2. Cardinality(B) = Cardinality(A) + 1
    BY <1>1, <1>5, <2>1, FS_AddElement
  <2> QED
    BY <1>2, <1>5, <2>2 DEF Has, Is
<1> QED
  BY <1>2, <1>3, <1>4, <1>5

(* A list without repetition has each of its values once.                  *)
LEMMA PlacesCount ==
    ASSUME NEW s, Once(s), NEW v
    PROVE  Cardinality({i \in DOMAIN s : s[i] = v}) = Has(v, ToSet(s))
<1>1. CASE v \in ToSet(s)
  <2>1. PICK i \in DOMAIN s : s[i] = v
    BY <1>1 DEF ToSet
  <2>2. {j \in DOMAIN s : s[j] = v} = {i}
    BY <2>1 DEF Once
  <2> QED
    BY <1>1, <2>2, FS_Singleton DEF Has, Is
<1>2. CASE v \notin ToSet(s)
  <2>1. {j \in DOMAIN s : s[j] = v} = {}
    BY <1>2 DEF ToSet
  <2> QED
    BY <1>2, <2>1, FS_EmptySet DEF Has, Is
<1> QED
  BY <1>1, <1>2

(* The references of a value, of holders, the list and pins.               *)
References(h, L, p, v) ==
    Cardinality(Holders(h, v)) + Has(v, L) + Cardinality(Pinners(p, v))

(* The sum of the model, which counts positions of the list, is the number *)
(* of references: a value is listed once.                                  *)
LEMMA RefsAreExact ==
    ASSUME NEW s, Once(s), NEW h, NEW p, NEW v, NEW k \in Nat, NEW l \in Nat
    PROVE  References(h, ToSet(s), p, v) + (k + l)
             = Cardinality({t \in Threads : v \in h[t]})
                 + Cardinality({i \in DOMAIN s : s[i] = v})
                 + Cardinality({t \in Threads : p[t] = v})
                 + k + l
<1> DEFINE H == Holders(h, v)
           P == Pinners(p, v)
<1>1. Cardinality({i \in DOMAIN s : s[i] = v}) = Has(v, ToSet(s))
  BY PlacesCount
<1>2. H \in SUBSET Threads /\ P \in SUBSET Threads
  BY DEF Holders, Pinners
<1>3. /\ H = {t \in Threads : v \in h[t]} /\ P = {t \in Threads : p[t] = v}
      /\ References(h, ToSet(s), p, v) = Cardinality(H) + Has(v, ToSet(s)) + Cardinality(P)
  BY DEF Holders, Pinners, References
<1> HIDE DEF H, P
<1>4. IsFiniteSet(H) /\ IsFiniteSet(P)
  BY <1>2, FS_Subset, StoreAssumption
<1>5. Cardinality(H) \in Nat /\ Cardinality(P) \in Nat /\ Has(v, ToSet(s)) \in Nat
  BY <1>4, FS_CardinalityType DEF Has
<1>6. References(h, ToSet(s), p, v) + (k + l)
        = Cardinality(H) + Has(v, ToSet(s)) + Cardinality(P) + k + l
  BY <1>3, <1>5
<1> QED
  BY <1>1, <1>3, <1>6

(* Only t takes or drops references.                                       *)
OneMoves(h, p, h2, p2, t) ==
    \A u \in Threads : u # t => h2[u] = h[u] /\ p2[u] = p[u]

(* How one thread that takes or drops references changes their number.     *)
LEMMA ReferencesChange ==
    ASSUME NEW h, NEW h2, NEW p, NEW p2, NEW t \in Threads, OneMoves(h, p, h2, p2, t),
           NEW L, NEW L2, NEW v
    PROVE  /\ References(h2, L2, p2, v) \in Nat
           /\ References(h2, L2, p2, v) = References(h, L, p, v)
                - Has(v, h[t]) + Has(v, h2[t]) - Has(v, L) + Has(v, L2)
                - Is(v, p[t]) + Is(v, p2[t])
<1> DEFINE A == Holders(h, v)
           B == Holders(h2, v)
           C == Pinners(p, v)
           D == Pinners(p2, v)
<1>1. /\ A \in SUBSET Threads /\ B \in SUBSET Threads
      /\ \A u \in Threads : u # t => (u \in A <=> u \in B)
      /\ (t \in A <=> v \in h[t]) /\ (t \in B <=> v \in h2[t])
  BY DEF Holders, OneMoves
<1>2. /\ C \in SUBSET Threads /\ D \in SUBSET Threads
      /\ \A u \in Threads : u # t => (u \in C <=> u \in D)
      /\ (t \in C <=> v = p[t]) /\ (t \in D <=> v = p2[t])
  BY DEF Pinners, OneMoves
<1> HIDE DEF A, B, C, D
<1>3. /\ Cardinality(A) \in Nat /\ Cardinality(B) \in Nat
      /\ Cardinality(B) = Cardinality(A) - Has(t, A) + Has(t, B)
  BY <1>1, CardinalityOfThreads
<1>4. /\ Cardinality(C) \in Nat /\ Cardinality(D) \in Nat
      /\ Cardinality(D) = Cardinality(C) - Has(t, C) + Has(t, D)
  BY <1>2, CardinalityOfThreads
<1>5. /\ Has(t, A) = Has(v, h[t]) /\ Has(t, B) = Has(v, h2[t])
      /\ Has(t, C) = Is(v, p[t]) /\ Has(t, D) = Is(v, p2[t])
  BY <1>1, <1>2 DEF Has, Is
<1>6. \A x, y : Has(x, y) \in Nat /\ Is(x, y) \in Nat
  BY DEF Has, Is
<1>7. /\ References(h, L, p, v) = Cardinality(A) + Has(v, L) + Cardinality(C)
      /\ References(h2, L2, p2, v) = Cardinality(B) + Has(v, L2) + Cardinality(D)
  BY DEF References, A, B, C, D
<1> QED
  BY <1>3, <1>4, <1>5, <1>6, <1>7

(* What has references is held, listed or pinned.                          *)
LEMMA ReferencesPositive ==
    ASSUME NEW h, NEW L, NEW p, NEW v
    PROVE  /\ References(h, L, p, v) \in Nat
           /\ References(h, L, p, v) > 0
                <=> v \in L \/ (\E t \in Threads : v \in h[t]) \/ (\E t \in Threads : p[t] = v)
           /\ v \in L /\ References(h, L, p, v) <= 1 =>
                \A t \in Threads : v \notin h[t] /\ p[t] # v
<1> DEFINE H == Holders(h, v)
           P == Pinners(p, v)
<1>1. H \in SUBSET Threads /\ P \in SUBSET Threads
  BY DEF Holders, Pinners
<1> HIDE DEF H, P
<1>2. IsFiniteSet(H) /\ IsFiniteSet(P)
  BY <1>1, FS_Subset, StoreAssumption
<1>3. /\ Cardinality(H) \in Nat /\ Cardinality(P) \in Nat
      /\ (Cardinality(H) = 0 <=> H = {}) /\ (Cardinality(P) = 0 <=> P = {})
  BY <1>2, FS_CardinalityType, FS_EmptySet
<1>4. Has(v, L) \in Nat /\ (Has(v, L) = 0 <=> v \notin L) /\ (v \in L => Has(v, L) = 1)
  BY DEF Has, Is
<1>5. References(h, L, p, v) = Cardinality(H) + Has(v, L) + Cardinality(P)
  BY DEF References, H, P
<1>6. References(h, L, p, v) \in Nat
  BY <1>3, <1>4, <1>5
<1>7. References(h, L, p, v) > 0 <=> v \in L \/ H # {} \/ P # {}
  BY <1>3, <1>4, <1>5
<1>8. v \in L /\ References(h, L, p, v) <= 1 => H = {} /\ P = {}
  BY <1>3, <1>4, <1>5
<1> QED
  BY <1>6, <1>7, <1>8 DEF H, P, Holders, Pinners
-----------------------------------------------------------------------------
(* Sizes *)

(* Sizes of values are positive, and no size overflows an unsigned int     *)
(* next to the limit of the store.                                         *)
LEMMA WeightType ==
    /\ \A v \in Vals : KeyOf[v] \in Keys /\ WeightOf(v) \in Nat /\ WeightOf(v) > 0
                       /\ MaxSize + WeightOf(v) < Word
                       /\ ValueWeight[v] = WeightOf(v) /\ ValueWeight[v] \in Int
                       /\ Slot[KeyOf[v]] \in Nat
    /\ \A k \in Keys : Weight[k] \in Nat /\ Weight[k] > 0 /\ MaxSize + Weight[k] < Word
    /\ MaxSize \in Nat /\ Word \in Nat \ {0}
  BY StoreAssumption DEF WeightOf, ValueWeight

(* Only t changes what it adds to a sum.                                   *)
OneEnters(A, f, B, g, t) ==
    /\ A \in SUBSET Threads /\ B \in SUBSET Threads
    /\ \A u \in Threads : u # t => (u \in A <=> u \in B)
    /\ \A u \in A : f[u] \in Nat
    /\ \A u \in B : g[u] \in Nat
    /\ \A u \in A : u # t => f[u] = g[u]

(* A sum over threads, when one of them joins, leaves or changes.          *)
LEMMA SumOfThreads ==
    ASSUME NEW A, NEW B, NEW f, NEW g, NEW t \in Threads, OneEnters(A, f, B, g, t)
    PROVE  /\ SumFunctionOnSet(f, A) \in Nat /\ SumFunctionOnSet(g, B) \in Nat
           /\ SumFunctionOnSet(g, B) = SumFunctionOnSet(f, A)
                - (IF t \in A THEN f[t] ELSE 0) + (IF t \in B THEN g[t] ELSE 0)
<1> USE DEF OneEnters
<1>1. IsFiniteSet(A) /\ IsFiniteSet(B) /\ IsFiniteSet(A \ {t}) /\ IsFiniteSet(B \ {t})
  BY FS_Subset, StoreAssumption
<1>2. SumFunctionOnSet(f, A) \in Nat /\ SumFunctionOnSet(g, B) \in Nat
  BY <1>1, SumOfNaturals
<1>3. A \ {t} = B \ {t}
  OBVIOUS
<1>4. SumFunctionOnSet(f, A \ {t}) = SumFunctionOnSet(g, B \ {t})
  <2> DEFINE S == A \ {t}
  <2>1. IsFiniteSet(S) /\ (\A x \in S : f[x] \in Int) /\ \A x \in S : f[x] = g[x]
    BY <1>1
  <2> HIDE DEF S
  <2>2. SumFunctionOnSet(f, S) = SumFunctionOnSet(g, S)
    BY <2>1, SumSame
  <2> QED
    BY <1>3, <2>2 DEF S
<1>5. SumFunctionOnSet(f, A \ {t}) \in Nat
  <2> DEFINE S == A \ {t}
  <2>1. IsFiniteSet(S) /\ \A x \in S : f[x] \in Nat
    BY <1>1
  <2> HIDE DEF S
  <2>2. SumFunctionOnSet(f, S) \in Nat
    BY <2>1, SumOfNaturals
  <2> QED
    BY <2>2 DEF S
<1>6. SumFunctionOnSet(f, A) = (IF t \in A THEN f[t] ELSE 0) + SumFunctionOnSet(f, A \ {t})
  <2>1. CASE t \in A
    <3>1. \A x \in A : f[x] \in Int
      OBVIOUS
    <3> QED
      BY <1>1, <2>1, <3>1, SumRemove
  <2>2. CASE t \notin A
    <3>1. A \ {t} = A
      BY <2>2
    <3> QED
      BY <1>5, <2>2, <3>1
  <2> QED
    BY <2>1, <2>2
<1>7. SumFunctionOnSet(g, B) = (IF t \in B THEN g[t] ELSE 0) + SumFunctionOnSet(g, B \ {t})
  <2>1. CASE t \in B
    <3>1. \A x \in B : g[x] \in Int
      OBVIOUS
    <3> QED
      BY <1>1, <2>1, <3>1, SumRemove
  <2>2. CASE t \notin B
    <3>1. B \ {t} = B
      BY <2>2
    <3> QED
      BY <1>4, <1>5, <2>2, <3>1
  <2> QED
    BY <2>1, <2>2
<1> QED
  <2> DEFINE x == IF t \in A THEN f[t] ELSE 0
             y == IF t \in B THEN g[t] ELSE 0
             w == SumFunctionOnSet(f, A \ {t})
  <2>1. x \in Nat /\ y \in Nat
    OBVIOUS
  <2>2. SumFunctionOnSet(f, A) = x + w /\ SumFunctionOnSet(g, B) = y + w /\ w \in Nat
    BY <1>4, <1>5, <1>6, <1>7
  <2>3. SumFunctionOnSet(g, B) = SumFunctionOnSet(f, A) - x + y
    <3> HIDE DEF x, y, w
    <3> QED
      BY <2>1, <2>2
  <2> QED
    BY <1>2, <2>3

(* The listed values are finitely many and their sizes have a sum.         *)
LEMMA ListedType ==
    ASSUME TypeOK
    PROVE  /\ Listed \in SUBSET Vals /\ IsFiniteSet(Listed)
           /\ DOMAIN lru = 1 .. Len(lru) /\ Len(lru) \in Nat
           /\ \A i \in DOMAIN lru : lru[i] \in Vals /\ lru[i] \in Listed
           /\ SumFunctionOnSet(ValueWeight, Listed) \in Nat
<1>1. DOMAIN lru = 1 .. Len(lru) /\ Len(lru) \in Nat /\ \A i \in DOMAIN lru : lru[i] \in Vals
  BY DEF TypeOK
<1>2. IsFiniteSet(1 .. Len(lru))
  BY <1>1, FS_Interval
<1>3. IsFiniteSet({lru[i] : i \in DOMAIN lru})
  BY <1>1, <1>2, FiniteImage
<1>4. Listed \in SUBSET Vals /\ IsFiniteSet(Listed) /\ \A i \in DOMAIN lru : lru[i] \in Listed
  BY <1>1, <1>3 DEF Listed, ToSet
<1>5. SumFunctionOnSet(ValueWeight, Listed) \in Nat
  BY <1>4, WeightType, SumOfNaturals
<1> QED
  BY <1>1, <1>4, <1>5

(* The size that may be kept in a phase is no more than the maximum.       *)
LEMMA BudgetType ==
    ASSUME NEW p \in Nat
    PROVE  Budget(p) \in 0 .. MaxSize
<1> DEFINE q == MaxSize \div Phases
<1>1. MaxSize \in Nat /\ Phases \in Nat \ {0}
  BY StoreAssumption
<1>2. q \in Nat /\ Phases * q <= MaxSize
  BY <1>1
<1>3. CASE p >= Phases
  BY <1>1, <1>3 DEF Budget
<1>4. CASE ~(p >= Phases)
  <2> DEFINE d == Phases - p
  <2>1. d \in Nat /\ p \in Nat /\ Phases = d + p
    BY <1>1, <1>4
  <2>2. Budget(p) = q * d
    BY <1>4 DEF Budget
  <2> HIDE DEF q, d
  <2>3. q * d \in Nat /\ q * p \in Nat /\ Phases * q = q * d + q * p
    BY <1>2, <2>1
  <2> QED
    BY <1>1, <1>2, <2>2, <2>3
<1> QED
  BY <1>3, <1>4

-----------------------------------------------------------------------------
(* Room in the table *)

(* A table with room has a slot beyond its load limit; doubling it gives   *)
(* room for one more pending insertion.                                    *)
LEMMA RoomProperties ==
    ASSUME NEW n \in Nat \ {0}, NEW j \in Nat, Room(n, j)
    PROVE  /\ Limit(n) \in Nat /\ Limit(n) + 1 + j < n
           /\ Room(2 * n, j + 1) /\ Limit(2 * n) \in Nat /\ Limit(2 * n) >= Limit(n)
<1> DEFINE a == n * LoadTenths
<1>1. a \in Nat /\ (2 * n) * LoadTenths = 2 * a
  BY StoreAssumption
<1>2. 10 * n - a > 10 * (j + 1)
  BY DEF Room
<1>3. Limit(n) = a \div 10 /\ Limit(2 * n) = (2 * a) \div 10
  BY <1>1 DEF Limit
<1>4. Room(2 * n, j + 1) <=> 10 * (2 * n) - 2 * a > 10 * (j + 2)
  BY <1>1 DEF Room
<1> HIDE DEF a
<1> QED
  BY <1>1, <1>2, <1>3, <1>4

(* The table of the new store has room.                                    *)
LEMMA RoomAtFirst == Room(TableSize, 0)
<1> DEFINE a == TableSize * LoadTenths
<1>1. a \in Nat /\ TableSize \in Nat
  BY StoreAssumption
<1>2. a \div 10 + 1 < TableSize
  BY TableAssumption
<1>3. Room(TableSize, 0) <=> 10 * TableSize - a > 10
  BY DEF Room
<1> HIDE DEF a
<1> QED
  BY <1>1, <1>2, <1>3

(* The load of the table is below its size, and the threads about to       *)
(* insert are finitely many.                                               *)
LEMMA TableProperties ==
    ASSUME TableListed, TableHasRoom
    PROVE  /\ SizeOf(table) \in Nat \ {0} /\ Load(table) \in Nat
           /\ Load(table) < SizeOf(table)
           /\ DOMAIN table = 0 .. SizeOf(table) - 1
           /\ \A i \in DOMAIN table : table[i] \in Vals \cup {NoVal}
           /\ Pending \in SUBSET Threads /\ IsFiniteSet(Pending) /\ Cardinality(Pending) \in Nat
<1>1. Table(table, SizeOf(table), Vals)
  BY DEF TableListed, WellFormed
<1>2. /\ SizeOf(table) \in Nat \ {0} /\ Load(table) \in Nat
      /\ DOMAIN table = 0 .. SizeOf(table) - 1
      /\ \A i \in DOMAIN table : table[i] \in Vals \cup {NoVal}
  BY <1>1, LoadType DEF Table
<1>3. Pending \in SUBSET Threads /\ IsFiniteSet(Pending) /\ Cardinality(Pending) \in Nat
  <2>1. Pending \in SUBSET Threads
    BY DEF Pending
  <2> QED
    BY <2>1, FS_Subset, FS_CardinalityType, StoreAssumption
<1>4. PICK j \in Nat : /\ Room(SizeOf(table), j)
                       /\ Load(table) + Cardinality(Pending) <= Limit(SizeOf(table)) + 1 + j
  BY DEF TableHasRoom
<1>5. Limit(SizeOf(table)) \in Nat /\ Limit(SizeOf(table)) + 1 + j < SizeOf(table)
  BY <1>2, <1>4, RoomProperties
<1> QED
  BY <1>2, <1>3, <1>4, <1>5

(* The room stays when nothing is added.                                   *)
LEMMA RoomKept ==
    ASSUME TableListed, TableHasRoom, SizeOf(table') = SizeOf(table),
           Load(table') \in Nat, Load(table') <= Load(table), Pending' \subseteq Pending,
           \A t \in Threads : then'[t] = "resize" =>
              grown'[t] = 2 * SizeOf(table) \/ grown'[t] <= SizeOf(table)
    PROVE  TableHasRoom'
<1>1. /\ SizeOf(table) \in Nat \ {0} /\ Load(table) \in Nat
      /\ Pending \in SUBSET Threads /\ IsFiniteSet(Pending) /\ Cardinality(Pending) \in Nat
  BY TableProperties
<1>2. PICK j \in Nat : /\ Room(SizeOf(table), j)
                       /\ Cardinality(Pending) <= j
                       /\ Load(table) + Cardinality(Pending) <= Limit(SizeOf(table)) + 1 + j
  BY DEF TableHasRoom
<1>3. Limit(SizeOf(table)) \in Nat
  BY <1>1, <1>2, RoomProperties
<1>4. IsFiniteSet(Pending') /\ Cardinality(Pending') \in Nat
      /\ Cardinality(Pending') <= Cardinality(Pending)
  BY <1>1, FS_Subset, FS_CardinalityType
<1>5. /\ Cardinality(Pending') <= j
      /\ Load(table') + Cardinality(Pending') <= Limit(SizeOf(table)) + 1 + j
  BY <1>1, <1>2, <1>3, <1>4
<1> QED
  BY <1>2, <1>5 DEF TableHasRoom
-----------------------------------------------------------------------------
(* What the steps do to list, table and size *)

(* The place of a listed value is where the list has it.                   *)
LEMMA PlaceProperties ==
    ASSUME ListedOnce, NEW v \in Listed
    PROVE  Place(v) \in DOMAIN lru /\ lru[Place(v)] = v
  BY DEF Listed, ToSet, Place

(* evict takes one value out of list and table.                            *)
LEMMA EvictEffect ==
    ASSUME TypeOK, ListedOnce, TableListed, TableHasRoom, SizesCovered,
           SumFunctionOnSet(EnteringWeight, Counted) \in Nat,
           NEW t \in Threads, NEW v \in Listed, Evict(t, v)
    PROVE  /\ lru' \in Seq(Vals) /\ ListedOnce' /\ Listed' = Listed \ {v}
           /\ TableListed' /\ SizeOf(table') = SizeOf(table)
           /\ Load(table') \in Nat /\ Load(table') <= Load(table)
           /\ size' = size - WeightOf(v) /\ size' \in Nat
           /\ SumFunctionOnSet(ValueWeight, Listed')
                = SumFunctionOnSet(ValueWeight, Listed) - WeightOf(v)
<1> DEFINE i == Place(v)
           N == SizeOf(table)
<1>1. i \in DOMAIN lru /\ lru[i] = v /\ lru \in Seq(Vals) /\ v \in Vals
  BY PlaceProperties, ListedType DEF TypeOK
<1>2. lru' = RemoveAt(lru, i)
  BY DEF Evict
<1> HIDE DEF i
<1>3. lru' \in Seq(Vals) /\ ToSet(lru') = ToSet(lru) \ {v} /\ Once(lru')
  BY <1>1, <1>2, RemoveAtProperties DEF ListedOnce
<1>4. ListedOnce' /\ Listed' = Listed \ {v}
  BY <1>3 DEF ListedOnce, Listed
<1>5. /\ WellFormed(table, N, Vals) /\ Contents(table) = HashedOf(Listed)
      /\ N \in Nat \ {0} /\ Load(table) < N
  BY TableProperties DEF TableListed
<1>6. /\ WellFormed(table', N, Vals)
      /\ Contents(table') = {u \in Contents(table) : u # v}
  <2>1. CASE KeyOf[v] \in Hashed
    <3>1. table' = HashRemove(table, KeyOf[v]) /\ Slot[KeyOf[v]] \in Nat
      BY <1>1, <2>1, WeightType DEF Evict
    <3> HIDE DEF N
    <3>2. /\ WellFormed(HashRemove(table, KeyOf[v]), N, Vals)
          /\ Contents(HashRemove(table, KeyOf[v])) = {u \in Contents(table) : KeyOf[u] # KeyOf[v]}
      BY <1>5, <3>1, RemoveProperties
    <3>3. v \in Contents(table)
      BY <1>5, <2>1 DEF HashedOf
    <3>4. \A u \in Contents(table) : KeyOf[u] = KeyOf[v] => u = v
      BY <1>5, <3>3, LoadCounts
    <3> QED
      BY <3>1, <3>2, <3>4
  <2>2. CASE KeyOf[v] \notin Hashed
    <3>1. table' = table
      BY <2>2 DEF Evict
    <3>2. v \notin Contents(table)
      BY <1>5, <2>2 DEF HashedOf
    <3> QED
      BY <1>5, <3>1, <3>2
  <2> QED
    BY <2>1, <2>2
<1>7. SizeOf(table') = N
  BY <1>6, SizeOfTable DEF WellFormed
<1>8. TableListed'
  <2>1. Contents(table') = HashedOf(Listed')
    BY <1>4, <1>5, <1>6 DEF HashedOf
  <2> QED
    BY <1>6, <1>7, <2>1 DEF TableListed
<1>9. Load(table') \in Nat /\ Load(table') <= Load(table)
  <2>1. /\ Load(table') = Cardinality(Contents(table')) /\ IsFiniteSet(Contents(table'))
        /\ Load(table) = Cardinality(Contents(table)) /\ IsFiniteSet(Contents(table))
    BY <1>5, <1>6, LoadCounts
  <2>2. Contents(table') \in SUBSET Contents(table)
    BY <1>6
  <2> QED
    BY <2>1, <2>2, FS_Subset, FS_CardinalityType
<1>10. SumFunctionOnSet(ValueWeight, Listed')
         = SumFunctionOnSet(ValueWeight, Listed) - WeightOf(v)
  <2>1. /\ IsFiniteSet(Listed) /\ (\A x \in Listed : ValueWeight[x] \in Int)
        /\ ValueWeight[v] = WeightOf(v) /\ WeightOf(v) \in Nat
    BY <1>1, ListedType, WeightType
  <2>2. /\ SumFunctionOnSet(ValueWeight, Listed) \in Int
        /\ SumFunctionOnSet(ValueWeight, Listed \ {v}) \in Int
        /\ SumFunctionOnSet(ValueWeight, Listed)
             = ValueWeight[v] + SumFunctionOnSet(ValueWeight, Listed \ {v})
    BY <2>1, SumRemove
  <2> DEFINE x == SumFunctionOnSet(ValueWeight, Listed)
             y == SumFunctionOnSet(ValueWeight, Listed \ {v})
  <2>3. x \in Int /\ y \in Int /\ x = WeightOf(v) + y /\ WeightOf(v) \in Nat
    BY <2>1, <2>2
  <2> HIDE DEF x, y
  <2>4. y = x - WeightOf(v)
    BY <2>3
  <2> QED
    BY <1>4, <2>4 DEF x, y
<1>11. size' = size - WeightOf(v)
  BY DEF Evict
<1>12. size' \in Nat
  <2> DEFINE x == SumFunctionOnSet(ValueWeight, Listed)
             y == SumFunctionOnSet(ValueWeight, Listed \ {v})
             e == SumFunctionOnSet(EnteringWeight, Counted)
  <2>1. x \in Nat /\ e \in Nat /\ x + e <= size /\ size \in Nat
    BY ListedType DEF SizesCovered, TypeOK
  <2>2. y \in Nat
    <3>1. IsFiniteSet(Listed \ {v}) /\ \A u \in Listed \ {v} : ValueWeight[u] \in Nat
      BY ListedType, WeightType, FS_Subset
    <3> QED
      BY <3>1, SumOfNaturals
  <2>3. y = x - WeightOf(v) /\ WeightOf(v) \in Nat
    BY <1>1, <1>4, <1>10, WeightType
  <2> HIDE DEF x, y, e
  <2> QED
    BY <1>11, <2>1, <2>2, <2>3
<1> QED
  BY <1>3, <1>4, <1>7, <1>8, <1>9, <1>10, <1>11, <1>12

(* fz_store_item enters a value whose key is not in the table.             *)
LEMMA EnterEffect ==
    ASSUME TypeOK, ListedOnce, TableListed, TableHasRoom,
           NEW v \in Vals, v \notin Listed,
           KeyOf[v] \in Hashed => HashFind(table, KeyOf[v]) = NoVal,
           table' = (IF KeyOf[v] \in Hashed THEN HashInsert(table, v) ELSE table),
           lru' = <<v>> \o lru
    PROVE  /\ lru' \in Seq(Vals) /\ ListedOnce' /\ Listed' = Listed \cup {v}
           /\ TableListed' /\ SizeOf(table') = SizeOf(table)
           /\ Load(table') \in Nat /\ Load(table') <= Load(table) + 1
           /\ SumFunctionOnSet(ValueWeight, Listed')
                = SumFunctionOnSet(ValueWeight, Listed) + WeightOf(v)
<1> DEFINE N == SizeOf(table)
<1>1. lru' \in Seq(Vals) /\ ToSet(lru') = ToSet(lru) \cup {v} /\ Once(lru')
  BY ConsProperties DEF ListedOnce, TypeOK, Listed
<1>2. ListedOnce' /\ Listed' = Listed \cup {v}
  BY <1>1 DEF ListedOnce, Listed
<1>3. /\ WellFormed(table, N, Vals) /\ Contents(table) = HashedOf(Listed)
      /\ N \in Nat \ {0} /\ Load(table) < N /\ Load(table) \in Nat
  BY TableProperties DEF TableListed
<1>4. /\ WellFormed(table', N, Vals)
      /\ Contents(table') = HashedOf(Listed \cup {v})
      /\ Load(table') \in Nat /\ Load(table') <= Load(table) + 1
  <2>1. CASE KeyOf[v] \in Hashed
    <3>1. HashFind(table, KeyOf[v]) = NoVal /\ Slot[KeyOf[v]] \in Nat
      BY <2>1, WeightType
    <3> HIDE DEF N
    <3>2. {HashFind(table, KeyOf[v])} \ {NoVal} = {u \in Contents(table) : KeyOf[u] = KeyOf[v]}
      BY <1>3, <3>1, FindProperties
    <3>3. \A u \in Contents(table) : KeyOf[u] # KeyOf[v]
      BY <3>1, <3>2
    <3>4. /\ WellFormed(HashInsert(table, v), N, Vals)
          /\ Contents(HashInsert(table, v)) = Contents(table) \cup {v}
          /\ Load(HashInsert(table, v)) = Load(table) + 1
      BY <1>3, <3>3, InsertProperties
    <3>5. HashedOf(Listed \cup {v}) = HashedOf(Listed) \cup {v}
      BY <2>1 DEF HashedOf
    <3>6. table' = HashInsert(table, v)
      BY <2>1
    <3>7. /\ WellFormed(table', N, Vals)
          /\ Contents(table') = HashedOf(Listed \cup {v})
          /\ Load(table') = Load(table) + 1
      BY <1>3, <3>4, <3>5, <3>6
    <3> QED
      BY <1>3, <3>7
  <2>2. CASE KeyOf[v] \notin Hashed
    <3>1. HashedOf(Listed \cup {v}) = HashedOf(Listed)
      BY <2>2 DEF HashedOf
    <3> QED
      BY <1>3, <2>2, <3>1
  <2> QED
    BY <2>1, <2>2
<1>5. SizeOf(table') = N
  BY <1>4, SizeOfTable DEF WellFormed
<1>6. TableListed'
  BY <1>2, <1>4, <1>5 DEF TableListed, HashedOf
<1>7. SumFunctionOnSet(ValueWeight, Listed')
        = SumFunctionOnSet(ValueWeight, Listed) + WeightOf(v)
  <2>1. /\ IsFiniteSet(Listed) /\ (\A x \in Listed : ValueWeight[x] \in Int)
        /\ ValueWeight[v] = WeightOf(v) /\ ValueWeight[v] \in Int
    BY ListedType, WeightType
  <2>2. SumFunctionOnSet(ValueWeight, Listed \cup {v})
          = SumFunctionOnSet(ValueWeight, Listed) + ValueWeight[v]
    BY <2>1, SumAdd
  <2> QED
    BY <1>2, <2>1, <2>2
<1> QED
  BY <1>1, <1>2, <1>4, <1>5, <1>6, <1>7

(* fz_find_item moves what it finds to the front.                          *)
LEMMA FrontEffect ==
    ASSUME TypeOK, ListedOnce, NEW v \in Listed,
           lru' = <<v>> \o RemoveAt(lru, Place(v))
    PROVE  lru' \in Seq(Vals) /\ ListedOnce' /\ Listed' = Listed
<1> DEFINE i == Place(v)
           r == RemoveAt(lru, i)
<1>1. i \in DOMAIN lru /\ lru[i] = v /\ lru \in Seq(Vals) /\ v \in Vals
  BY PlaceProperties, ListedType DEF TypeOK
<1>2. lru' = <<v>> \o r
  OBVIOUS
<1> HIDE DEF i
<1>3. r \in Seq(Vals) /\ ToSet(r) = ToSet(lru) \ {v} /\ Once(r)
  BY <1>1, RemoveAtProperties DEF ListedOnce
<1> HIDE DEF r
<1>4. v \notin ToSet(r) /\ v \in ToSet(lru)
  BY <1>3 DEF Listed
<1>5. lru' \in Seq(Vals) /\ ToSet(lru') = ToSet(r) \cup {v} /\ Once(lru')
  <2> DEFINE s == <<v>> \o r
  <2>1. s \in Seq(Vals) /\ ToSet(s) = ToSet(r) \cup {v} /\ Once(s)
    BY <1>1, <1>3, <1>4, ConsProperties
  <2>2. lru' = s
    BY <1>2
  <2> HIDE DEF s
  <2> QED
    BY <2>1, <2>2
<1>6. ToSet(lru') = ToSet(lru)
  <2> DEFINE A == ToSet(lru')
             B == ToSet(lru)
             C == ToSet(r)
  <2>1. A = C \cup {v} /\ C = B \ {v} /\ v \in B
    BY <1>3, <1>4, <1>5
  <2> HIDE DEF A, B, C
  <2>2. A = B
    BY <2>1
  <2> QED
    BY <2>2 DEF A, B
<1> QED
  BY <1>5, <1>6 DEF ListedOnce, Listed

(* fz_hash_find for a hashed key.                                          *)
LEMMA FindEffect ==
    ASSUME TypeOK, TableListed, TableHasRoom, NEW k \in Keys, k \in Hashed
    PROVE  /\ {HashFind(table, k)} \ {NoVal} = {v \in Listed : KeyOf[v] = k}
           /\ HashFind(table, k) # NoVal =>
                 HashFind(table, k) \in Listed /\ KeyOf[HashFind(table, k)] = k
<1> DEFINE N == SizeOf(table)
<1>1. /\ WellFormed(table, N, Vals) /\ Contents(table) = HashedOf(Listed) /\ Load(table) < N
      /\ Slot[k] \in Nat
  BY TableProperties, StoreAssumption DEF TableListed
<1> HIDE DEF N
<1>2. {HashFind(table, k)} \ {NoVal} = {v \in Contents(table) : KeyOf[v] = k}
  BY <1>1, FindProperties
<1>3. {v \in Contents(table) : KeyOf[v] = k} = {v \in Listed : KeyOf[v] = k}
  BY <1>1 DEF HashedOf
<1> HIDE DEF HashFind
<1> QED
  BY <1>2, <1>3
-----------------------------------------------------------------------------
(* What a step keeps *)

(* The references to a value that neither a thread nor an item has: those  *)
(* of the keys of its tiles, and those that are lost.                      *)
Lost(v) == IF IsTile(v) THEN 0 ELSE leaked[v]
Extra(v) == Cardinality(KeysOf(v)) + Lost(v)

(* There is a number of them.                                              *)
LEMMA ExtraType ==
    leaked \in [Vals -> Nat] =>
      \A v \in Vals : Cardinality(KeysOf(v)) \in Nat /\ Lost(v) \in Nat /\ Extra(v) \in Nat
<1> SUFFICES ASSUME leaked \in [Vals -> Nat], NEW v \in Vals
             PROVE  Cardinality(KeysOf(v)) \in Nat /\ Lost(v) \in Nat /\ Extra(v) \in Nat
  OBVIOUS
<1>1. IsFiniteSet(KeysOf(v))
  <2>1. KeysOf(v) \in SUBSET Vals
    BY DEF KeysOf
  <2> QED
    BY <2>1, FS_Subset, StoreAssumption
<1>2. Cardinality(KeysOf(v)) \in Nat
  BY <1>1, FS_CardinalityType
<1>3. Lost(v) \in Nat
  BY DEF Lost
<1> QED
  BY <1>2, <1>3 DEF Extra

(* All references of a value.                                              *)
LEMMA RefsCount ==
    ListedOnce /\ leaked \in [Vals -> Nat] =>
      (RefsExact <=> \A v \in Vals : refs[v] = References(kept, Listed, prev, v) + Extra(v))
<1> SUFFICES ASSUME ListedOnce, leaked \in [Vals -> Nat]
             PROVE  RefsExact <=>
                      \A v \in Vals : refs[v] = References(kept, Listed, prev, v) + Extra(v)
  OBVIOUS
<1>1. ASSUME NEW v \in Vals
      PROVE  References(kept, Listed, prev, v) + (Cardinality(KeysOf(v)) + Lost(v))
               = Cardinality({u \in Threads : v \in kept[u]})
                   + Cardinality({i \in DOMAIN lru : lru[i] = v})
                   + Cardinality({u \in Threads : prev[u] = v})
                   + Cardinality(KeysOf(v)) + Lost(v)
  <2> DEFINE k == Cardinality(KeysOf(v))
             l == Lost(v)
  <2>1. k \in Nat /\ l \in Nat
    BY ExtraType
  <2>2. Once(lru) /\ Listed = ToSet(lru)
    BY DEF ListedOnce, Listed
  <2> HIDE DEF k, l
  <2>3. References(kept, ToSet(lru), prev, v) + (k + l)
               = Cardinality({u \in Threads : v \in kept[u]})
                   + Cardinality({i \in DOMAIN lru : lru[i] = v})
                   + Cardinality({u \in Threads : prev[u] = v})
                   + k + l
    BY <2>1, <2>2, RefsAreExact, SMTT(30)
  <2> QED
    BY <2>2, <2>3 DEF k, l
<1> QED
  BY <1>1 DEF RefsExact, Extra, Lost

(* The same after a step.                                                  *)
LEMMA RefsCountNext ==
    ASSUME ListedOnce', leaked' \in [Vals -> Nat]
    PROVE  /\ RefsExact' <=> \A v \in Vals :
                               refs'[v] = References(kept', Listed', prev', v) + Extra(v)'
           /\ \A v \in Vals : Extra(v)' \in Nat
<1>1. /\ (ListedOnce /\ leaked \in [Vals -> Nat] =>
            (RefsExact <=> \A v \in Vals : refs[v] = References(kept, Listed, prev, v) + Extra(v)))'
      /\ (leaked \in [Vals -> Nat] =>
            \A v \in Vals : Cardinality(KeysOf(v)) \in Nat /\ Lost(v) \in Nat /\ Extra(v) \in Nat)'
  BY RefsCount, ExtraType, PTL
<1> QED
  BY <1>1

(* A step of one thread keeps the references exact when it counts what it  *)
(* takes and what it drops.                                                *)
LEMMA RefsStep ==
    ASSUME TypeOK, RefsExact, ListedOnce, ListedOnce', leaked' \in [Vals -> Nat],
           NEW t \in Threads, OneMoves(kept, prev, kept', prev', t),
           refs' = [v \in Vals |-> refs'[v]],
           \A v \in Vals :
              refs'[v] = refs[v] - Has(v, kept[t]) + Has(v, kept'[t])
                           - Has(v, Listed) + Has(v, Listed')
                           - Is(v, prev[t]) + Is(v, prev'[t])
                           - Extra(v) + Extra(v)'
    PROVE  RefsExact' /\ refs' \in [Vals -> Nat]
<1>1. ASSUME NEW v \in Vals
      PROVE  /\ refs'[v] = References(kept', Listed', prev', v) + Extra(v)'
             /\ refs'[v] \in Nat
  <2> DEFINE e == Extra(v)
             e2 == Extra(v)'
  <2>1. /\ References(kept', Listed', prev', v) \in Nat
        /\ References(kept', Listed', prev', v) = References(kept, Listed, prev, v)
             - Has(v, kept[t]) + Has(v, kept'[t]) - Has(v, Listed) + Has(v, Listed')
             - Is(v, prev[t]) + Is(v, prev'[t])
    BY ReferencesChange
  <2>2. refs[v] = References(kept, Listed, prev, v) + e
    BY RefsCount DEF TypeOK
  <2>3. e \in Nat /\ e2 \in Nat
    BY ExtraType, RefsCountNext DEF TypeOK
  <2>4. References(kept, Listed, prev, v) \in Nat
    BY ReferencesPositive
  <2>5. \A x, y : Has(x, y) \in Nat /\ Is(x, y) \in Nat
    BY DEF Has, Is
  <2>6. refs'[v] = refs[v] - Has(v, kept[t]) + Has(v, kept'[t])
                           - Has(v, Listed) + Has(v, Listed')
                           - Is(v, prev[t]) + Is(v, prev'[t]) - e + e2
    OBVIOUS
  <2> HIDE DEF e, e2
  <2>7. refs'[v] = References(kept', Listed', prev', v) + e2 /\ refs'[v] \in Nat
    BY <2>1, <2>2, <2>3, <2>4, <2>5, <2>6
  <2> QED
    BY <2>7 DEF e2
<1>2. RefsExact'
  BY <1>1, RefsCountNext
<1> QED
  BY <1>1, <1>2

(* What the references say about one value.                                *)
LEMMA RefsMean ==
    ASSUME TypeOK, RefsExact, ListedOnce, NEW v \in Vals
    PROVE  /\ v \in Listed \/ (\E t \in Threads : v \in kept[t]) \/ (\E t \in Threads : prev[t] = v)
                => refs[v] > 0
           /\ v \in Listed /\ refs[v] <= 1 => \A t \in Threads : v \notin kept[t] /\ prev[t] # v
<1> DEFINE n == References(kept, Listed, prev, v)
<1>1. refs[v] = n + Extra(v) /\ Extra(v) \in Nat
  BY RefsCount, ExtraType DEF TypeOK
<1>2. /\ n \in Nat
      /\ n > 0 <=> v \in Listed \/ (\E t \in Threads : v \in kept[t])
                                \/ (\E t \in Threads : prev[t] = v)
      /\ v \in Listed /\ n <= 1 => \A t \in Threads : v \notin kept[t] /\ prev[t] # v
  BY ReferencesPositive
<1> HIDE DEF n
<1>3. n <= refs[v]
  BY <1>1, <1>2
<1>4. refs[v] \in Nat
  BY DEF TypeOK
<1> QED
  BY <1>2, <1>3, <1>4

(* An image that a key refers to has references.                           *)
LEMMA KeysKeep ==
    ASSUME TypeOK, RefsExact, ListedOnce, NEW v \in Vals, NEW u \in KeysOf(v)
    PROVE  refs[v] > 0
<1> DEFINE n == References(kept, Listed, prev, v)
           c == Cardinality(KeysOf(v))
<1>1. refs[v] = n + Extra(v) /\ c \in Nat /\ Lost(v) \in Nat /\ Extra(v) = c + Lost(v)
  BY RefsCount, ExtraType DEF TypeOK, Extra
<1>2. n \in Nat
  BY ReferencesPositive
<1>3. c # 0
  <2>1. KeysOf(v) \in SUBSET Vals
    BY DEF KeysOf
  <2>2. IsFiniteSet(KeysOf(v))
    BY <2>1, FS_Subset, StoreAssumption
  <2> QED
    BY <2>2, FS_EmptySet
<1> HIDE DEF n, c
<1> QED
  BY <1>1, <1>2, <1>3

(* A step after which no thread loads or stores anything new, and nothing  *)
(* is listed anew, keeps what the threads load their own.                  *)
LEMMA LoadsKept ==
    ASSUME Loads, Listed' \subseteq Listed, Storing' \subseteq Storing,
           \A u \in Threads : then'[u] \in Loading =>
              then'[u] = then[u] /\ wanted'[u] = wanted[u] /\ kept'[u] = kept[u]
    PROVE  Loads'
<1> SUFFICES ASSUME NEW t \in Threads
             PROVE /\ then'[t] = "create" =>
                        /\ wanted'[t] \in Keys /\ \A v \in kept'[t] : KeyOf[v] # wanted'[t]
                        /\ wanted'[t] \in Tiles => ImageOf[wanted'[t]] \in kept'[t]
                   /\ then'[t] = "key" => IsTile(wanted'[t]) /\ Image(wanted'[t]) \in kept'[t]
                   /\ then'[t] \in {"key", "store", "resize"} => wanted'[t] \in kept'[t]
                   /\ t \in Storing' =>
                        /\ wanted'[t] \notin Listed'
                        /\ \A v \in kept'[t] : KeyOf[v] = KeyOf[wanted'[t]] => v = wanted'[t]
                        /\ \A u \in Storing' : wanted'[u] = wanted'[t] => u = t
  BY DEF Loads
<1>1. \A u \in Storing' : u \in Threads /\ u \in Storing /\ then'[u] \in Loading
  BY DEF Storing, Loading
<1>2. t \in Storing' =>
         /\ wanted'[t] \notin Listed'
         /\ \A v \in kept'[t] : KeyOf[v] = KeyOf[wanted'[t]] => v = wanted'[t]
         /\ \A u \in Storing' : wanted'[u] = wanted'[t] => u = t
  BY <1>1 DEF Loads
<1> QED
  BY <1>2 DEF Loads, Loading

(* What the threads enter, as one thread goes on.                          *)
LEMMA EnteringStep ==
    ASSUME TypeOK, Loads, NEW t \in Threads,
           \A u \in Threads : u # t => then'[u] = then[u] /\ wanted'[u] = wanted[u],
           then'[t] = "resize" => wanted'[t] \in Vals
    PROVE  /\ SumFunctionOnSet(EnteringWeight, Counted) \in Nat
           /\ SumFunctionOnSet(EnteringWeight', Counted') \in Nat
           /\ SumFunctionOnSet(EnteringWeight', Counted')
                = SumFunctionOnSet(EnteringWeight, Counted)
                    - (IF then[t] = "resize" THEN WeightOf(wanted[t]) ELSE 0)
                    + (IF then'[t] = "resize" THEN WeightOf(wanted'[t]) ELSE 0)
<1> DEFINE f == EnteringWeight
           g == EnteringWeight'
           A == Counted
           B == Counted'
<1>1. /\ A \in SUBSET Threads /\ B \in SUBSET Threads
      /\ \A u \in Threads : u # t => (u \in A <=> u \in B)
      /\ (t \in A <=> then[t] = "resize") /\ (t \in B <=> then'[t] = "resize")
  BY DEF Counted
<1>2. \A u \in Threads : f[u] = WeightOf(wanted[u]) /\ g[u] = WeightOf(wanted'[u])
  BY DEF EnteringWeight, WeightOf
<1>3. \A u \in A : wanted[u] \in Vals
  BY DEF Counted, Loads, TypeOK
<1>4. \A u \in B : wanted'[u] \in Vals
  BY <1>1, <1>3
<1>5. (\A u \in A : f[u] \in Nat) /\ (\A u \in B : g[u] \in Nat)
  <2> HIDE DEF f, g, A, B
  <2> QED
    BY <1>1, <1>2, <1>3, <1>4, WeightType
<1>6. \A u \in A : u # t => f[u] = g[u]
  BY <1>1, <1>2
<1> HIDE DEF f, g, A, B
<1>7. /\ SumFunctionOnSet(f, A) \in Nat /\ SumFunctionOnSet(g, B) \in Nat
      /\ SumFunctionOnSet(g, B) = SumFunctionOnSet(f, A)
           - (IF t \in A THEN f[t] ELSE 0) + (IF t \in B THEN g[t] ELSE 0)
  <2>1. /\ A \in SUBSET Threads /\ B \in SUBSET Threads
        /\ (\A u \in Threads : u # t => (u \in A <=> u \in B))
        /\ (\A u \in A : f[u] \in Nat) /\ (\A u \in B : g[u] \in Nat)
        /\ (\A u \in A : u # t => f[u] = g[u])
    BY <1>1, <1>5, <1>6
  <2>2. OneEnters(A, f, B, g, t)
    BY <2>1 DEF OneEnters
  <2> QED
    BY <2>2, SumOfThreads
<1>8. /\ (IF t \in A THEN f[t] ELSE 0) = (IF then[t] = "resize" THEN WeightOf(wanted[t]) ELSE 0)
      /\ (IF t \in B THEN g[t] ELSE 0) = (IF then'[t] = "resize" THEN WeightOf(wanted'[t]) ELSE 0)
  BY <1>1, <1>2
<1> QED
  BY <1>7, <1>8 DEF f, g, A, B

(* The sizes of the values about to enter the list have a sum.             *)
LEMMA EnteringType ==
    ASSUME TypeOK, Loads
    PROVE  SumFunctionOnSet(EnteringWeight, Counted) \in Nat
<1>1. IsFiniteSet(Counted)
  <2>1. Counted \in SUBSET Threads
    BY DEF Counted
  <2> QED
    BY <2>1, FS_Subset, StoreAssumption
<1>2. \A u \in Counted : EnteringWeight[u] \in Nat
  <2>1. \A u \in Counted : u \in Threads /\ wanted[u] \in Vals
    BY DEF Counted, Loads, TypeOK
  <2> QED
    BY <2>1, WeightType DEF EnteringWeight
<1> QED
  BY <1>1, <1>2, SumOfNaturals

(* A step that leaves list, table, references and pins alone, and makes no *)
(* thread enter a value.                                                   *)
LEMMA QuietStep ==
    ASSUME StoreInv, UNCHANGED <<storeVars, refs, keyVars, kept, prev>>,
           TypeOK', Control', Loads', Pending' \subseteq Pending, NEW t \in Threads,
           \A u \in Threads : u # t => then'[u] = then[u] /\ wanted'[u] = wanted[u],
           \A u \in Threads : then'[u] = "resize" =>
              then[u] = "resize" /\ wanted'[u] = wanted[u] /\ grown'[u] = grown[u]
    PROVE  StoreInv'
<1>1. RefsExact' /\ ListedOnce' /\ PinnedIsListed' /\ Listed' = Listed
  BY DEF StoreInv, RefsExact, KeysOf, ListedOnce, PinnedIsListed, Listed, storeVars, keyVars
<1>2. TableListed' /\ table' = table
  BY <1>1 DEF StoreInv, TableListed, storeVars
<1>3. TableHasRoom'
  <2>1. SizeOf(table') = SizeOf(table) /\ Load(table') = Load(table) /\ Load(table) \in Nat
    BY <1>2, TableProperties DEF StoreInv
  <2>2. \A u \in Threads : then'[u] = "resize" =>
           grown'[u] = 2 * SizeOf(table) \/ grown'[u] <= SizeOf(table)
    BY DEF StoreInv, TableHasRoom
  <2>3. Load(table') \in Nat /\ Load(table') <= Load(table)
    BY <2>1
  <2> QED
    BY <2>1, <2>2, <2>3, RoomKept DEF StoreInv
<1>4. SizesCovered'
  <2> DEFINE e == SumFunctionOnSet(EnteringWeight, Counted)
             e2 == SumFunctionOnSet(EnteringWeight', Counted')
             x == SumFunctionOnSet(ValueWeight, Listed)
  <2>1. \A u \in Threads : then[u] = "resize" => wanted[u] \in Vals
    BY DEF StoreInv, Loads, TypeOK
  <2>2. then'[t] = "resize" => wanted'[t] \in Vals
    BY <2>1
  <2>3. /\ e \in Nat /\ e2 \in Nat
        /\ e2 = e - (IF then[t] = "resize" THEN WeightOf(wanted[t]) ELSE 0)
                  + (IF then'[t] = "resize" THEN WeightOf(wanted'[t]) ELSE 0)
    BY <2>2, EnteringStep DEF StoreInv
  <2>4. then'[t] = "resize" => then[t] = "resize" /\ WeightOf(wanted'[t]) = WeightOf(wanted[t])
    OBVIOUS
  <2>5. then[t] = "resize" => WeightOf(wanted[t]) \in Nat
    BY <2>1, WeightType
  <2>6. e2 <= e
    <3> HIDE DEF e, e2
    <3> QED
      BY <2>3, <2>4, <2>5
  <2>7. x \in Nat /\ x + e <= size /\ size \in Nat /\ size <= MaxSize
    BY ListedType DEF StoreInv, SizesCovered, TypeOK
  <2> HIDE DEF e, e2, x
  <2>8. x + e2 <= size'
    BY <2>3, <2>6, <2>7 DEF storeVars
  <2>9. x = SumFunctionOnSet(ValueWeight, Listed')
    BY <1>1 DEF x
  <2>10. e2 = SumFunctionOnSet(EnteringWeight', Counted')
    BY DEF e2
  <2>11. ValueWeight' = ValueWeight
    BY DEF ValueWeight, WeightOf
  <2> QED
    BY <2>7, <2>8, <2>9, <2>10, <2>11 DEF SizesCovered, storeVars
<1> QED
  BY <1>1, <1>2, <1>3, <1>4 DEF StoreInv

(* What thread t drops next, after a step, is the key of a tile.           *)
Drops(t) ==
    /\ dropping' \in [Threads -> Vals \cup {NoVal}]
    /\ dropping'[t] # NoVal => IsTile(dropping'[t])
    /\ \A u \in Threads : u # t => dropping'[u] = dropping[u]

(* An item that is freed gives its key back if it is a tile.               *)
LEMMA DropLaterDrops ==
    ASSUME StoreInv, NEW t \in Threads, NEW v \in Vals, DropLater(t, v)
    PROVE  Drops(t)
<1>1. dropping \in [Threads -> Vals \cup {NoVal}]
  BY DEF StoreInv, TypeOK
<1> QED
  BY <1>1 DEF DropLater, Drops

(* A call that returns drops its own key, if it has made one.              *)
LEMMA ReturnDrops ==
    ASSUME StoreInv, NEW t \in Threads, Return(t)
    PROVE  Drops(t)
<1>1. CASE then[t] \in {"store", "resize"}
  <2>1. wanted[t] \in Vals /\ DropLater(t, wanted[t])
    BY <1>1 DEF StoreInv, TypeOK, Loads, Return
  <2> QED
    BY <2>1, DropLaterDrops
<1>2. CASE then[t] \notin {"store", "resize"}
  BY <1>2 DEF StoreInv, TypeOK, Control, Return, Drops
<1> QED
  BY <1>1, <1>2

(* A call that returns and has nothing pinned.                             *)
LEMMA ReturnStep ==
    ASSUME StoreInv, NEW t \in Threads, prev[t] = NoVal, pc[t] # "undefined",
           then[t] \in {"store", "resize"} => dropping[t] = NoVal, Return(t),
           UNCHANGED <<storeVars, refs, keyVars, kept, closed>>
    PROVE  StoreInv'
<1>0. Drops(t)
  BY ReturnDrops
<1>1. prev' = prev
  BY DEF StoreInv, TypeOK, Return
<1>2. TypeOK'
  <2>1. 0 \in 0 .. Word - 1
    BY StoreAssumption
  <2> QED
    BY <1>0, <2>1 DEF Drops, StoreInv, TypeOK, Return, Goto, Loading, storeVars, keyVars
<1>3. Control'
  <2>1. /\ pc'[t] = "idle" /\ then'[t] = "return" /\ closed' = closed
        /\ \A u \in Threads : u # t =>
              pc'[u] = pc[u] /\ then'[u] = then[u] /\ need'[u] = need[u]
    BY DEF StoreInv, TypeOK, Return, Goto
  <2> QED
    BY <1>0, <1>1, <2>1 DEF Drops, StoreInv, Control
<1>4. Loads'
  <2>1. Listed' \subseteq Listed
    BY DEF Listed, storeVars
  <2>2. Storing' \subseteq Storing
    BY DEF StoreInv, TypeOK, Storing, Return, Goto
  <2>3. \A u \in Threads : then'[u] \in Loading =>
              then'[u] = then[u] /\ wanted'[u] = wanted[u] /\ kept'[u] = kept[u]
    BY DEF StoreInv, TypeOK, Return, Goto, Loading
  <2> QED
    BY <2>1, <2>2, <2>3, LoadsKept DEF StoreInv
<1>5. Pending' \subseteq Pending
  BY DEF StoreInv, TypeOK, Pending, Return, Goto
<1>6. /\ \A u \in Threads : u # t => then'[u] = then[u] /\ wanted'[u] = wanted[u]
      /\ \A u \in Threads : then'[u] = "resize" =>
            then[u] = "resize" /\ wanted'[u] = wanted[u] /\ grown'[u] = grown[u]
  BY DEF StoreInv, TypeOK, Return
<1> QED
  BY <1>1, <1>2, <1>3, <1>4, <1>5, <1>6, QuietStep

(* All of TypeOK but the list, the table, the size and the references.     *)
CallsOK ==
    /\ kept \in [Threads -> SUBSET Vals]
    /\ closed \in BOOLEAN
    /\ pc \in [Threads -> {"idle", "malloc", "scavenge", "store", "space", "failed",
                           "resize", "insert", "swap", "empty", "undefined"}]
    /\ then \in [Threads -> Loading \cup {"return"}]
    /\ wanted \in [Threads -> Keys \cup Vals \cup {NoVal}]
    /\ request \in [Threads -> 0 .. Word - 1]
    /\ phase \in [Threads -> Nat]
    /\ need \in [Threads -> 0 .. Word - 1] /\ count \in [Threads -> Nat]
    /\ prev \in [Threads -> Vals \cup {NoVal}]
    /\ dropping \in [Threads -> Vals \cup {NoVal}]
    /\ grown \in [Threads -> Nat]

(* The references after a step of t that takes and drops some.             *)
Counts(t) ==
    refs' = [v \in Vals |->
               refs[v] - Has(v, kept[t]) + Has(v, kept'[t]) - Has(v, Listed) + Has(v, Listed')
                 - Is(v, prev[t]) + Is(v, prev'[t])]

(* What other threads load and store stays as it is.                       *)
OthersLoad(t) == \A u \in Threads : u # t => then'[u] = then[u] /\ wanted'[u] = wanted[u]

(* No thread enters the hash table, or asks for another size of it.        *)
NoneGrow ==
    \A u \in Threads : then'[u] = "resize" =>
       then[u] = "resize" /\ wanted'[u] = wanted[u] /\ grown'[u] = grown[u]

(* A step of one thread that lists the same values as before.              *)
LEMMA SameValuesStep ==
    ASSUME StoreInv, NEW t \in Threads, CallsOK', Control', Loads',
           lru' \in Seq(Vals), ListedOnce', Listed' = Listed, table' = table,
           size' \in Nat, size' >= size, size' <= MaxSize, Pending' \subseteq Pending,
           OneMoves(kept, prev, kept', prev', t), prev'[t] \in {prev[t], NoVal},
           RefsExact', refs' \in [Vals -> Nat], keyRefs' \in [Vals -> Nat],
           leaked' \in [Vals -> Nat], OthersLoad(t), NoneGrow
    PROVE  StoreInv'
<1>2. TableListed' /\ DOMAIN table' \subseteq Nat
      /\ \A i \in DOMAIN table' : table'[i] \in Vals \cup {NoVal}
  BY DEF StoreInv, TableListed, TypeOK
<1>3. TypeOK'
  BY <1>2 DEF TypeOK, CallsOK
<1>4. PinnedIsListed'
  BY DEF StoreInv, PinnedIsListed, OneMoves, Listed
<1>5. TableHasRoom'
  <2>1. SizeOf(table') = SizeOf(table) /\ Load(table') = Load(table) /\ Load(table) \in Nat
    BY TableProperties DEF StoreInv
  <2>2. \A u \in Threads : then'[u] = "resize" =>
           grown'[u] = 2 * SizeOf(table) \/ grown'[u] <= SizeOf(table)
    BY DEF StoreInv, TableHasRoom, NoneGrow
  <2>3. Load(table') \in Nat /\ Load(table') <= Load(table)
    BY <2>1
  <2> QED
    BY <2>1, <2>2, <2>3, RoomKept DEF StoreInv
<1>6. SizesCovered'
  <2> DEFINE e == SumFunctionOnSet(EnteringWeight, Counted)
             e2 == SumFunctionOnSet(EnteringWeight', Counted')
             x == SumFunctionOnSet(ValueWeight, Listed)
  <2>1. \A u \in Threads : then[u] = "resize" => wanted[u] \in Vals
    BY DEF StoreInv, Loads, TypeOK
  <2>2. then'[t] = "resize" => wanted'[t] \in Vals
    BY <2>1 DEF NoneGrow
  <2>3. /\ e \in Nat /\ e2 \in Nat
        /\ e2 = e - (IF then[t] = "resize" THEN WeightOf(wanted[t]) ELSE 0)
                  + (IF then'[t] = "resize" THEN WeightOf(wanted'[t]) ELSE 0)
    BY <2>2, EnteringStep DEF StoreInv, OthersLoad
  <2>4. then'[t] = "resize" => then[t] = "resize" /\ WeightOf(wanted'[t]) = WeightOf(wanted[t])
    BY DEF NoneGrow
  <2>5. then[t] = "resize" => WeightOf(wanted[t]) \in Nat
    BY <2>1, WeightType
  <2>6. e2 <= e
    <3> HIDE DEF e, e2
    <3> QED
      BY <2>3, <2>4, <2>5
  <2>7. x \in Nat /\ x + e <= size /\ size \in Nat /\ size <= MaxSize
    BY ListedType DEF StoreInv, SizesCovered, TypeOK
  <2> HIDE DEF e, e2, x
  <2>8. x + e2 <= size'
    BY <2>3, <2>6, <2>7
  <2>9. x = SumFunctionOnSet(ValueWeight, Listed')
    BY DEF x
  <2>10. e2 = SumFunctionOnSet(EnteringWeight', Counted')
    BY DEF e2
  <2>11. ValueWeight' = ValueWeight
    BY DEF ValueWeight, WeightOf
  <2> QED
    BY <2>8, <2>9, <2>10, <2>11 DEF SizesCovered
<1> QED
  BY <1>2, <1>3, <1>4, <1>5, <1>6 DEF StoreInv

(* What the keys and what is lost count for stays, if no key is made or    *)
(* freed and nothing is lost.                                              *)
LEMMA ExtraStays ==
    ASSUME NEW v \in Vals, \A u \in Vals : IsTile(u) => (keyRefs'[u] > 0 <=> keyRefs[u] > 0),
           IsTile(v) \/ leaked'[v] = leaked[v]
    PROVE  Extra(v)' = Extra(v)
<1>1. KeysOf(v)' = KeysOf(v)
  BY DEF KeysOf, IsTile, Image
<1>2. Lost(v)' = Lost(v)
  BY DEF Lost, IsTile
<1> QED
  BY <1>1, <1>2, Zenon DEF Extra

(* The references are exact after a step that leaves the keys as they are. *)
LEMMA CountedStep ==
    ASSUME StoreInv, ListedOnce', \A v \in Vals : Extra(v)' = Extra(v),
           leaked' \in [Vals -> Nat],
           NEW t \in Threads, OneMoves(kept, prev, kept', prev', t), Counts(t)
    PROVE  RefsExact' /\ refs' \in [Vals -> Nat]
<1>1. ASSUME NEW v \in Vals
      PROVE  /\ Extra(v) \in Nat /\ refs[v] \in Nat
             /\ refs'[v] = refs[v] - Has(v, kept[t]) + Has(v, kept'[t])
                             - Has(v, Listed) + Has(v, Listed')
                             - Is(v, prev[t]) + Is(v, prev'[t])
  <2>1. Extra(v) \in Nat /\ refs[v] \in Nat
    BY ExtraType DEF StoreInv, TypeOK
  <2>2. refs'[v] = refs[v] - Has(v, kept[t]) + Has(v, kept'[t])
                             - Has(v, Listed) + Has(v, Listed')
                             - Is(v, prev[t]) + Is(v, prev'[t])
    <3> HIDE DEF Listed
    <3> QED
      BY Zenon DEF Counts
  <2> QED
    BY <2>1, <2>2
<1>2. refs' = [v \in Vals |-> refs'[v]]
  BY Zenon DEF Counts
<1>3. ASSUME NEW v \in Vals
      PROVE  refs'[v] = refs[v] - Has(v, kept[t]) + Has(v, kept'[t])
                           - Has(v, Listed) + Has(v, Listed')
                           - Is(v, prev[t]) + Is(v, prev'[t])
                           - Extra(v) + Extra(v)'
  <2> DEFINE e == Extra(v)
             e2 == Extra(v)'
             L2 == Listed'
             L == Listed
  <2>1. /\ e2 = e /\ e \in Nat
        /\ refs[v] \in Nat
        /\ refs'[v] = refs[v] - Has(v, kept[t]) + Has(v, kept'[t])
                        - Has(v, L) + Has(v, L2) - Is(v, prev[t]) + Is(v, prev'[t])
    BY <1>1
  <2>2. \A x, y : Has(x, y) \in Nat /\ Is(x, y) \in Nat
    BY DEF Has, Is
  <2> HIDE DEF e, e2, L, L2
  <2>3. refs'[v] = refs[v] - Has(v, kept[t]) + Has(v, kept'[t])
                     - Has(v, L) + Has(v, L2) - Is(v, prev[t]) + Is(v, prev'[t]) - e + e2
    BY <2>1, <2>2
  <2> QED
    BY <2>3 DEF e, e2, L, L2
<1> QED
  BY <1>2, <1>3, RefsStep DEF StoreInv

(* A step of one thread that lists the same values and leaves the keys     *)
(* alone.                                                                  *)
LEMMA SameListStep ==
    ASSUME StoreInv, NEW t \in Threads, CallsOK', Control', Loads', UNCHANGED keyVars,
           lru' \in Seq(Vals), ListedOnce', Listed' = Listed, table' = table,
           size' \in Nat, size' >= size, size' <= MaxSize, Pending' \subseteq Pending,
           OneMoves(kept, prev, kept', prev', t), prev'[t] \in {prev[t], NoVal}, Counts(t),
           OthersLoad(t), NoneGrow
    PROVE  StoreInv'
<1>1. keyRefs' \in [Vals -> Nat] /\ leaked' \in [Vals -> Nat]
  BY DEF StoreInv, TypeOK, keyVars
<1>2. \A v \in Vals : Extra(v)' = Extra(v)
  BY ExtraStays DEF keyVars
<1> QED
  BY <1>1, <1>2, CountedStep, SameValuesStep

(* A step of one thread that evicts a value nobody else has pinned.        *)
LEMMA EvictStep ==
    ASSUME StoreInv, NEW t \in Threads, CallsOK', Control',
           UNCHANGED <<keyVars, kept, then, wanted, grown>>,
           NEW v \in Listed, Evict(t, v),
           pc[t] \notin {"swap", "undefined"}, pc'[t] # "insert",
           \A u \in Threads : u # t => pc'[u] = pc[u] /\ prev'[u] = prev[u] /\ prev[u] # v,
           prev'[t] # NoVal => prev'[t] \in Listed \ {v}, Counts(t)
    PROVE  StoreInv'
<1> DEFINE e == SumFunctionOnSet(EnteringWeight, Counted)
<1>1. e \in Nat
  BY EnteringType DEF StoreInv
<1>2. /\ lru' \in Seq(Vals) /\ ListedOnce' /\ Listed' = Listed \ {v}
      /\ TableListed' /\ SizeOf(table') = SizeOf(table)
      /\ Load(table') \in Nat /\ Load(table') <= Load(table)
      /\ size' = size - WeightOf(v) /\ size' \in Nat
      /\ SumFunctionOnSet(ValueWeight, Listed')
           = SumFunctionOnSet(ValueWeight, Listed) - WeightOf(v)
  BY <1>1, EvictEffect DEF StoreInv
<1>3. RefsExact' /\ refs' \in [Vals -> Nat]
  <2>1. OneMoves(kept, prev, kept', prev', t)
    BY DEF OneMoves
  <2>2. leaked' \in [Vals -> Nat] /\ \A u \in Vals : Extra(u)' = Extra(u)
    BY ExtraStays DEF StoreInv, TypeOK, keyVars
  <2> QED
    BY <1>2, <2>1, <2>2, CountedStep
<1>4. TypeOK'
  <2>1. Table(table', SizeOf(table'), Vals)
    BY <1>2 DEF TableListed, WellFormed
  <2>2. DOMAIN table' \subseteq Nat /\ \A i \in DOMAIN table' : table'[i] \in Vals \cup {NoVal}
    BY <2>1 DEF Table
  <2>3. keyRefs' \in [Vals -> Nat] /\ leaked' \in [Vals -> Nat]
    BY DEF StoreInv, TypeOK, keyVars
  <2> QED
    BY <1>2, <1>3, <2>2, <2>3 DEF TypeOK, CallsOK
<1>5. PinnedIsListed'
  <2>1. \A u \in Threads : prev[u] # NoVal => prev[u] \in Listed
    BY DEF StoreInv, PinnedIsListed, Listed
  <2>2. \A u \in Threads : prev'[u] # NoVal => prev'[u] \in Listed'
    BY <1>2, <2>1
  <2> QED
    BY <2>2 DEF PinnedIsListed, Listed
<1>6. Loads'
  <2>1. Storing' \subseteq Storing
    BY DEF Storing
  <2> QED
    BY <1>2, <2>1, LoadsKept DEF StoreInv
<1>7. TableHasRoom'
  <2>1. Pending' \subseteq Pending
    BY DEF Pending
  <2>2. \A u \in Threads : then'[u] = "resize" =>
           grown'[u] = 2 * SizeOf(table) \/ grown'[u] <= SizeOf(table)
    BY DEF StoreInv, TableHasRoom
  <2> QED
    BY <1>2, <2>1, <2>2, RoomKept DEF StoreInv
<1>8. SizesCovered'
  <2> DEFINE x == SumFunctionOnSet(ValueWeight, Listed)
             y == SumFunctionOnSet(ValueWeight, Listed')
  <2>1. x \in Nat /\ x + e <= size /\ size \in Nat /\ size <= MaxSize /\ MaxSize \in Nat
    BY ListedType, WeightType DEF StoreInv, SizesCovered, TypeOK
  <2>2. y = x - WeightOf(v) /\ WeightOf(v) \in Nat /\ size' = size - WeightOf(v)
    BY <1>2, ListedType, WeightType DEF StoreInv
  <2>3. Counted' = Counted /\ EnteringWeight' = EnteringWeight /\ ValueWeight' = ValueWeight
    BY DEF Counted, EnteringWeight, ValueWeight, WeightOf
  <2>4. y + e <= size' /\ size' <= MaxSize
    <3> HIDE DEF x, y, e
    <3> QED
      BY <1>1, <2>1, <2>2
  <2> QED
    BY <2>3, <2>4 DEF SizesCovered
<1> QED
  BY <1>2, <1>3, <1>4, <1>5, <1>6, <1>7, <1>8 DEF StoreInv
-----------------------------------------------------------------------------
(* The allocator *)

(* fz_malloc keeps the invariant: it only notes what is asked.             *)
LEMMA MallocStep ==
    ASSUME StoreInv, NEW t \in Threads, NEW n \in Requests, Malloc(t, n)
    PROVE  StoreInv'
<1> USE DEF Malloc, At, Allocate, Goto
<1>1. TypeOK'
  <2>1. n \in 0 .. Word - 1
    BY StoreAssumption
  <2> QED
    BY <2>1 DEF StoreInv, TypeOK, Loading, storeVars, keyVars, spaceVars
<1>2. Control'
  BY DEF StoreInv, TypeOK, Control, spaceVars
<1>3. Loads'
  <2>1. Listed' \subseteq Listed
    BY DEF Listed, storeVars
  <2>2. Storing' \subseteq Storing
    BY DEF StoreInv, TypeOK, Storing
  <2>3. \A u \in Threads : then'[u] \in Loading =>
              then'[u] = then[u] /\ wanted'[u] = wanted[u] /\ kept'[u] = kept[u]
    BY DEF StoreInv, TypeOK, Loading
  <2> QED
    BY <2>1, <2>2, <2>3, LoadsKept DEF StoreInv
<1>4. Pending' \subseteq Pending
  BY DEF StoreInv, TypeOK, Pending
<1>5. /\ \A u \in Threads : u # t => then'[u] = then[u] /\ wanted'[u] = wanted[u]
      /\ \A u \in Threads : then'[u] = "resize" =>
            then[u] = "resize" /\ wanted'[u] = wanted[u] /\ grown'[u] = grown[u]
  BY DEF StoreInv, TypeOK
<1> QED
  BY <1>1, <1>2, <1>3, <1>4, <1>5, QuietStep DEF spaceVars

(* Whatever the threads do when one of them goes on without the lock.      *)
LEMMA UndefinedStep ==
    ASSUME StoreInv, Undefined, NEW t \in Threads
    PROVE  StoreInv'
<1>1. TypeOK'
  BY DEF StoreInv, TypeOK, Undefined, storeVars, keyVars, callVars, spaceVars
<1>2. Control'
  BY DEF StoreInv, Control, Undefined, callVars, spaceVars
<1>3. Loads'
  <2>1. Listed' \subseteq Listed /\ Storing' \subseteq Storing
    BY DEF Listed, Undefined, storeVars, Storing
  <2>2. \A u \in Threads : then'[u] \in Loading =>
              then'[u] = then[u] /\ wanted'[u] = wanted[u] /\ kept'[u] = kept[u]
    BY DEF Undefined, callVars
  <2> QED
    BY <2>1, <2>2, LoadsKept DEF StoreInv
<1>4. Pending' \subseteq Pending
  BY DEF Undefined, Pending
<1>5. /\ \A u \in Threads : u # t => then'[u] = then[u] /\ wanted'[u] = wanted[u]
      /\ \A u \in Threads : then'[u] = "resize" =>
            then[u] = "resize" /\ wanted'[u] = wanted[u] /\ grown'[u] = grown[u]
  BY DEF Undefined, callVars
<1>6. UNCHANGED <<storeVars, refs, keyVars, kept, prev>>
  BY DEF Undefined, callVars, spaceVars
<1> QED
  BY <1>1, <1>2, <1>3, <1>4, <1>5, <1>6, QuietStep

(* An allocation that succeeds keeps the invariant: the thread goes on     *)
(* with what it wanted the memory for.                                     *)
LEMMA AllocatedStep ==
    ASSUME StoreInv, NEW t \in Threads, Allocated(t)
    PROVE  StoreInv'
<1>1. prev[t] = NoVal /\ dropping[t] = NoVal /\ pc[t] = "malloc"
  BY DEF StoreInv, Control, Allocated
<1>2. CASE then[t] = "return" /\ Return(t)
  BY <1>1, <1>2, ReturnStep DEF Allocated
<1>3. CASE then[t] \in {"store", "resize"} /\ Goto(t, then[t]) /\ UNCHANGED <<dropping, callVars>>
  <2> USE <1>1, <1>3 DEF Goto, callVars, spaceVars
  <2>1. TypeOK'
    BY DEF StoreInv, TypeOK, Allocated, storeVars, keyVars
  <2>2. Control'
    BY DEF StoreInv, TypeOK, Control, Allocated
  <2>3. Loads'
    <3>1. Listed' \subseteq Listed
      BY DEF Listed, Allocated, storeVars
    <3>2. Storing' \subseteq Storing
      BY DEF StoreInv, TypeOK, Storing
    <3>3. \A u \in Threads : then'[u] \in Loading =>
              then'[u] = then[u] /\ wanted'[u] = wanted[u] /\ kept'[u] = kept[u]
      BY DEF Allocated
    <3> QED
      BY <3>1, <3>2, <3>3, LoadsKept DEF StoreInv
  <2>4. Pending' \subseteq Pending
    BY DEF StoreInv, TypeOK, Pending
  <2> QED
    BY <2>1, <2>2, <2>3, <2>4, QuietStep DEF Allocated
<1> QED
  BY <1>2, <1>3 DEF Allocated

(* An allocation that fails, as nothing is left to free, keeps the         *)
(* invariant, with the lock released or undefined.                         *)
LEMMA OutOfMemoryStep ==
    ASSUME StoreInv, NEW t \in Threads, OutOfMemory(t)
    PROVE  StoreInv'
<1>1. prev[t] = NoVal /\ dropping[t] = NoVal /\ pc[t] = "malloc"
  BY DEF StoreInv, Control, OutOfMemory
<1> QED
  BY <1>1, ReturnStep, UndefinedStep DEF OutOfMemory

(* fz_store_item without room keeps the invariant: the value stays with    *)
(* its caller only.                                                        *)
LEMMA GiveUpStep ==
    ASSUME StoreInv, NEW t \in Threads, GiveUp(t)
    PROVE  StoreInv'
<1>1. prev[t] = NoVal /\ dropping[t] = NoVal /\ pc[t] = "failed"
  BY DEF StoreInv, Control, GiveUp
<1> QED
  BY <1>1, ReturnStep DEF GiveUp

(* Closing the document starts fz_empty_store.                             *)
LEMMA CloseDocumentStep ==
    ASSUME StoreInv, NEW t \in Threads, CloseDocument(t)
    PROVE  StoreInv'
<1> USE DEF CloseDocument, Goto, callVars, spaceVars
<1>1. TypeOK'
  BY DEF StoreInv, TypeOK, storeVars, keyVars
<1>2. Control'
  BY DEF StoreInv, TypeOK, Control, Loading
<1>3. Loads'
  <2>1. Listed' \subseteq Listed
    BY DEF Listed, storeVars
  <2>2. Storing' \subseteq Storing
    BY DEF StoreInv, TypeOK, Storing
  <2> QED
    BY <2>1, <2>2, LoadsKept DEF StoreInv
<1>4. Pending' \subseteq Pending
  BY DEF StoreInv, TypeOK, Pending
<1> QED
  BY <1>1, <1>2, <1>3, <1>4, QuietStep

-----------------------------------------------------------------------------
(* Holding values *)

(* Thread t takes n references to v.                                       *)
Takes(t, v, n) ==
    /\ refs' = [refs EXCEPT ![v] = @ + n]
    /\ \A u \in Vals : u # v => (u \in kept'[t] <=> u \in kept[t])
    /\ n = Has(v, kept'[t]) - Has(v, kept[t])

(* The references when only what t holds changes.                          *)
LEMMA CountsHeld ==
    ASSUME StoreInv, NEW t \in Threads, Listed' = Listed, prev'[t] = prev[t],
           NEW v \in Vals, NEW n \in Int, Takes(t, v, n)
    PROVE  Counts(t)
<1> USE DEF Takes
<1> DEFINE r == [u \in Vals |->
               refs[u] - Has(u, kept[t]) + Has(u, kept'[t]) - Has(u, Listed) + Has(u, Listed')
                 - Is(u, prev[t]) + Is(u, prev'[t])]
<1>1. refs \in [Vals -> Nat]
  BY DEF StoreInv, TypeOK
<1>2. refs' = [u \in Vals |-> IF u = v THEN refs[v] + n ELSE refs[u]]
  BY <1>1
<1>3. \A x, S : Has(x, S) \in Nat /\ Is(x, S) \in Nat
  BY DEF Has, Is
<1>4. \A u \in Vals : u # v => Has(u, kept'[t]) = Has(u, kept[t])
  BY DEF Has
<1>5. ASSUME NEW u \in Vals
      PROVE  r[u] = IF u = v THEN refs[v] + n ELSE refs[u]
  <2>1. /\ r[u] = refs[u] - Has(u, kept[t]) + Has(u, kept'[t]) - Has(u, Listed) + Has(u, Listed)
                     - Is(u, prev[t]) + Is(u, prev[t])
        /\ refs[u] \in Nat
    BY <1>1
  <2> HIDE DEF r, Listed
  <2>2. CASE u = v
    BY <1>3, <2>1, <2>2
  <2>3. CASE u # v
    BY <1>3, <1>4, <2>1, <2>3
  <2> QED
    BY <2>2, <2>3
<1>6. r = [u \in Vals |-> r[u]]
  OBVIOUS
<1>7. r = refs'
  <2> HIDE DEF r
  <2> QED
    BY <1>2, <1>5, <1>6
<1> QED
  BY <1>7 DEF Counts

(* Taking or dropping a reference while the thread that gets it is idle.   *)
LEMMA HeldStep ==
    ASSUME StoreInv, NEW t \in Threads, pc[t] = "idle",
           UNCHANGED <<table, size, keyVars, closed, pc, dropping, callVars>>,
           lru' \in Seq(Vals), ListedOnce', Listed' = Listed,
           kept' \in [Threads -> SUBSET Vals], \A u \in Threads : u # t => kept'[u] = kept[u],
           Counts(t)
    PROVE  StoreInv'
<1> USE DEF callVars, spaceVars
<1>1. CallsOK' /\ Control'
  BY DEF StoreInv, TypeOK, CallsOK, Control
<1>2. then[t] = "return"
  BY DEF StoreInv, Control
<1>3. Loads'
  <2>1. Listed' \subseteq Listed /\ Storing' \subseteq Storing
    BY DEF Storing
  <2>2. \A u \in Threads : then'[u] \in Loading =>
              then'[u] = then[u] /\ wanted'[u] = wanted[u] /\ kept'[u] = kept[u]
    BY <1>2 DEF Loading
  <2> QED
    BY <2>1, <2>2, LoadsKept DEF StoreInv
<1>4. Pending' \subseteq Pending
  BY DEF Pending
<1>5. OneMoves(kept, prev, kept', prev', t) /\ OthersLoad(t) /\ NoneGrow
  BY DEF OneMoves, OthersLoad, NoneGrow
<1>6. size' \in Nat /\ size' >= size /\ size' <= MaxSize
  BY DEF StoreInv, TypeOK, SizesCovered
<1> QED
  BY <1>1, <1>3, <1>4, <1>5, <1>6, SameListStep

(* A thread that is given a value has a reference of its own.              *)
LEMMA KeepStorableStep ==
    ASSUME StoreInv, NEW t \in Threads, NEW u \in Threads, NEW v \in Vals, KeepStorable(t, u, v)
    PROVE  StoreInv'
<1>1. Listed' = Listed /\ ListedOnce' /\ lru' \in Seq(Vals)
  BY DEF StoreInv, TypeOK, KeepStorable, storeVars, Listed, ListedOnce
<1>2. /\ kept' \in [Threads -> SUBSET Vals] /\ kept'[u] = kept[u] \cup {v}
      /\ (\A w \in Threads : w # u => kept'[w] = kept[w]) /\ v \notin kept[u]
  BY DEF StoreInv, TypeOK, KeepStorable
<1>3. Has(v, kept'[u]) - Has(v, kept[u]) = 1
  BY <1>2 DEF Has
<1>4. prev'[u] = prev[u] /\ refs' = [refs EXCEPT ![v] = @ + 1]
  BY DEF KeepStorable, callVars, spaceVars
<1>5. Counts(u)
  <2>1. Takes(u, v, 1)
    BY <1>2, <1>3, <1>4 DEF Takes
  <2> QED
    BY <1>1, <1>4, <2>1, CountsHeld
<1>6. pc[u] = "idle" /\ UNCHANGED <<table, size, keyVars, closed, pc, dropping, callVars>>
  BY DEF KeepStorable, At, storeVars, keyVars
<1> QED
  BY <1>1, <1>2, <1>5, <1>6, HeldStep

(* A thread that drops a value has no reference to it any more.            *)
LEMMA DropStorableStep ==
    ASSUME StoreInv, NEW t \in Threads, NEW v \in Vals, DropStorable(t, v)
    PROVE  StoreInv'
<1>1. Listed' = Listed /\ ListedOnce' /\ lru' \in Seq(Vals)
  BY DEF StoreInv, TypeOK, DropStorable, storeVars, Listed, ListedOnce
<1>2. /\ kept' \in [Threads -> SUBSET Vals] /\ kept'[t] = kept[t] \ {v}
      /\ (\A w \in Threads : w # t => kept'[w] = kept[w]) /\ v \in kept[t]
  BY DEF StoreInv, TypeOK, DropStorable
<1>3. Has(v, kept'[t]) - Has(v, kept[t]) = -1
  BY <1>2 DEF Has
<1>4. prev'[t] = prev[t] /\ refs' = [refs EXCEPT ![v] = @ + (-1)]
  <2>1. refs[v] \in Nat /\ refs[v] - 1 = refs[v] + (-1)
    BY DEF StoreInv, TypeOK
  <2> QED
    BY <2>1 DEF DropStorable, callVars, spaceVars
<1>5. Counts(t)
  <2>1. Takes(t, v, -1)
    BY <1>2, <1>3, <1>4 DEF Takes
  <2>2. -1 \in Int
    OBVIOUS
  <2> QED
    BY <1>1, <1>4, <2>1, <2>2, CountsHeld
<1>6. pc[t] = "idle" /\ UNCHANGED <<table, size, keyVars, closed, pc, dropping, callVars>>
  BY DEF DropStorable, At, storeVars, keyVars
<1> QED
  BY <1>1, <1>2, <1>5, <1>6, HeldStep

(* What fz_find_item finds is listed, and is of the key it looks for.      *)
Found(k) ==
    IF k \in Hashed THEN HashFind(table, k)
    ELSE IF ItemsOf(k) = {} THEN NoVal
    ELSE lru[Min(ItemsOf(k))]

(* What a lookup finds is listed and has the key looked for, both in the   *)
(* table and by the scan of the list.                                      *)
LEMMA FoundIsListed ==
    ASSUME StoreInv, NEW k \in Keys, Found(k) # NoVal
    PROVE  Found(k) \in Listed /\ KeyOf[Found(k)] = k
<1>1. CASE k \in Hashed
  <2>1. Found(k) = HashFind(table, k)
    BY <1>1 DEF Found
  <2> QED
    BY <1>1, <2>1, FindEffect DEF StoreInv
<1>2. CASE k \notin Hashed
  <2>1. ItemsOf(k) # {} /\ Found(k) = lru[Min(ItemsOf(k))]
    BY <1>2 DEF Found
  <2>2. ItemsOf(k) \in SUBSET Nat
    BY ListedType DEF StoreInv, ItemsOf
  <2>3. Min(ItemsOf(k)) \in ItemsOf(k)
    BY <2>1, <2>2, MinOfNaturals
  <2>4. Min(ItemsOf(k)) \in DOMAIN lru /\ KeyOf[lru[Min(ItemsOf(k))]] = k
    BY <2>3 DEF ItemsOf
  <2> QED
    BY <2>1, <2>4, ListedType DEF StoreInv
<1> QED
  BY <1>1, <1>2

(* A hit takes a reference, a miss begins to load.                         *)
LEMMA FindItemStep ==
    ASSUME StoreInv, NEW t \in Threads, NEW k \in Keys, FindItem(t, k)
    PROVE  StoreInv'
<1> DEFINE found == Found(k)
<1>0. /\ pc[t] = "idle" /\ ~closed /\ \A v \in kept[t] : KeyOf[v] # k
      /\ k \in Tiles => ImageOf[k] \in kept[t]
      /\ dropping[t] = NoVal
      /\ UNCHANGED <<table, size, keyVars, closed, dropping>>
      /\ IF found # NoVal
           THEN /\ lru' = <<found>> \o RemoveAt(lru, Place(found))
                /\ Hit(found)
                /\ kept' = [kept EXCEPT ![t] = @ \cup {found}]
                /\ UNCHANGED <<pc, callVars>>
           ELSE /\ wanted' = [wanted EXCEPT ![t] = k]
                /\ Allocate(t, Weight[k], "create")
                /\ UNCHANGED <<lru, refs, kept, spaceVars, grown>>
  BY DEF FindItem, At, Found
<1>1. CASE found # NoVal
  <2>1. found \in Listed /\ KeyOf[found] = k /\ found \in Vals
    BY <1>1, FoundIsListed, ListedType DEF StoreInv
  <2> HIDE DEF found
  <2>2. lru' \in Seq(Vals) /\ ListedOnce' /\ Listed' = Listed
    BY <1>0, <1>1, <2>1, FrontEffect DEF StoreInv
  <2>3. /\ kept' \in [Threads -> SUBSET Vals] /\ kept'[t] = kept[t] \cup {found}
        /\ (\A w \in Threads : w # t => kept'[w] = kept[w]) /\ found \notin kept[t]
    <3>1. kept' = [kept EXCEPT ![t] = @ \cup {found}]
      BY <1>0, <1>1
    <3>2. kept \in [Threads -> SUBSET Vals]
      BY DEF StoreInv, TypeOK
    <3>3. found \notin kept[t]
      BY <1>0, <2>1
    <3> QED
      BY <2>1, <3>1, <3>2, <3>3
  <2>4. Has(found, kept'[t]) - Has(found, kept[t]) = 1
    BY <2>3 DEF Has
  <2>5. prev'[t] = prev[t] /\ refs' = [refs EXCEPT ![found] = @ + 1]
    BY <1>0, <1>1 DEF Hit, callVars, spaceVars
  <2>6. Counts(t)
    <3>1. Takes(t, found, 1)
      BY <2>3, <2>4, <2>5 DEF Takes
    <3> QED
      BY <2>1, <2>2, <2>5, <3>1, CountsHeld
  <2>7. UNCHANGED <<table, size, keyVars, closed, pc, dropping, callVars>>
    BY <1>0, <1>1
  <2> QED
    BY <1>0, <2>2, <2>3, <2>6, <2>7, HeldStep
<1>2. CASE found = NoVal
  <2> USE DEF Allocate, Goto
  <2>0. /\ wanted' = [wanted EXCEPT ![t] = k]
        /\ Allocate(t, Weight[k], "create")
        /\ UNCHANGED <<lru, refs, kept, need, count, prev, grown, table, size, keyVars, closed,
                       dropping>>
    BY <1>0, <1>2 DEF spaceVars
  <2> HIDE DEF found
  <2>1. TypeOK'
    <3>1. Weight[k] \in 0 .. Word - 1
      BY WeightType
    <3> QED
      BY <2>0, <3>1 DEF StoreInv, TypeOK, Loading, keyVars
  <2>2. Control'
    BY <1>0, <2>0 DEF StoreInv, TypeOK, Control
  <2>3. Storing' \subseteq Storing
    BY <1>0, <2>0 DEF StoreInv, TypeOK, Storing
  <2>4. /\ then'[t] = "create" /\ wanted'[t] = k
        /\ \A u \in Threads : u # t => then'[u] = then[u] /\ wanted'[u] = wanted[u]
    BY <2>0 DEF StoreInv, TypeOK
  <2>5. Loads'
    <3> SUFFICES ASSUME NEW u \in Threads
                 PROVE /\ then'[u] = "create" =>
                            /\ wanted'[u] \in Keys /\ \A v \in kept'[u] : KeyOf[v] # wanted'[u]
                            /\ wanted'[u] \in Tiles => ImageOf[wanted'[u]] \in kept'[u]
                       /\ then'[u] = "key" => IsTile(wanted'[u]) /\ Image(wanted'[u]) \in kept'[u]
                       /\ then'[u] \in {"key", "store", "resize"} => wanted'[u] \in kept'[u]
                       /\ u \in Storing' =>
                            /\ wanted'[u] \notin Listed'
                            /\ \A v \in kept'[u] : KeyOf[v] = KeyOf[wanted'[u]] => v = wanted'[u]
                            /\ \A w \in Storing' : wanted'[w] = wanted'[u] => w = u
      BY DEF Loads
    <3>1. CASE u = t
      <4>1. t \notin Storing'
        BY <2>4 DEF Storing
      <4> QED
        BY <1>0, <2>0, <2>4, <3>1, <4>1
    <3>2. CASE u # t
      <4>1. t \notin Storing'
        BY <2>4 DEF Storing
      <4>2. \A w \in Storing' : w \in Threads /\ w \in Storing /\ wanted'[w] = wanted[w]
        BY <2>3, <2>4, <4>1 DEF Storing
      <4> QED
        BY <2>0, <2>3, <2>4, <3>2, <4>2 DEF StoreInv, Loads, Listed
    <3> QED
      BY <3>1, <3>2
  <2>6. Pending' \subseteq Pending
    BY <2>0 DEF StoreInv, TypeOK, Pending
  <2>7. \A u \in Threads : then'[u] = "resize" =>
            then[u] = "resize" /\ wanted'[u] = wanted[u] /\ grown'[u] = grown[u]
    BY <2>0, <2>4
  <2> QED
    BY <2>0, <2>1, <2>2, <2>4, <2>5, <2>6, <2>7, QuietStep DEF storeVars
<1> QED
  BY <1>1, <1>2

(* A value that is made for a load is nobody else's.                       *)
LEMMA CreateStep ==
    ASSUME StoreInv, NEW t \in Threads, Create(t)
    PROVE  StoreInv'
<1> USE DEF Allocate, Goto
<1>1. PICK v \in Vals :
         /\ KeyOf[v] = wanted[t] /\ refs[v] = 0 /\ keyRefs[v] = 0
         /\ refs' = [refs EXCEPT ![v] = 1]
         /\ kept' = [kept EXCEPT ![t] = @ \cup {v}]
         /\ wanted' = [wanted EXCEPT ![t] = v]
  BY DEF Create
<1>2. /\ pc[t] = "malloc" /\ then[t] = "create"
      /\ Allocate(t, 1, IF wanted[t] \in Tiles THEN "key" ELSE "store")
      /\ UNCHANGED <<lru, table, size, keyVars, closed, dropping, need, count, prev, grown>>
  BY DEF Create, storeVars, spaceVars
<1>3. v \notin Listed /\ (\A u \in Threads : v \notin kept[u] /\ prev[u] # v)
  BY <1>1, RefsMean DEF StoreInv
<1>4. 1 \in 0 .. Word - 1
  <2>1. WeightOf(v) \in Nat /\ WeightOf(v) > 0 /\ MaxSize + WeightOf(v) < Word
        /\ MaxSize \in Nat /\ Word \in Nat
    BY WeightType
  <2> QED
    BY <2>1
<1>5. CallsOK'
  BY <1>1, <1>2, <1>4 DEF StoreInv, TypeOK, CallsOK, Loading
<1>6. Control'
  BY <1>2 DEF StoreInv, TypeOK, Control
<1>7. /\ then'[t] = (IF IsTile(v) THEN "key" ELSE "store") /\ wanted'[t] = v
      /\ kept'[t] = kept[t] \cup {v}
      /\ \A u \in Threads : u # t =>
            then'[u] = then[u] /\ wanted'[u] = wanted[u] /\ kept'[u] = kept[u] /\ pc'[u] = pc[u]
  BY <1>1, <1>2 DEF StoreInv, TypeOK, IsTile
<1>8. Loads'
  <2> SUFFICES ASSUME NEW u \in Threads
               PROVE /\ then'[u] = "create" =>
                          /\ wanted'[u] \in Keys /\ \A x \in kept'[u] : KeyOf[x] # wanted'[u]
                          /\ wanted'[u] \in Tiles => ImageOf[wanted'[u]] \in kept'[u]
                     /\ then'[u] = "key" => IsTile(wanted'[u]) /\ Image(wanted'[u]) \in kept'[u]
                     /\ then'[u] \in {"key", "store", "resize"} => wanted'[u] \in kept'[u]
                     /\ u \in Storing' =>
                          /\ wanted'[u] \notin Listed'
                          /\ \A x \in kept'[u] : KeyOf[x] = KeyOf[wanted'[u]] => x = wanted'[u]
                          /\ \A w \in Storing' : wanted'[w] = wanted'[u] => w = u
    BY DEF Loads
  <2>1. Listed' = Listed
    BY <1>2 DEF Listed
  <2>2. \A w \in Storing' : w # t =>
           w \in Threads /\ w \in Storing /\ wanted'[w] = wanted[w] /\ wanted[w] # v
    BY <1>3, <1>7 DEF StoreInv, Loads, Storing
  <2>3. CASE u = t
    <3>1. \A x \in kept[t] : KeyOf[x] # KeyOf[v]
      BY <1>1, <1>2 DEF StoreInv, Loads
    <3>2. IsTile(v) => Image(v) \in kept[t]
      BY <1>1, <1>2 DEF StoreInv, Loads, IsTile, Image
    <3> QED
      BY <1>3, <1>7, <2>1, <2>2, <2>3, <3>1, <3>2
  <2>4. CASE u # t
    <3>1. u \in Storing' =>
                          /\ wanted'[u] \notin Listed'
                          /\ \A x \in kept'[u] : KeyOf[x] = KeyOf[wanted'[u]] => x = wanted'[u]
                          /\ \A w \in Storing' : wanted'[w] = wanted'[u] => w = u
      BY <1>7, <2>1, <2>2, <2>4 DEF StoreInv, Loads
    <3> QED
      BY <1>7, <2>4, <3>1 DEF StoreInv, Loads
  <2> QED
    BY <2>3, <2>4
<1>9. Listed' = Listed /\ ListedOnce' /\ lru' \in Seq(Vals) /\ table' = table
  BY <1>2 DEF StoreInv, TypeOK, Listed, ListedOnce
<1>10. Counts(t)
  <2>1. Has(v, kept'[t]) - Has(v, kept[t]) = 1
    BY <1>3, <1>7 DEF Has
  <2>2. refs' = [refs EXCEPT ![v] = @ + 1] /\ prev'[t] = prev[t]
    BY <1>1, <1>2 DEF StoreInv, TypeOK
  <2>3. \A u \in Vals : u # v => (u \in kept'[t] <=> u \in kept[t])
    BY <1>7
  <2>4. Takes(t, v, 1)
    BY <2>1, <2>2, <2>3 DEF Takes
  <2> QED
    BY <1>9, <2>2, <2>4, CountsHeld
<1>11. Pending' \subseteq Pending
  BY <1>2 DEF StoreInv, TypeOK, Pending
<1>12. OneMoves(kept, prev, kept', prev', t) /\ OthersLoad(t) /\ NoneGrow /\ prev'[t] = prev[t]
  BY <1>2, <1>7 DEF OneMoves, OthersLoad, NoneGrow
<1>13. size' \in Nat /\ size' >= size /\ size' <= MaxSize
  BY <1>2 DEF StoreInv, TypeOK, SizesCovered
<1> QED
  BY <1>2, <1>5, <1>6, <1>8, <1>9, <1>10, <1>11, <1>12, <1>13, SameListStep

(* A thread that swaps its value for the stored one drops its own.         *)
LEMMA UseExistingStep ==
    ASSUME StoreInv, NEW t \in Threads, UseExisting(t)
    PROVE  StoreInv'
<1> USE DEF Return, Goto
<1> DEFINE v == wanted[t]
<1>1. /\ pc[t] = "swap" /\ then[t] \in {"store", "resize"} /\ prev[t] = NoVal
      /\ dropping[t] = NoVal
      /\ v \in kept[t] /\ v \in Vals
  BY DEF StoreInv, TypeOK, Control, Loads, UseExisting
<1>2. /\ refs' = [refs EXCEPT ![v] = @ - 1]
      /\ kept' = [kept EXCEPT ![t] = @ \ {v}]
      /\ Return(t)
      /\ UNCHANGED <<lru, table, size, keyVars, closed>>
  BY DEF UseExisting, storeVars
<1>d. Drops(t)
  BY <1>2, ReturnDrops
<1> HIDE DEF v
<1>3. CallsOK'
  <2>1. 0 \in 0 .. Word - 1
    BY StoreAssumption
  <2> QED
    BY <1>2, <1>d, <2>1 DEF Drops, StoreInv, TypeOK, CallsOK, Loading
<1>4. Control'
  BY <1>1, <1>2, <1>d DEF Drops, StoreInv, TypeOK, Control
<1>5. /\ then'[t] = "return" /\ kept'[t] = kept[t] \ {v} /\ prev' = prev
      /\ \A u \in Threads : u # t =>
            then'[u] = then[u] /\ wanted'[u] = wanted[u] /\ kept'[u] = kept[u]
              /\ pc'[u] = pc[u] /\ grown'[u] = grown[u]
  BY <1>1, <1>2 DEF StoreInv, TypeOK
<1>6. Listed' = Listed /\ ListedOnce' /\ lru' \in Seq(Vals) /\ table' = table
  BY <1>2 DEF StoreInv, TypeOK, Listed, ListedOnce
<1>7. Loads'
  <2>1. Storing' \subseteq Storing
    BY <1>5 DEF Storing
  <2>2. \A u \in Threads : then'[u] \in Loading =>
              then'[u] = then[u] /\ wanted'[u] = wanted[u] /\ kept'[u] = kept[u]
    BY <1>5 DEF Loading
  <2> QED
    BY <1>6, <2>1, <2>2, LoadsKept DEF StoreInv
<1>8. Counts(t)
  <2>1. Has(v, kept'[t]) - Has(v, kept[t]) = -1
    BY <1>1, <1>5 DEF Has
  <2>2. refs' = [refs EXCEPT ![v] = @ + (-1)] /\ prev'[t] = prev[t]
    <3>1. refs[v] \in Nat /\ refs[v] - 1 = refs[v] + (-1)
      BY <1>1 DEF StoreInv, TypeOK
    <3> QED
      BY <1>2, <1>5, <3>1
  <2>3. \A u \in Vals : u # v => (u \in kept'[t] <=> u \in kept[t])
    BY <1>5
  <2>4. Takes(t, v, -1) /\ -1 \in Int
    BY <2>1, <2>2, <2>3 DEF Takes
  <2> QED
    BY <1>1, <1>6, <2>2, <2>4, CountsHeld
<1>9. Pending' \subseteq Pending
  BY <1>2 DEF StoreInv, TypeOK, Pending
<1>10. OneMoves(kept, prev, kept', prev', t) /\ OthersLoad(t) /\ NoneGrow /\ prev'[t] = prev[t]
  BY <1>5 DEF OneMoves, OthersLoad, NoneGrow
<1>11. size' \in Nat /\ size' >= size /\ size' <= MaxSize
  BY <1>2 DEF StoreInv, TypeOK, SizesCovered
<1> QED
  BY <1>2, <1>3, <1>4, <1>6, <1>7, <1>8, <1>9, <1>10, <1>11, SameListStep

-----------------------------------------------------------------------------
(* Evicting *)

(* The references but for the pin of t.                                    *)
Unpinned(t) == [v \in Vals |-> refs[v] - (IF v = prev[t] THEN 1 ELSE 0)]

(* The last of some places of the list.                                    *)
LEMMA LastPlace ==
    ASSUME TypeOK, NEW S \in SUBSET DOMAIN lru, S # {}
    PROVE  Max(S) \in S
<1>1. DOMAIN lru = 1 .. Len(lru) /\ Len(lru) \in Nat
  BY ListedType
<1>2. S \in SUBSET Nat /\ \A x \in S : x <= Len(lru)
  BY <1>1
<1> QED
  BY <1>1, <1>2, MaxOfNaturals

(* What ensure_space and scavenge may evict, no thread holds and no other  *)
(* thread has pinned.                                                      *)
LEMMA EvictableMeans ==
    ASSUME StoreInv, NEW t \in Threads, NEW i \in Evictable(Unpinned(t))
    PROVE  /\ i \in DOMAIN lru /\ lru[i] \in Listed /\ lru[i] \in Vals
           /\ refs[lru[i]] - Is(lru[i], prev[t]) = 1
           /\ \A u \in Threads : lru[i] \notin kept[u] /\ (u # t => prev[u] # lru[i])
<1> DEFINE v == lru[i]
           p2 == [prev EXCEPT ![t] = NoVal]
           e == Extra(v)
<1>1. i \in DOMAIN lru /\ v \in Listed /\ v \in Vals
  BY ListedType DEF StoreInv, Evictable
<1>2. refs[v] - Is(v, prev[t]) = 1
  BY <1>1 DEF Evictable, Unpinned, Is
<1> HIDE DEF v
<1>3. /\ OneMoves(kept, prev, kept, p2, t) /\ p2[t] = NoVal
      /\ \A u \in Threads : u # t => p2[u] = prev[u]
  BY DEF StoreInv, TypeOK, OneMoves
<1> HIDE DEF p2
<1>4. refs[v] = References(kept, Listed, prev, v) + e /\ e \in Nat
  BY <1>1, RefsCount, ExtraType DEF StoreInv, TypeOK
<1> HIDE DEF e
<1>5. References(kept, Listed, p2, v) <= 1
  <2>1. References(kept, Listed, p2, v) = References(kept, Listed, prev, v)
           - Has(v, kept[t]) + Has(v, kept[t]) - Has(v, Listed) + Has(v, Listed)
           - Is(v, prev[t]) + Is(v, p2[t])
    BY <1>3, ReferencesChange
  <2>2. Is(v, p2[t]) = 0
    BY <1>1, <1>3, StoreAssumption DEF Is
  <2>3. \A x, y : Has(x, y) \in Nat /\ Is(x, y) \in Nat
    BY DEF Has, Is
  <2>4. References(kept, Listed, prev, v) \in Nat
    BY ReferencesPositive
  <2> QED
    BY <1>2, <1>4, <2>1, <2>2, <2>3, <2>4
<1>6. \A u \in Threads : v \notin kept[u] /\ p2[u] # v
  BY <1>1, <1>5, ReferencesPositive
<1> QED
  BY <1>1, <1>2, <1>3, <1>6 DEF v

(* The references when t goes on from the evicted v to p.                  *)
LEMMA CountsEvicted ==
    ASSUME StoreInv, NEW t \in Threads, NEW v \in Listed, Listed' = Listed \ {v},
           kept'[t] = kept[t],
           refs' = [u \in Vals |-> refs[u] - Is(u, prev[t]) - Is(u, v) + Is(u, prev'[t])]
    PROVE  Counts(t)
<1> DEFINE r == [u \in Vals |->
               refs[u] - Has(u, kept[t]) + Has(u, kept'[t]) - Has(u, Listed) + Has(u, Listed')
                 - Is(u, prev[t]) + Is(u, prev'[t])]
<1>1. refs \in [Vals -> Nat]
  BY DEF StoreInv, TypeOK
<1>2. \A x, S : Has(x, S) \in Nat /\ Is(x, S) \in Nat
  BY DEF Has, Is
<1>3. \A u \in Vals : Has(u, Listed) - Has(u, Listed') = Is(u, v)
  <2> HIDE DEF Listed
  <2> QED
    BY DEF Has, Is
<1>4. ASSUME NEW u \in Vals
      PROVE  r[u] = refs[u] - Is(u, prev[t]) - Is(u, v) + Is(u, prev'[t])
  <2>1. /\ r[u] = refs[u] - Has(u, kept[t]) + Has(u, kept[t]) - Has(u, Listed) + Has(u, Listed')
                     - Is(u, prev[t]) + Is(u, prev'[t])
        /\ refs[u] \in Nat
    BY <1>1
  <2>2. Has(u, Listed) - Has(u, Listed') = Is(u, v)
    BY <1>3
  <2> HIDE DEF r, Listed
  <2> QED
    BY <1>2, <2>1, <2>2
<1>5. r = [u \in Vals |-> r[u]]
  OBVIOUS
<1>6. r = refs'
  <2> HIDE DEF r
  <2> QED
    BY <1>4, <1>5
<1> QED
  BY <1>6 DEF Counts

(* What evict leaves of the list.                                          *)
LEMMA EvictLists ==
    ASSUME StoreInv, NEW t \in Threads, NEW v \in Listed, Evict(t, v)
    PROVE  Listed' = Listed \ {v}
  BY EnteringType, EvictEffect DEF StoreInv

(* scavenge evicts the last value that only the store has.                 *)
LEMMA ScavengeOneStep ==
    ASSUME StoreInv, NEW t \in Threads, NEW sofar \in Nat,
           pc[t] \in {"malloc", "scavenge"}, Evictable(refs) # {}, ScavengeOne(t, sofar),
           UNCHANGED <<keyVars, kept, closed, then, wanted, request, prev, grown>>,
           need' \in [Threads -> 0 .. Word - 1], \A u \in Threads : u # t => need'[u] = need[u],
           phase' \in [Threads -> Nat]
    PROVE  StoreInv'
<1> DEFINE i == Max(Evictable(refs))
           v == lru[i]
<1>1. prev[t] = NoVal
  BY DEF StoreInv, Control
<1>2. refs = Unpinned(t)
  <2>1. \A u \in Vals : refs[u] \in Nat /\ u # NoVal
    BY StoreAssumption DEF StoreInv, TypeOK
  <2>2. refs = [u \in Vals |-> refs[u]]
    BY DEF StoreInv, TypeOK
  <2>3. \A u \in Vals : refs[u] - (IF u = prev[t] THEN 1 ELSE 0) = refs[u]
    BY <1>1, <2>1
  <2> QED
    BY <2>2, <2>3, Zenon DEF Unpinned
<1>3. i \in Evictable(refs)
  <2>1. Evictable(refs) \in SUBSET DOMAIN lru
    BY DEF Evictable
  <2> QED
    BY <2>1, LastPlace DEF StoreInv
<1>4. /\ v \in Listed /\ v \in Vals /\ refs[v] - Is(v, prev[t]) = 1
      /\ \A u \in Threads : v \notin kept[u] /\ (u # t => prev[u] # v)
  BY <1>2, <1>3, EvictableMeans
<1>5. /\ Evict(t, v) /\ refs' = [refs EXCEPT ![v] = 0]
      /\ count' = [count EXCEPT ![t] = sofar + WeightOf(v)]
      /\ pc' = [pc EXCEPT ![t] = "scavenge"]
  BY DEF ScavengeOne, Goto
<1> HIDE DEF v, i
<1>d. Drops(t)
  BY <1>4, <1>5, DropLaterDrops DEF Evict
<1>6. CallsOK'
  <2>1. sofar + WeightOf(v) \in Nat
    BY <1>4, WeightType
  <2> QED
    BY <1>5, <1>d, <2>1 DEF Drops, StoreInv, TypeOK, CallsOK
<1>7. Control'
  BY <1>1, <1>5, <1>d, SMTT(30) DEF Drops, StoreInv, TypeOK, Control
<1>8. Listed' = Listed \ {v}
  BY <1>4, <1>5, EvictLists
<1>9. Counts(t)
  <2>1. \A u \in Vals : refs[u] \in Nat /\ u # NoVal /\ Is(u, prev[t]) = 0 /\ Is(u, prev'[t]) = 0
    BY <1>1, StoreAssumption DEF StoreInv, TypeOK, Is
  <2>2. refs[v] = 1
    BY <1>4, <2>1
  <2>3. refs' = [u \in Vals |-> IF u = v THEN 0 ELSE refs[u]]
    BY <1>5 DEF StoreInv, TypeOK
  <2>4. \A u \in Vals : (IF u = v THEN 0 ELSE refs[u])
                           = refs[u] - Is(u, prev[t]) - Is(u, v) + Is(u, prev'[t])
    BY <2>1, <2>2 DEF Is
  <2>5. refs' = [u \in Vals |-> refs[u] - Is(u, prev[t]) - Is(u, v) + Is(u, prev'[t])]
    BY <2>3, <2>4, Zenon
  <2> QED
    BY <1>4, <1>8, <2>5, CountsEvicted
<1>10. /\ pc[t] \notin {"swap", "undefined"} /\ pc'[t] # "insert"
       /\ \A u \in Threads : u # t => pc'[u] = pc[u] /\ prev'[u] = prev[u] /\ prev[u] # v
       /\ prev'[t] # NoVal => prev'[t] \in Listed \ {v}
  BY <1>1, <1>4, <1>5 DEF StoreInv, TypeOK
<1> QED
  BY <1>4, <1>5, <1>6, <1>7, <1>9, <1>10, EvictStep

(* The phases of scavenging are numbers.                                   *)
LEMMA ScavengingType ==
    ASSUME StoreInv, NEW t \in Threads, Scavenging(request[t], phase[t]) # {}
    PROVE  LET p == Min(Scavenging(request[t], phase[t]))
           IN  p \in Nat /\ ToFree(request[t], p) \in 0 .. Word - 1
<1> DEFINE n == request[t]
           S == Scavenging(n, phase[t])
           p == Min(S)
<1>1. n \in 0 .. Word - 1 /\ phase[t] \in Nat /\ size \in Nat /\ size <= MaxSize
  BY DEF StoreInv, TypeOK, SizesCovered
<1>2. S \in SUBSET Nat /\ S # {}
  <2>1. \A q \in S : q \in phase[t] .. phase[t] + Phases
    BY DEF Scavenging, PhasesFrom
  <2>2. Phases \in Nat
    BY StoreAssumption
  <2> HIDE DEF S
  <2>3. S \subseteq Nat
    BY <1>1, <2>1, <2>2
  <2> QED
    BY <2>3 DEF S
<1>3. p \in S /\ p \in Nat
  <2> HIDE DEF S
  <2> QED
    BY <1>2, MinOfNaturals
<1>4. Budget(p) \in 0 .. MaxSize
  <2> HIDE DEF p
  <2> QED
    BY <1>3, BudgetType
<1>5. MaxSize \in Nat /\ Word \in Nat \ {0} /\ MaxSize < Word
  BY StoreAssumption
<1>6. ASSUME Overflows(n) PROVE ToFree(n, p) \in 0 .. Word - 1
  <2>1. ToFree(n, p) = Word - 1 - Budget(p)
    BY <1>6 DEF ToFree
  <2> HIDE DEF n, p
  <2> QED
    BY <1>4, <1>5, <2>1
<1>7. ASSUME ~Overflows(n) PROVE ToFree(n, p) \in 0 .. Word - 1
  <2> DEFINE d == n + size - Budget(p)
  <2>1. ToFree(n, p) = d % Word
    BY <1>7 DEF ToFree
  <2>3. d \in Int
    <3> HIDE DEF n, p
    <3> QED
      BY <1>1, <1>4
  <2> HIDE DEF d
  <2>2. d % Word \in 0 .. Word - 1
    BY <1>5, <2>3
  <2> HIDE DEF n, p
  <2> QED
    BY <2>1, <2>2
<1>8. ToFree(n, p) \in 0 .. Word - 1
  BY <1>6, <1>7
<1> QED
  BY <1>3, <1>8

(* A phase of scavenging keeps the invariant.                              *)
LEMMA ScavengeStep ==
    ASSUME StoreInv, NEW t \in Threads, Scavenge(t)
    PROVE  StoreInv'
<1> DEFINE p == Min(Scavenging(request[t], phase[t]))
           f == ToFree(request[t], p)
<1>1. /\ pc[t] = "malloc" /\ Evictable(refs) # {}
      /\ Scavenging(request[t], phase[t]) # {}
      /\ need' = [need EXCEPT ![t] = f]
      /\ phase' = [phase EXCEPT ![t] = p + 1]
      /\ ScavengeOne(t, 0)
      /\ UNCHANGED <<keyVars, kept, closed, then, wanted, request, prev, grown>>
  BY DEF Scavenge
<1>2. p \in Nat /\ f \in 0 .. Word - 1
  BY <1>1, ScavengingType
<1> HIDE DEF p, f
<1>3. /\ need' \in [Threads -> 0 .. Word - 1] /\ phase' \in [Threads -> Nat]
      /\ \A u \in Threads : u # t => need'[u] = need[u]
  BY <1>1, <1>2 DEF StoreInv, TypeOK
<1> QED
  BY <1>1, <1>3, ScavengeOneStep

(* The end of a phase keeps the invariant.                                 *)
LEMMA ScavengedStep ==
    ASSUME StoreInv, NEW t \in Threads, Scavenged(t)
    PROVE  StoreInv'
<1>1. /\ pc[t] = "scavenge" /\ prev[t] = NoVal /\ dropping[t] = NoVal
      /\ UNCHANGED <<keyVars, kept, closed, then, wanted, request, phase, need, prev, grown>>
  BY DEF StoreInv, Control, Scavenged, At
<1>2. CASE count[t] < need[t] /\ Evictable(refs) # {}
  <2>1. ScavengeOne(t, count[t])
    BY <1>2 DEF Scavenged
  <2>2. /\ count[t] \in Nat
        /\ need' \in [Threads -> 0 .. Word - 1] /\ phase' \in [Threads -> Nat]
        /\ \A u \in Threads : u # t => need'[u] = need[u]
    BY <1>1 DEF StoreInv, TypeOK
  <2> QED
    BY <1>1, <1>2, <2>1, <2>2, ScavengeOneStep
<1>3. CASE ~(count[t] < need[t] /\ Evictable(refs) # {})
  <2>1. pc' = [pc EXCEPT ![t] = "malloc"] /\ UNCHANGED <<lru, table, size, refs, dropping, count>>
    BY <1>3 DEF Scavenged, Goto, storeVars
  <2>2. TypeOK'
    BY <1>1, <2>1 DEF StoreInv, TypeOK, keyVars
  <2>3. Control'
    BY <1>1, <2>1 DEF StoreInv, TypeOK, Control
  <2>4. Loads'
    <3>1. Listed' \subseteq Listed
      BY <2>1 DEF Listed
    <3>2. Storing' \subseteq Storing
      BY <1>1, <2>1 DEF StoreInv, TypeOK, Storing
    <3> QED
      BY <1>1, <3>1, <3>2, LoadsKept DEF StoreInv
  <2>5. Pending' \subseteq Pending
    BY <1>1, <2>1 DEF StoreInv, TypeOK, Pending
  <2> QED
    BY <1>1, <2>1, <2>2, <2>3, <2>4, <2>5, QuietStep DEF storeVars
<1> QED
  BY <1>2, <1>3

(* ensure_space evicts a value and pins the one before it.                 *)
LEMMA EvictAtStep ==
    ASSUME StoreInv, NEW t \in Threads, NEW i \in Evictable(Unpinned(t)), NEW sofar \in Nat,
           pc[t] \in {"store", "space"}, EvictAt(t, Unpinned(t), i, sofar),
           UNCHANGED <<keyVars, kept, closed, then, wanted, request, phase, grown>>,
           need' \in [Threads -> 0 .. Word - 1], need'[t] > 0,
           \A u \in Threads : u # t => need'[u] = need[u]
    PROVE  StoreInv'
<1> DEFINE v == lru[i]
           p == IF i = 1 THEN NoVal ELSE lru[i - 1]
<1>1. /\ i \in DOMAIN lru /\ v \in Listed /\ v \in Vals /\ refs[v] - Is(v, prev[t]) = 1
      /\ \A u \in Threads : v \notin kept[u] /\ (u # t => prev[u] # v)
  BY EvictableMeans
<1>2. /\ Evict(t, v) /\ refs' = Pinned(Unpinned(t), v, p)
      /\ prev' = [prev EXCEPT ![t] = p]
      /\ count' = [count EXCEPT ![t] = sofar + WeightOf(v)]
      /\ pc' = [pc EXCEPT ![t] = "space"]
  BY DEF EvictAt, Goto
<1>3. p \in Vals \cup {NoVal} /\ (p # NoVal => p \in Listed \ {v})
  <2>1. CASE i = 1
    BY <2>1
  <2>2. CASE i # 1
    <3>1. /\ i - 1 \in DOMAIN lru /\ i - 1 # i
      BY <1>1, <2>2, ListedType DEF StoreInv
    <3>2. lru[i - 1] \in Vals /\ lru[i - 1] \in Listed
      BY <3>1, ListedType DEF StoreInv
    <3>3. lru[i - 1] # v
      BY <1>1, <3>1 DEF StoreInv, ListedOnce, Once
    <3> QED
      BY <2>2, <3>2, <3>3
  <2> QED
    BY <2>1, <2>2
<1> HIDE DEF v, p
<1>d. Drops(t)
  BY <1>1, <1>2, DropLaterDrops DEF Evict
<1>4. CallsOK'
  <2>1. sofar + WeightOf(v) \in Nat
    BY <1>1, WeightType
  <2> QED
    BY <1>2, <1>3, <1>d, <2>1 DEF Drops, StoreInv, TypeOK, CallsOK
<1>5. Control'
  BY <1>2, <1>d DEF Drops, StoreInv, TypeOK, Control
<1>6. Listed' = Listed \ {v}
  BY <1>1, <1>2, EvictLists
<1>7. prev'[t] = p /\ \A u \in Threads : u # t => prev'[u] = prev[u]
  BY <1>2 DEF StoreInv, TypeOK
<1>8. Counts(t)
  <2>1. \A u \in Vals : Unpinned(t)[u] = refs[u] - Is(u, prev[t])
    BY DEF Unpinned, Is
  <2>2. refs' = [u \in Vals |->
           Unpinned(t)[u] - (IF u = v THEN 1 ELSE 0) + (IF u = p THEN 1 ELSE 0)]
    BY <1>2 DEF Pinned
  <2>3. \A u \in Vals :
           Unpinned(t)[u] - (IF u = v THEN 1 ELSE 0) + (IF u = p THEN 1 ELSE 0)
             = refs[u] - Is(u, prev[t]) - Is(u, v) + Is(u, prev'[t])
    BY <1>7, <2>1 DEF Is
  <2>4. refs' = [u \in Vals |-> refs[u] - Is(u, prev[t]) - Is(u, v) + Is(u, prev'[t])]
    BY <2>2, <2>3, Zenon
  <2> QED
    BY <1>1, <1>6, <2>4, CountsEvicted
<1>9. /\ pc[t] \notin {"swap", "undefined"} /\ pc'[t] # "insert"
      /\ \A u \in Threads : u # t => pc'[u] = pc[u] /\ prev'[u] = prev[u] /\ prev[u] # v
      /\ prev'[t] # NoVal => prev'[t] \in Listed \ {v}
  BY <1>1, <1>2, <1>3, <1>7 DEF StoreInv, TypeOK
<1> QED
  BY <1>1, <1>2, <1>4, <1>5, <1>8, <1>9, EvictStep

(* A call of ensure_space evicts, or fails with nothing pinned.            *)
LEMMA EnsureSpaceStep ==
    ASSUME StoreInv, NEW t \in Threads, NEW tofree \in 1 .. Word - 1,
           pc[t] \in {"store", "space"}, dropping[t] = NoVal, EnsureSpace(t, Unpinned(t), tofree),
           UNCHANGED <<keyVars, kept, closed, then, wanted, request, phase, grown>>
    PROVE  StoreInv'
<1> DEFINE r == Unpinned(t)
           E == Evictable(r)
           weight == [i \in E |-> WeightOf(lru[i])]
           enough == SumFunction(weight) >= tofree
<1>0. tofree \in 0 .. Word - 1 /\ tofree > 0 /\ tofree \in Nat
  BY StoreAssumption
<1>1. CASE enough
  <2>1. EvictAt(t, r, Max(E), 0) /\ need' = [need EXCEPT ![t] = tofree]
    BY <1>1 DEF EnsureSpace
  <2>2. E # {}
    <3>1. ASSUME E = {} PROVE FALSE
      <4>1. SumFunction(weight) = SumFunctionOnSet(weight, DOMAIN weight) /\ DOMAIN weight = {}
        BY <3>1 DEF SumFunction
      <4> HIDE DEF weight
      <4>2. SumFunction(weight) = 0
        BY <4>1, SumEmpty
      <4> QED
        BY <1>0, <1>1, <4>2
    <3> QED
      BY <3>1
  <2>3. E \in SUBSET DOMAIN lru
    BY DEF Evictable
  <2>4. Max(E) \in E
    <3> HIDE DEF E
    <3> QED
      BY <2>2, <2>3, LastPlace DEF StoreInv
  <2>5. /\ need' \in [Threads -> 0 .. Word - 1] /\ need'[t] > 0
        /\ \A u \in Threads : u # t => need'[u] = need[u]
    BY <1>0, <2>1 DEF StoreInv, TypeOK
  <2> DEFINE m == Max(E)
  <2>6. m \in Evictable(Unpinned(t)) /\ EvictAt(t, Unpinned(t), m, 0)
    BY <2>1, <2>4
  <2> HIDE DEF m, E, r
  <2>7. 0 \in Nat
    OBVIOUS
  <2> QED
    BY <2>5, <2>6, <2>7, EvictAtStep
<1>2. CASE ~enough
  <2>1. /\ pc' = [pc EXCEPT ![t] = "failed"] /\ refs' = r
        /\ prev' = [prev EXCEPT ![t] = NoVal]
        /\ UNCHANGED <<lru, table, size, dropping, need, count>>
    BY <1>2 DEF EnsureSpace, Goto, storeVars
  <2> HIDE DEF enough
  <2>2. CallsOK' /\ Control'
    BY <2>1 DEF StoreInv, TypeOK, CallsOK, Control
  <2>3. /\ lru' \in Seq(Vals) /\ ListedOnce' /\ Listed' = Listed
        /\ size' \in Nat /\ size' >= size /\ size' <= MaxSize
    BY <2>1 DEF StoreInv, TypeOK, Listed, ListedOnce, SizesCovered
  <2>4. Loads'
    <3>1. Storing' \subseteq Storing
      BY <2>1 DEF StoreInv, TypeOK, Storing
    <3> QED
      BY <2>3, <3>1, LoadsKept DEF StoreInv
  <2>5. Pending' \subseteq Pending
    BY <2>1 DEF StoreInv, TypeOK, Pending
  <2>6. /\ OneMoves(kept, prev, kept', prev', t) /\ prev'[t] = NoVal
        /\ OthersLoad(t) /\ NoneGrow
    BY <2>1 DEF StoreInv, TypeOK, OneMoves, OthersLoad, NoneGrow
  <2>7. Counts(t)
    <3>1. \A x, S : Has(x, S) \in Nat /\ Is(x, S) \in Nat
      BY DEF Has, Is
    <3>2. \A u \in Vals : Is(u, prev'[t]) = 0 /\ refs[u] \in Nat
      BY <2>6, StoreAssumption DEF Is, StoreInv, TypeOK
    <3>3. \A u \in Vals : refs[u] - (IF u = prev[t] THEN 1 ELSE 0)
             = refs[u] - Has(u, kept[t]) + Has(u, kept'[t]) - Has(u, Listed) + Has(u, Listed')
                 - Is(u, prev[t]) + Is(u, prev'[t])
      <4> SUFFICES ASSUME NEW u \in Vals
                   PROVE  refs[u] - (IF u = prev[t] THEN 1 ELSE 0)
                            = refs[u] - Has(u, kept[t]) + Has(u, kept'[t])
                               - Has(u, Listed) + Has(u, Listed') - Is(u, prev[t]) + Is(u, prev'[t])
        OBVIOUS
      <4>1. Has(u, kept'[t]) = Has(u, kept[t]) /\ Has(u, Listed') = Has(u, Listed)
        BY <2>3
      <4>2. (IF u = prev[t] THEN 1 ELSE 0) = Is(u, prev[t])
        BY DEF Is
      <4> QED
        BY <3>1, <3>2, <4>1, <4>2
    <3> QED
      BY <2>1, <3>3, Zenon DEF Counts, Unpinned
  <2> QED
    BY <2>1, <2>2, <2>3, <2>4, <2>5, <2>6, <2>7, SameListStep
<1> QED
  BY <1>1, <1>2

(* The first call of ensure_space of fz_store_item keeps the invariant.    *)
LEMMA MakeRoomStep ==
    ASSUME StoreInv, NEW t \in Threads, MakeRoom(t)
    PROVE  StoreInv'
<1> DEFINE w == WeightOf(wanted[t])
           f == size + w - MaxSize
<1>1. pc[t] = "store" /\ then[t] = "store" /\ prev[t] = NoVal /\ wanted[t] \in Vals
      /\ dropping[t] = NoVal
  BY DEF StoreInv, TypeOK, Control, Loads, MakeRoom
<1>2. f \in 1 .. Word - 1
  <2>1. w \in Nat /\ MaxSize + w < Word /\ MaxSize \in Nat /\ Word \in Nat
    BY <1>1, WeightType
  <2>2. size \in Nat /\ size <= MaxSize /\ size + w > MaxSize
    <3>1. size \in Nat /\ size <= MaxSize /\ ~(size + w <= MaxSize)
      BY DEF StoreInv, TypeOK, SizesCovered, MakeRoom, Fits
    <3> HIDE DEF w
    <3> QED
      BY <2>1, <3>1
  <2> HIDE DEF w
  <2> QED
    BY <2>1, <2>2
<1>3. refs = Unpinned(t)
  <2>1. \A u \in Vals : refs[u] \in Nat /\ u # NoVal
    BY StoreAssumption DEF StoreInv, TypeOK
  <2>2. refs = [u \in Vals |-> refs[u]]
    BY DEF StoreInv, TypeOK
  <2>3. \A u \in Vals : refs[u] - (IF u = prev[t] THEN 1 ELSE 0) = refs[u]
    BY <1>1, <2>1
  <2> QED
    BY <2>2, <2>3, Zenon DEF Unpinned
<1>4. /\ EnsureSpace(t, refs, f)
      /\ UNCHANGED <<keyVars, kept, closed, then, wanted, request, phase, grown>>
  BY DEF MakeRoom
<1>5. EnsureSpace(t, Unpinned(t), f)
  BY <1>3, <1>4
<1> HIDE DEF f
<1> QED
  BY <1>1, <1>2, <1>4, <1>5, EnsureSpaceStep

(* ensure_space that has the lock again keeps the invariant: it goes on    *)
(* with its walk, ends, or is called once more.                            *)
LEMMA MakeMoreRoomStep ==
    ASSUME StoreInv, NEW t \in Threads, MakeMoreRoom(t)
    PROVE  StoreInv'
<1> DEFINE r == Unpinned(t)
           Left == IF prev[t] = NoVal \/ count[t] >= need[t] THEN {}
                   ELSE {i \in Evictable(r) : i <= Place(prev[t])}
<1>1. /\ pc[t] = "space" /\ dropping[t] = NoVal
      /\ UNCHANGED <<keyVars, kept, closed, then, wanted, request, phase, grown>>
      /\ IF Left # {}
           THEN EvictAt(t, r, Max(Left), count[t]) /\ UNCHANGED need
           ELSE EnsureSpace(t, r, need[t])
  BY DEF MakeMoreRoom, At, Unpinned
<1>2. /\ need \in [Threads -> 0 .. Word - 1] /\ need[t] > 0 /\ need[t] \in 1 .. Word - 1
      /\ count[t] \in Nat
  <2>1. need \in [Threads -> 0 .. Word - 1] /\ need[t] > 0 /\ count[t] \in Nat
    BY <1>1 DEF StoreInv, TypeOK, Control
  <2>2. Word \in Nat
    BY StoreAssumption
  <2> QED
    BY <2>1, <2>2
<1>3. CASE Left # {}
  <2>1. Left \subseteq Evictable(r)
    OBVIOUS
  <2>2. Left \in SUBSET DOMAIN lru
    <3>1. Evictable(r) \subseteq DOMAIN lru
      BY DEF Evictable
    <3> HIDE DEF Left
    <3> QED
      BY <2>1, <3>1
  <2> DEFINE m == Max(Left)
  <2>3. EvictAt(t, r, m, count[t]) /\ need' = need
    BY <1>1, <1>3
  <2>4. m \in Left
    <3> HIDE DEF Left
    <3> QED
      BY <1>3, <2>2, LastPlace DEF StoreInv
  <2>5. m \in Evictable(Unpinned(t)) /\ EvictAt(t, Unpinned(t), m, count[t])
    <3> HIDE DEF Left, m
    <3> QED
      BY <2>1, <2>3, <2>4
  <2> HIDE DEF Left, m, r
  <2>6. /\ need' \in [Threads -> 0 .. Word - 1] /\ need'[t] > 0
        /\ \A u \in Threads : u # t => need'[u] = need[u]
    BY <1>2, <2>3
  <2> QED
    BY <1>1, <1>2, <2>5, <2>6, EvictAtStep
<1>4. CASE Left = {}
  <2>1. EnsureSpace(t, Unpinned(t), need[t])
    BY <1>1, <1>4
  <2> HIDE DEF Left
  <2> QED
    BY <1>1, <1>2, <2>1, EnsureSpaceStep
<1> QED
  BY <1>3, <1>4

(* fz_empty_store evicts what is listed, held or not.                      *)
LEMMA EmptyStoreStep ==
    ASSUME StoreInv, NEW t \in Threads, EmptyStore(t)
    PROVE  StoreInv'
<1>1. pc[t] = "empty" /\ closed /\ prev[t] = NoVal /\ dropping[t] = NoVal
      /\ UNCHANGED <<keyVars, kept, closed>>
  BY DEF StoreInv, Control, EmptyStore, At
<1>2. \A u \in Threads : prev[u] = NoVal
  <2> SUFFICES ASSUME NEW u \in Threads, prev[u] # NoVal PROVE FALSE
    OBVIOUS
  <2>1. then[u] = "return" /\ pc[u] \in {"space", "undefined"}
    BY <1>1 DEF StoreInv, Control
  <2>2. pc[u] = "undefined"
    BY <2>1 DEF StoreInv, Control
  <2> QED
    BY <1>1, <2>2 DEF StoreInv, Control
<1>3. CASE lru = <<>>
  BY <1>1, <1>3, ReturnStep DEF EmptyStore
<1>4. CASE lru # <<>>
  <2> DEFINE v == Head(lru)
  <2>1. /\ Evict(t, v) /\ refs' = [refs EXCEPT ![v] = @ - 1]
        /\ UNCHANGED <<pc, then, wanted, request, phase, need, count, prev, grown>>
    BY <1>4 DEF EmptyStore, callVars, spaceVars
  <2>2. v \in Listed /\ v \in Vals
    <3>1. v = lru[1] /\ 1 \in DOMAIN lru
      BY <1>4 DEF StoreInv, TypeOK
    <3> QED
      BY <3>1, ListedType DEF StoreInv
  <2> HIDE DEF v
  <2>d. Drops(t)
    BY <2>1, <2>2, DropLaterDrops DEF Evict
  <2>3. CallsOK' /\ Control'
    BY <1>1, <2>1, <2>d DEF Drops, StoreInv, TypeOK, CallsOK, Control
  <2>4. Listed' = Listed \ {v}
    BY <2>1, <2>2, EvictLists
  <2>5. Counts(t)
    <3>1. \A u \in Vals : refs[u] \in Nat /\ Is(u, prev[t]) = 0 /\ Is(u, prev'[t]) = 0
      BY <1>1, <2>1, StoreAssumption DEF StoreInv, TypeOK, Is
    <3>2. refs' = [u \in Vals |-> IF u = v THEN refs[v] - 1 ELSE refs[u]]
      BY <2>1 DEF StoreInv, TypeOK
    <3>3. \A u \in Vals : (IF u = v THEN refs[v] - 1 ELSE refs[u])
                             = refs[u] - Is(u, prev[t]) - Is(u, v) + Is(u, prev'[t])
      BY <2>2, <3>1 DEF Is
    <3>4. refs' = [u \in Vals |-> refs[u] - Is(u, prev[t]) - Is(u, v) + Is(u, prev'[t])]
      BY <3>2, <3>3, Zenon
    <3> QED
      BY <1>1, <2>2, <2>4, <3>4, CountsEvicted
  <2>6. v # NoVal
    BY <2>2, StoreAssumption
  <2>7. /\ pc[t] \notin {"swap", "undefined"} /\ pc'[t] # "insert"
        /\ \A u \in Threads : u # t => pc'[u] = pc[u] /\ prev'[u] = prev[u] /\ prev[u] # v
        /\ prev'[t] # NoVal => prev'[t] \in Listed \ {v}
    BY <1>1, <1>2, <2>1, <2>6
  <2> QED
    BY <1>1, <2>1, <2>2, <2>3, <2>5, <2>7, EvictStep
<1> QED
  BY <1>3, <1>4

-----------------------------------------------------------------------------
(* Storing *)

(* The references of keys, like those of values.                           *)
LEMMA KeysCount ==
    ListedOnce /\ leaked \in [Vals -> Nat] =>
      (KeysExact <=> \A v \in Vals :
                       IsTile(v) => keyRefs[v] = References(Own, Listed, dropping, v) + leaked[v])
<1> SUFFICES ASSUME ListedOnce, leaked \in [Vals -> Nat]
             PROVE  KeysExact <=>
                      \A v \in Vals : IsTile(v) =>
                        keyRefs[v] = References(Own, Listed, dropping, v) + leaked[v]
  OBVIOUS
<1>1. ASSUME NEW v \in Vals
      PROVE  References(Own, Listed, dropping, v) + leaked[v]
               = Cardinality({u \in Threads : v \in Own[u]})
                   + Cardinality({i \in DOMAIN lru : lru[i] = v})
                   + Cardinality({u \in Threads : dropping[u] = v})
                   + leaked[v]
  <2> DEFINE l == leaked[v]
             z == 0
             n == References(Own, Listed, dropping, v)
             a == Cardinality({u \in Threads : v \in Own[u]})
             b == Cardinality({i \in DOMAIN lru : lru[i] = v})
             c == Cardinality({u \in Threads : dropping[u] = v})
  <2>1. Once(lru) /\ Listed = ToSet(lru) /\ l \in Nat /\ z \in Nat
    BY DEF ListedOnce, Listed
  <2>2. n + (z + l) = a + b + c + z + l
    <3> HIDE DEF l, z
    <3> QED
      BY <2>1, RefsAreExact, SMTT(30)
  <2>3. n \in Nat /\ b \in Nat
    BY <2>1, ReferencesPositive, PlacesCount DEF Has
  <2>4. a \in Nat /\ c \in Nat
    <3> DEFINE A == {u \in Threads : v \in Own[u]}
               C == {u \in Threads : dropping[u] = v}
    <3>1. A \in SUBSET Threads /\ C \in SUBSET Threads
      OBVIOUS
    <3> HIDE DEF A, C
    <3>2. Cardinality(A) \in Nat /\ Cardinality(C) \in Nat
      BY <3>1, FS_Subset, FS_CardinalityType, StoreAssumption
    <3> QED
      BY <3>2 DEF A, C
  <2> HIDE DEF l, n, a, b, c
  <2>5. n + l = a + b + c + l
    BY <2>1, <2>2, <2>3, <2>4
  <2> QED
    BY <2>5 DEF l, n, a, b, c
<1> QED
  BY <1>1 DEF KeysExact

(* A tile that is listed, stored or dropped has its key.                   *)
LEMMA KeysMean ==
    ASSUME TypeOK, ListedOnce, KeysExact, NEW v \in Vals, IsTile(v),
           v \in Listed \/ (\E t \in Threads : v \in Own[t] \/ dropping[t] = v)
    PROVE  keyRefs[v] > 0
<1> DEFINE n == References(Own, Listed, dropping, v)
<1>1. keyRefs[v] = n + leaked[v] /\ leaked[v] \in Nat
  BY KeysCount DEF TypeOK
<1>2. n \in Nat /\ n > 0
  BY ReferencesPositive
<1> HIDE DEF n
<1> QED
  BY <1>1, <1>2

(* The item refers to the key of a tile, which has been made.              *)
KeyTaken(t) ==
    keyRefs' = IF IsTile(wanted[t]) THEN [keyRefs EXCEPT ![wanted[t]] = @ + 1] ELSE keyRefs

(* This makes no key and frees none.                                       *)
LEMMA KeyTakenKeeps ==
    ASSUME KeyedInv, NEW t \in Threads, then[t] \in {"store", "resize"}, KeyTaken(t)
    PROVE  /\ keyRefs' \in [Vals -> Nat]
           /\ \A u \in Vals : IsTile(u) => (keyRefs'[u] > 0 <=> keyRefs[u] > 0)
<1>1. wanted[t] \in Vals /\ wanted[t] \in Own[t]
  BY DEF KeyedInv, StoreInv, TypeOK, Loads, Own
<1>2. IsTile(wanted[t]) => keyRefs[wanted[t]] > 0
  BY <1>1, KeysMean DEF KeyedInv, StoreInv
<1>3. keyRefs \in [Vals -> Nat]
  BY DEF KeyedInv, StoreInv, TypeOK
<1> QED
  BY <1>1, <1>2, <1>3 DEF KeyTaken

(* What a thread stores is a value of its own.                             *)
LEMMA StoringMeans ==
    ASSUME StoreInv, NEW t \in Threads, pc[t] \in {"store", "insert", "resize"}
    PROVE  /\ wanted[t] \in kept[t] /\ wanted[t] \in Vals /\ wanted[t] \notin Listed
           /\ t \in Storing /\ prev[t] = NoVal /\ ~closed
           /\ dropping[t] = NoVal
           /\ then[t] = IF pc[t] = "store" THEN "store" ELSE "resize"
           /\ \A v \in kept[t] : KeyOf[v] = KeyOf[wanted[t]] => v = wanted[t]
<1>1. /\ then[t] = IF pc[t] = "store" THEN "store" ELSE "resize"
      /\ prev[t] = NoVal /\ ~closed /\ dropping[t] = NoVal
  BY DEF StoreInv, Control
<1>2. t \in Storing
  BY <1>1 DEF Storing
<1>3. wanted[t] \in kept[t]
  BY <1>1 DEF StoreInv, Loads
<1>4. wanted[t] \in Vals
  BY <1>3 DEF StoreInv, TypeOK
<1>5. /\ wanted[t] \notin Listed
      /\ \A v \in kept[t] : KeyOf[v] = KeyOf[wanted[t]] => v = wanted[t]
  BY <1>2 DEF StoreInv, Loads
<1> QED
  BY <1>1, <1>2, <1>3, <1>4, <1>5

(* The size that a thread counts as it comes to enter its value: one that  *)
(* has enlarged the table has counted it before.                           *)
Counting(t) ==
    /\ size' = size + (IF pc[t] = "store" THEN WeightOf(wanted[t]) ELSE 0)
    /\ size' <= MaxSize

(* A thread that has not enlarged the table has found it not too full.     *)
Entering(t) ==
    pc[t] = "store" /\ KeyOf[wanted[t]] \in Hashed => ~TooFull(table)

(* The value is entered in the list, and in the table if it is hashed.     *)
EntersNew(t) ==
    /\ KeyOf[wanted[t]] \in Hashed => HashFind(table, KeyOf[wanted[t]]) = NoVal
    /\ table' = IF KeyOf[wanted[t]] \in Hashed THEN HashInsert(table, wanted[t]) ELSE table
    /\ lru' = <<wanted[t]>> \o lru
    /\ refs' = [refs EXCEPT ![wanted[t]] = @ + 1]
    /\ KeyTaken(t)
    /\ UNCHANGED <<leaked, kept, closed>>

(* This keeps the invariant: the table has room for the value.             *)
LEMMA EnterNewStep ==
    ASSUME KeyedInv, NEW t \in Threads, pc[t] \in {"store", "insert"},
           Counting(t), Entering(t), EntersNew(t), Return(t)
    PROVE  StoreInv'
<1> SUFFICES ASSUME StoreInv PROVE StoreInv'
  BY DEF KeyedInv
<1> DEFINE v == wanted[t]
<1>1. /\ v \in kept[t] /\ v \in Vals /\ v \notin Listed /\ t \in Storing /\ prev[t] = NoVal
      /\ then[t] = IF pc[t] = "store" THEN "store" ELSE "resize"
  BY StoringMeans
<1>d. Drops(t)
  BY ReturnDrops
<1>2. /\ KeyOf[v] \in Hashed => HashFind(table, KeyOf[v]) = NoVal
      /\ table' = IF KeyOf[v] \in Hashed THEN HashInsert(table, v) ELSE table
      /\ lru' = <<v>> \o lru /\ refs' = [refs EXCEPT ![v] = @ + 1]
      /\ KeyTaken(t) /\ leaked' = leaked /\ kept' = kept /\ closed' = closed
  BY DEF EntersNew
<1> HIDE DEF v
<1>k. /\ keyRefs' \in [Vals -> Nat] /\ leaked' \in [Vals -> Nat]
      /\ \A u \in Vals : Extra(u)' = Extra(u)
  <2>1. /\ keyRefs' \in [Vals -> Nat]
        /\ \A u \in Vals : IsTile(u) => (keyRefs'[u] > 0 <=> keyRefs[u] > 0)
    BY <1>1, <1>2, KeyTakenKeeps
  <2> QED
    BY <1>2, <2>1, ExtraStays DEF StoreInv, TypeOK
<1>3. /\ lru' \in Seq(Vals) /\ ListedOnce' /\ Listed' = Listed \cup {v}
      /\ TableListed' /\ SizeOf(table') = SizeOf(table)
      /\ Load(table') \in Nat /\ Load(table') <= Load(table) + 1
      /\ SumFunctionOnSet(ValueWeight, Listed')
           = SumFunctionOnSet(ValueWeight, Listed) + WeightOf(v)
  BY <1>1, <1>2, EnterEffect, SMTT(60) DEF StoreInv
<1>4. WeightOf(v) \in Nat /\ size \in Nat /\ size' \in Nat
  BY <1>1, WeightType, SMTT(30) DEF StoreInv, TypeOK, Counting, v
<1>5. CallsOK' /\ prev' = prev
  <2>1. 0 \in 0 .. Word - 1
    BY StoreAssumption
  <2> QED
    BY <1>1, <1>2, <1>d, <2>1 DEF Drops, StoreInv, TypeOK, CallsOK, Loading, Return, Goto
<1>6. Control'
  <2>1. /\ pc'[t] = "idle" /\ then'[t] = "return" /\ closed' = closed
        /\ \A u \in Threads : u # t =>
              pc'[u] = pc[u] /\ then'[u] = then[u] /\ need'[u] = need[u]
    BY <1>2 DEF StoreInv, TypeOK, Return, Goto
  <2>2. pc[t] # "undefined" /\ prev'[t] = NoVal
    BY <1>1, <1>5
  <2> QED
    BY <1>d, <1>5, <2>1, <2>2 DEF Drops, StoreInv, Control
<1>7. /\ then'[t] = "return" /\ pc'[t] = "idle"
      /\ \A u \in Threads : u # t =>
            then'[u] = then[u] /\ wanted'[u] = wanted[u] /\ pc'[u] = pc[u] /\ grown'[u] = grown[u]
  BY DEF StoreInv, TypeOK, Return, Goto
<1>8. RefsExact' /\ refs' \in [Vals -> Nat]
  <2> DEFINE L2 == Listed'
             r == [u \in Vals |->
                     refs[u] - Has(u, kept[t]) + Has(u, kept'[t]) - Has(u, Listed) + Has(u, L2)
                       - Is(u, prev[t]) + Is(u, prev'[t])]
  <2>1. OneMoves(kept, prev, kept', prev', t)
    BY <1>2, <1>5 DEF OneMoves
  <2>2. refs' = [u \in Vals |-> IF u = v THEN refs[v] + 1 ELSE refs[u]]
    BY <1>1, <1>2 DEF StoreInv, TypeOK
  <2>3. ASSUME NEW u \in Vals
        PROVE  r[u] = IF u = v THEN refs[v] + 1 ELSE refs[u]
    <3> DEFINE a == Has(u, kept[t])
               b == Has(u, Listed)
               c == Has(u, L2)
               d == Is(u, prev[t])
               n == IF u = v THEN 1 ELSE 0
    <3>1. a \in Nat /\ b \in Nat /\ c \in Nat /\ d \in Nat
      BY DEF Has, Is
    <3>2. c - b = n
      <4> HIDE DEF Listed, L2
      <4>1. v \notin Listed /\ L2 = Listed \cup {v}
        BY <1>1, <1>3 DEF L2
      <4> QED
        BY <4>1 DEF Has
    <3>3. kept' = kept /\ prev' = prev
      BY <1>2, <1>5
    <3>4. r[u] = refs[u] - a + a - b + c - d + d
      BY <3>3
    <3>5. refs[u] \in Nat
      BY DEF StoreInv, TypeOK
    <3>6. (IF u = v THEN refs[v] + 1 ELSE refs[u]) = refs[u] + n
      BY <3>5
    <3> HIDE DEF a, b, c, d, r
    <3>7. r[u] = refs[u] + n
      BY <3>1, <3>2, <3>4, <3>5
    <3> QED
      BY <3>6, <3>7
  <2>4. Counts(t)
    <3>1. r = [u \in Vals |-> r[u]]
      OBVIOUS
    <3>2. r = refs'
      <4> HIDE DEF r
      <4> QED
        BY <2>2, <2>3, <3>1
    <3> QED
      BY <3>2, Zenon DEF Counts, r, L2
  <2> QED
    BY <1>3, <1>k, <2>1, <2>4, CountedStep
<1>9. TypeOK'
  <2>1. Table(table', SizeOf(table'), Vals)
    BY <1>3 DEF TableListed, WellFormed
  <2>2. DOMAIN table' \subseteq Nat /\ \A i \in DOMAIN table' : table'[i] \in Vals \cup {NoVal}
    <3> DEFINE tb == table'
               N == SizeOf(table')
    <3>1. Table(tb, N, Vals)
      BY <2>1
    <3> HIDE DEF tb, N
    <3>2. DOMAIN tb \subseteq Nat /\ \A i \in DOMAIN tb : tb[i] \in Vals \cup {NoVal}
      BY <3>1 DEF Table
    <3> QED
      BY <3>2 DEF tb
  <2> QED
    BY <1>3, <1>4, <1>5, <1>8, <1>k, <2>2 DEF TypeOK, CallsOK
<1>10. PinnedIsListed'
  <2>1. \A u \in Threads : prev'[u] # NoVal => prev'[u] \in Listed'
    BY <1>3, <1>5 DEF StoreInv, PinnedIsListed, Listed
  <2> QED
    BY <2>1 DEF PinnedIsListed, Listed
<1>11. Loads'
  <2> SUFFICES ASSUME NEW u \in Threads
               PROVE /\ then'[u] = "create" =>
                          /\ wanted'[u] \in Keys /\ \A x \in kept'[u] : KeyOf[x] # wanted'[u]
                          /\ wanted'[u] \in Tiles => ImageOf[wanted'[u]] \in kept'[u]
                     /\ then'[u] = "key" => IsTile(wanted'[u]) /\ Image(wanted'[u]) \in kept'[u]
                     /\ then'[u] \in {"key", "store", "resize"} => wanted'[u] \in kept'[u]
                     /\ u \in Storing' =>
                          /\ wanted'[u] \notin Listed'
                          /\ \A x \in kept'[u] : KeyOf[x] = KeyOf[wanted'[u]] => x = wanted'[u]
                          /\ \A w \in Storing' : wanted'[w] = wanted'[u] => w = u
    BY DEF Loads
  <2>1. \A w \in Storing' : w # t /\ w \in Threads /\ w \in Storing /\ wanted'[w] = wanted[w]
    BY <1>7 DEF Storing
  <2>2. CASE u = t
    BY <1>7, <2>1, <2>2
  <2>3. CASE u # t
    <3>1. u \in Storing => wanted[u] \notin Listed' /\ wanted[u] # v
      BY <1>1, <1>3, <2>3 DEF StoreInv, Loads, v
    <3>2. u \in Storing' =>
                          /\ wanted'[u] \notin Listed'
                          /\ \A x \in kept'[u] : KeyOf[x] = KeyOf[wanted'[u]] => x = wanted'[u]
                          /\ \A w \in Storing' : wanted'[w] = wanted'[u] => w = u
      BY <1>2, <1>7, <2>1, <2>3, <3>1 DEF StoreInv, Loads
    <3> QED
      BY <1>2, <1>7, <2>3, <3>2 DEF StoreInv, Loads
  <2> QED
    BY <2>2, <2>3
<1>12. TableHasRoom'
  <2> DEFINE N == SizeOf(table)
  <2>1. /\ N \in Nat \ {0} /\ Load(table) \in Nat
        /\ Pending \in SUBSET Threads /\ IsFiniteSet(Pending) /\ Cardinality(Pending) \in Nat
    BY TableProperties DEF StoreInv
  <2>2. PICK j \in Nat : /\ Room(N, j) /\ Cardinality(Pending) <= j
                         /\ Load(table) + Cardinality(Pending) <= Limit(N) + 1 + j
    BY DEF StoreInv, TableHasRoom
  <2>3. Limit(N) \in Nat
    <3> HIDE DEF N
    <3> QED
      BY <2>1, <2>2, RoomProperties
  <2>l. Load(table') \in Nat /\ Load(table') <= Load(table) + 1
    BY <1>3
  <2>4. Pending' = Pending \ {t}
    BY <1>7 DEF Pending
  <2>5. /\ Cardinality(Pending') \in Nat
        /\ Cardinality(Pending') <= j
        /\ Load(table') + Cardinality(Pending') <= Limit(N) + 1 + j
    <3>1. CASE pc[t] = "insert"
      <4>1. t \in Pending
        BY <3>1 DEF Pending
      <4>2. Cardinality(Pending') = Cardinality(Pending) - 1 /\ Cardinality(Pending') \in Nat
        BY <2>1, <2>4, <4>1, FS_RemoveElement, FS_CardinalityType
      <4> HIDE DEF N
      <4> QED
        BY <2>1, <2>2, <2>3, <2>l, <4>2
    <3>2. CASE pc[t] = "store"
      <4>1. Pending' = Pending
        BY <2>4, <3>2 DEF Pending
      <4>2. CASE KeyOf[v] \in Hashed
        <5>1. ~TooFull(table)
          BY <3>2, <4>2 DEF Entering, v
        <5>2. ~(Load(table) > Limit(N))
          BY <5>1 DEF TooFull, Limit
        <5> HIDE DEF N
        <5> QED
          BY <2>1, <2>2, <2>3, <2>l, <4>1, <5>2
      <4>3. CASE KeyOf[v] \notin Hashed
        <5>1. table' = table
          BY <1>2, <4>3
        <5> HIDE DEF N
        <5> QED
          BY <2>1, <2>2, <4>1, <5>1
      <4> QED
        BY <4>2, <4>3
    <3> QED
      BY <3>1, <3>2
  <2>6. \A u \in Threads :
           then'[u] = "resize" => grown'[u] = 2 * N \/ grown'[u] <= N
    BY <1>7 DEF StoreInv, TableHasRoom
  <2>7. SizeOf(table') = N
    BY <1>3
  <2> HIDE DEF N
  <2> QED
    BY <2>2, <2>5, <2>6, <2>7 DEF TableHasRoom
<1>13. SizesCovered'
  <2> DEFINE e == SumFunctionOnSet(EnteringWeight, Counted)
             e2 == SumFunctionOnSet(EnteringWeight', Counted')
             x == SumFunctionOnSet(ValueWeight, Listed)
             y == SumFunctionOnSet(ValueWeight, Listed')
  <2>1. /\ e \in Nat /\ e2 \in Nat
        /\ e2 = e - (IF then[t] = "resize" THEN WeightOf(v) ELSE 0)
    <3>1. /\ e \in Nat /\ e2 \in Nat
          /\ e2 = e - (IF then[t] = "resize" THEN WeightOf(wanted[t]) ELSE 0)
                    + (IF then'[t] = "resize" THEN WeightOf(wanted'[t]) ELSE 0)
      BY <1>7, EnteringStep DEF StoreInv
    <3> HIDE DEF e, e2
    <3>2. e2 = e - (IF then[t] = "resize" THEN WeightOf(v) ELSE 0) + 0
      BY <1>7, <3>1 DEF v
    <3> QED
      BY <1>4, <3>1, <3>2
  <2>2. x \in Nat /\ x + e <= size /\ y = x + WeightOf(v)
    BY <1>3, ListedType DEF StoreInv, SizesCovered
  <2>3. size' = size + (IF pc[t] = "store" THEN WeightOf(v) ELSE 0) /\ size' <= MaxSize
    BY DEF Counting, v
  <2>4. ValueWeight' = ValueWeight
    BY DEF ValueWeight, WeightOf
  <2>5. y + e2 <= size'
    <3> HIDE DEF x, y, e, e2
    <3>1. CASE pc[t] = "store"
      BY <1>1, <1>4, <2>1, <2>2, <2>3, <3>1
    <3>2. CASE pc[t] # "store"
      BY <1>1, <1>4, <2>1, <2>2, <2>3, <3>2
    <3> QED
      BY <3>1, <3>2
  <2> QED
    BY <2>3, <2>4, <2>5 DEF SizesCovered
<1> QED
  BY <1>3, <1>6, <1>8, <1>9, <1>10, <1>11, <1>12, <1>13 DEF StoreInv

(* What the table has for the key of a value that is not listed.           *)
LEMMA ExistingMeans ==
    ASSUME StoreInv, NEW t \in Threads, pc[t] \in {"store", "insert"},
           KeyOf[wanted[t]] \in Hashed, NEW x, x = HashFind(table, KeyOf[wanted[t]]), x # NoVal
    PROVE  /\ x \in Vals /\ x \notin kept[t]
           /\ KeyOf[x] = KeyOf[wanted[t]]
<1>1. /\ wanted[t] \in Vals /\ wanted[t] \notin Listed /\ prev[t] = NoVal
      /\ then[t] = IF pc[t] = "store" THEN "store" ELSE "resize"
      /\ \A v \in kept[t] : KeyOf[v] = KeyOf[wanted[t]] => v = wanted[t]
  BY StoringMeans
<1>2. x \in Listed /\ KeyOf[x] = KeyOf[wanted[t]]
  <2> DEFINE k == KeyOf[wanted[t]]
  <2>1. k \in Keys /\ k \in Hashed
    BY <1>1, WeightType
  <2> HIDE DEF k
  <2>2. HashFind(table, k) # NoVal => HashFind(table, k) \in Listed /\ KeyOf[HashFind(table, k)] = k
    BY <2>1, FindEffect DEF StoreInv
  <2> QED
    BY <2>2 DEF k
<1>3. x \in Vals /\ x \notin kept[t]
  BY <1>1, <1>2, ListedType DEF StoreInv
<1> QED
  BY <1>2, <1>3

(* The key of a tile is there by now: the thread takes a reference to its  *)
(* value, and the one to its own key is lost.                              *)
LEMMA EnterExistingStep ==
    ASSUME KeyedInv, NEW t \in Threads, pc[t] \in {"store", "insert"}, Counting(t),
           KeyOf[wanted[t]] \in Hashed, NEW x, x = HashFind(table, KeyOf[wanted[t]]), x # NoVal,
           IsTile(wanted[t]), KeyTaken(t),
           refs' = [refs EXCEPT ![x] = @ + 1],
           leaked' = [leaked EXCEPT ![wanted[t]] = @ + 1],
           kept' = [kept EXCEPT ![t] = @ \cup {x}],
           Goto(t, "swap"), UNCHANGED <<lru, table, dropping, callVars, closed>>
    PROVE  StoreInv'
<1> SUFFICES ASSUME StoreInv PROVE StoreInv'
  BY DEF KeyedInv
<1> USE DEF Goto, callVars, spaceVars
<1>1. /\ wanted[t] \in Vals /\ wanted[t] \notin Listed /\ prev[t] = NoVal /\ dropping[t] = NoVal
      /\ then[t] = IF pc[t] = "store" THEN "store" ELSE "resize"
      /\ \A v \in kept[t] : KeyOf[v] = KeyOf[wanted[t]] => v = wanted[t]
  BY StoringMeans
<1>2. x \in Vals /\ x \notin kept[t]
  BY ExistingMeans
<1>3. /\ keyRefs' \in [Vals -> Nat] /\ leaked' \in [Vals -> Nat]
      /\ \A v \in Vals : Extra(v)' = Extra(v)
  <2>1. leaked' \in [Vals -> Nat] /\ \A v \in Vals : v # wanted[t] => leaked'[v] = leaked[v]
    BY <1>1 DEF StoreInv, TypeOK
  <2>2. /\ keyRefs' \in [Vals -> Nat]
        /\ \A u \in Vals : IsTile(u) => (keyRefs'[u] > 0 <=> keyRefs[u] > 0)
    BY <1>1, KeyTakenKeeps
  <2> QED
    BY <2>1, <2>2, ExtraStays
<1>4. CallsOK'
  BY <1>2 DEF StoreInv, TypeOK, CallsOK
<1>5. Control'
  BY <1>1 DEF StoreInv, TypeOK, Control
<1>6. /\ kept'[t] = kept[t] \cup {x} /\ pc'[t] = "swap"
      /\ \A u \in Threads : u # t => kept'[u] = kept[u] /\ pc'[u] = pc[u]
  BY DEF StoreInv, TypeOK
<1>7. Listed' = Listed /\ ListedOnce' /\ lru' \in Seq(Vals)
  BY DEF StoreInv, TypeOK, Listed, ListedOnce
<1>8. Loads'
  <2> SUFFICES ASSUME NEW u \in Threads
               PROVE /\ then'[u] = "create" =>
                          /\ wanted'[u] \in Keys /\ \A v \in kept'[u] : KeyOf[v] # wanted'[u]
                          /\ wanted'[u] \in Tiles => ImageOf[wanted'[u]] \in kept'[u]
                     /\ then'[u] = "key" => IsTile(wanted'[u]) /\ Image(wanted'[u]) \in kept'[u]
                     /\ then'[u] \in {"key", "store", "resize"} => wanted'[u] \in kept'[u]
                     /\ u \in Storing' =>
                          /\ wanted'[u] \notin Listed'
                          /\ \A v \in kept'[u] : KeyOf[v] = KeyOf[wanted'[u]] => v = wanted'[u]
                          /\ \A w \in Storing' : wanted'[w] = wanted'[u] => w = u
    BY DEF Loads
  <2>1. \A w \in Storing' : w # t /\ w \in Threads /\ w \in Storing /\ wanted'[w] = wanted[w]
    BY <1>6 DEF Storing
  <2>2. CASE u = t
    <3>1. /\ then'[t] \notin {"create", "key"} /\ wanted'[t] \in kept'[t]
          /\ t \notin Storing'
      BY <1>1, <1>6, <2>1, StoringMeans
    <3> QED
      BY <2>2, <3>1
  <2>3. CASE u # t
    <3>1. u \in Storing' =>
                          /\ wanted'[u] \notin Listed'
                          /\ \A v \in kept'[u] : KeyOf[v] = KeyOf[wanted'[u]] => v = wanted'[u]
                          /\ \A w \in Storing' : wanted'[w] = wanted'[u] => w = u
      BY <1>6, <1>7, <2>1, <2>3 DEF StoreInv, Loads
    <3> QED
      BY <1>6, <2>3, <3>1 DEF StoreInv, Loads
  <2> QED
    BY <2>2, <2>3
<1>9. Counts(t)
  <2>1. Has(x, kept'[t]) - Has(x, kept[t]) = 1
    BY <1>2, <1>6 DEF Has
  <2>2. Takes(t, x, 1)
    BY <1>6, <2>1 DEF Takes
  <2>3. prev'[t] = prev[t]
    OBVIOUS
  <2> QED
    BY <1>2, <1>7, <2>2, <2>3, CountsHeld
<1>10. Pending' \subseteq Pending
  BY <1>6 DEF Pending
<1>11. OneMoves(kept, prev, kept', prev', t) /\ OthersLoad(t) /\ NoneGrow /\ prev'[t] = prev[t]
  BY <1>6 DEF OneMoves, OthersLoad, NoneGrow
<1>12. size' \in Nat /\ size' >= size /\ size' <= MaxSize
  <2>1. size \in Nat /\ WeightOf(wanted[t]) \in Nat
    BY <1>1, WeightType DEF StoreInv, TypeOK
  <2> QED
    BY <2>1 DEF Counting
<1>13. RefsExact' /\ refs' \in [Vals -> Nat]
  BY <1>3, <1>7, <1>9, <1>11, CountedStep
<1> QED
  BY <1>3, <1>4, <1>5, <1>7, <1>8, <1>10, <1>11, <1>12, <1>13, SameValuesStep

(* A count that one value is added to.                                     *)
LEMMA OneMore ==
    ASSUME NEW f \in [Vals -> Nat], NEW x \in Vals
    PROVE  /\ [f EXCEPT ![x] = @ + 1] = [v \in Vals |-> f[v] + Is(v, x)]
           /\ [f EXCEPT ![x] = @ + 1] \in [Vals -> Nat]
<1>1. \A v \in Vals : f[v] \in Nat
  OBVIOUS
<1>2. \A v \in Vals : f[v] + Is(v, x) = IF v = x THEN f[v] + 1 ELSE f[v]
  BY <1>1 DEF Is
<1>3. [f EXCEPT ![x] = @ + 1] = [v \in Vals |-> IF v = x THEN f[v] + 1 ELSE f[v]]
  OBVIOUS
<1>4. [f EXCEPT ![x] = @ + 1] = [v \in Vals |-> f[v] + Is(v, x)]
  BY <1>2, <1>3
<1> QED
  BY <1>1, <1>3, <1>4

(* The key of another object is there by now: what the store returns is    *)
(* forgotten.                                                              *)
LEMMA EnterLostStep ==
    ASSUME StoreInv, NEW t \in Threads, pc[t] \in {"store", "insert"}, Counting(t),
           KeyOf[wanted[t]] \in Hashed, NEW x, x = HashFind(table, KeyOf[wanted[t]]), x # NoVal,
           ~IsTile(wanted[t]),
           refs' = [refs EXCEPT ![x] = @ + 1],
           leaked' = [leaked EXCEPT ![x] = @ + 1],
           Return(t), UNCHANGED <<lru, table, keyRefs, kept, closed>>
    PROVE  StoreInv'
<1>1. wanted[t] \in Vals /\ prev[t] = NoVal
  BY StoringMeans
<1>2. x \in Vals /\ ~IsTile(x)
  <2>1. x \in Vals /\ KeyOf[x] = KeyOf[wanted[t]]
    BY ExistingMeans
  <2> QED
    BY <2>1 DEF IsTile
<1>3. /\ leaked' = [v \in Vals |-> leaked[v] + Is(v, x)]
      /\ refs' = [v \in Vals |-> refs[v] + Is(v, x)]
      /\ leaked' \in [Vals -> Nat] /\ keyRefs' \in [Vals -> Nat] /\ leaked \in [Vals -> Nat]
      /\ refs \in [Vals -> Nat]
  <2>1. leaked \in [Vals -> Nat] /\ refs \in [Vals -> Nat] /\ keyRefs \in [Vals -> Nat]
    BY DEF StoreInv, TypeOK
  <2>2. \A f \in [Vals -> Nat] :
           /\ [f EXCEPT ![x] = @ + 1] = [v \in Vals |-> f[v] + Is(v, x)]
           /\ [f EXCEPT ![x] = @ + 1] \in [Vals -> Nat]
    BY <1>2, OneMore
  <2> QED
    BY <2>1, <2>2
<1>4. prev' = prev
  BY <1>1 DEF StoreInv, TypeOK, Return
<1>5. Drops(t)
  BY ReturnDrops
<1>6. CallsOK'
  <2>1. 0 \in 0 .. Word - 1
    BY StoreAssumption
  <2> QED
    BY <1>5, <2>1 DEF Drops, StoreInv, TypeOK, CallsOK, Return, Goto, Loading
<1>7. /\ pc'[t] = "idle" /\ then'[t] = "return"
      /\ \A u \in Threads : u # t => /\ pc'[u] = pc[u] /\ then'[u] = then[u] /\ need'[u] = need[u]
                                     /\ wanted'[u] = wanted[u] /\ grown'[u] = grown[u]
  BY DEF StoreInv, TypeOK, Return, Goto
<1>8. Control'
  BY <1>1, <1>4, <1>5, <1>7 DEF Drops, StoreInv, Control
<1>9. Listed' = Listed /\ ListedOnce' /\ lru' \in Seq(Vals)
  BY DEF StoreInv, TypeOK, Listed, ListedOnce
<1>10. Loads'
  <2>1. Storing' \subseteq Storing
    BY <1>7 DEF Storing
  <2>2. \A u \in Threads : then'[u] \in Loading =>
              then'[u] = then[u] /\ wanted'[u] = wanted[u] /\ kept'[u] = kept[u]
    BY <1>7 DEF Loading
  <2> QED
    BY <1>9, <2>1, <2>2, LoadsKept DEF StoreInv
<1>11. Pending' \subseteq Pending
  BY <1>7 DEF Pending
<1>12. OneMoves(kept, prev, kept', prev', t) /\ OthersLoad(t) /\ NoneGrow /\ prev'[t] = prev[t]
  BY <1>4, <1>7 DEF OneMoves, OthersLoad, NoneGrow
<1>13. size' \in Nat /\ size' >= size /\ size' <= MaxSize
  <2>1. size \in Nat /\ WeightOf(wanted[t]) \in Nat
    BY <1>1, WeightType DEF StoreInv, TypeOK
  <2> QED
    BY <2>1 DEF Counting
<1>14. RefsExact' /\ refs' \in [Vals -> Nat]
  <2>1. ASSUME NEW v \in Vals
        PROVE  Extra(v)' = Extra(v) + Is(v, x) /\ Extra(v) \in Nat
    <3> DEFINE k == Cardinality(KeysOf(v))
               k2 == Cardinality(KeysOf(v))'
               l == Lost(v)
               l2 == Lost(v)'
    <3>1. k2 = k
      <4>1. KeysOf(v)' = KeysOf(v)
        BY DEF KeysOf, IsTile, Image
      <4> QED
        BY <4>1, Zenon
    <3>2. l2 = l + Is(v, x)
      BY <1>2, <1>3 DEF Lost, Is, IsTile
    <3>3. k \in Nat /\ l \in Nat /\ Is(v, x) \in Nat
      BY <1>3, ExtraType DEF Is
    <3>4. Extra(v)' = k2 + l2 /\ Extra(v) = k + l
      BY DEF Extra
    <3> HIDE DEF k, k2, l, l2
    <3> QED
      BY <3>1, <3>2, <3>3, <3>4
  <2>2. ASSUME NEW v \in Vals
        PROVE  refs'[v] = refs[v] - Has(v, kept[t]) + Has(v, kept'[t])
                             - Has(v, Listed) + Has(v, Listed')
                             - Is(v, prev[t]) + Is(v, prev'[t]) - Extra(v) + Extra(v)'
    <3> DEFINE a == Has(v, kept[t])
               b == Has(v, Listed)
               c == Is(v, prev[t])
               e == Extra(v)
               e2 == Extra(v)'
               n == Is(v, x)
    <3>1. a \in Nat /\ b \in Nat /\ c \in Nat /\ n \in Nat
      BY DEF Has, Is
    <3>2. e2 = e + n /\ e \in Nat
      BY <2>1
    <3>3. refs'[v] = refs[v] + n /\ refs[v] \in Nat
      BY <1>3
    <3>4. a = Has(v, kept'[t]) /\ b = Has(v, Listed') /\ c = Is(v, prev'[t])
      BY <1>4, <1>9
    <3> HIDE DEF a, b, c, e, e2, n
    <3>5. refs'[v] = refs[v] - a + a - b + b - c + c - e + e2
      BY <3>1, <3>2, <3>3
    <3> QED
      BY <3>4, <3>5 DEF a, b, c, e, e2
  <2>3. refs' = [v \in Vals |-> refs'[v]]
    BY <1>3
  <2> QED
    BY <1>3, <1>9, <1>12, <2>2, <2>3, RefsStep DEF StoreInv
<1>15. table' = table /\ prev'[t] \in {prev[t], NoVal}
  BY <1>12
<1> QED
  BY <1>3, <1>6, <1>8, <1>9, <1>10, <1>11, <1>12, <1>13, <1>14, <1>15, SameValuesStep

(* The end of fz_store_item.                                               *)
LEMMA EnterStep ==
    ASSUME KeyedInv, NEW t \in Threads, pc[t] \in {"store", "insert"},
           Counting(t), Entering(t), Enter(t), UNCHANGED closed
    PROVE  StoreInv'
<1> DEFINE v == wanted[t]
           existing == IF KeyOf[v] \in Hashed THEN HashFind(table, KeyOf[v]) ELSE NoVal
<1>1. KeyTaken(t)
  BY DEF Enter, KeyTaken
<1>2. CASE /\ existing = NoVal
           /\ table' = IF KeyOf[v] \in Hashed THEN HashInsert(table, v) ELSE table
           /\ lru' = <<v>> \o lru
           /\ refs' = [refs EXCEPT ![v] = @ + 1]
           /\ Return(t)
           /\ UNCHANGED <<leaked, kept>>
  <2>1. EntersNew(t)
    BY <1>1, <1>2 DEF EntersNew
  <2> QED
    BY <1>2, <2>1, EnterNewStep
<1>3. CASE /\ existing # NoVal /\ IsTile(v)
           /\ refs' = [refs EXCEPT ![existing] = @ + 1]
           /\ leaked' = [leaked EXCEPT ![v] = @ + 1]
           /\ kept' = [kept EXCEPT ![t] = @ \cup {existing}]
           /\ Goto(t, "swap")
           /\ UNCHANGED <<lru, table, dropping, callVars>>
  <2>1. KeyOf[v] \in Hashed /\ existing = HashFind(table, KeyOf[v])
    BY <1>3
  <2> HIDE DEF existing
  <2> QED
    BY <1>1, <1>3, <2>1, EnterExistingStep
<1>4. CASE /\ existing # NoVal /\ ~IsTile(v)
           /\ refs' = [refs EXCEPT ![existing] = @ + 1]
           /\ leaked' = [leaked EXCEPT ![existing] = @ + 1]
           /\ Return(t)
           /\ UNCHANGED <<lru, table, kept>>
  <2>1. KeyOf[v] \in Hashed /\ existing = HashFind(table, KeyOf[v]) /\ keyRefs' = keyRefs
    BY <1>1, <1>4 DEF KeyTaken
  <2> HIDE DEF existing
  <2> QED
    BY <1>4, <2>1, EnterLostStep DEF KeyedInv
<1> QED
  BY <1>2, <1>3, <1>4 DEF Enter

(* The size of the value is counted, and the table is to be enlarged.      *)
LEMMA StoreItemStep ==
    ASSUME KeyedInv, NEW t \in Threads, StoreItem(t)
    PROVE  StoreInv'
<1> SUFFICES ASSUME StoreInv PROVE StoreInv'
  BY DEF KeyedInv
<1> DEFINE v == wanted[t]
<1>1. pc[t] = "store" /\ Fits(v) /\ size' = size + WeightOf(v) /\ UNCHANGED closed
  BY DEF StoreItem
<1>2. Counting(t)
  BY <1>1 DEF Counting, Fits
<1>3. CASE ~(KeyOf[v] \in Hashed /\ TooFull(table)) /\ Enter(t)
  <2>1. Entering(t)
    BY <1>3 DEF Entering
  <2> QED
    BY <1>1, <1>2, <1>3, <2>1, EnterStep
<1>4. CASE /\ grown' = [grown EXCEPT ![t] = 2 * SizeOf(table)]
           /\ Allocate(t, 1, "resize")
           /\ UNCHANGED <<lru, table, refs, keyVars, kept, dropping, wanted, spaceVars>>
  <2> USE DEF Allocate, Goto, spaceVars
  <2>1. /\ v \in kept[t] /\ v \in Vals /\ t \in Storing /\ prev[t] = NoVal
        /\ dropping[t] = NoVal
        /\ then[t] = "store" /\ ~closed
    BY <1>1, StoringMeans
  <2> HIDE DEF v
  <2>2. WeightOf(v) \in Nat /\ size \in Nat /\ size' \in Nat /\ size' <= MaxSize /\ size' >= size
    BY <1>1, <2>1, WeightType DEF StoreInv, TypeOK, Fits
  <2>3. /\ then'[t] = "resize" /\ pc'[t] = "malloc" /\ wanted' = wanted
        /\ grown'[t] = 2 * SizeOf(table)
        /\ \A u \in Threads : u # t =>
              then'[u] = then[u] /\ pc'[u] = pc[u] /\ grown'[u] = grown[u]
    BY <1>4 DEF StoreInv, TypeOK
  <2>4. 1 \in 0 .. Word - 1
    <3>1. WeightOf(v) > 0 /\ MaxSize + WeightOf(v) < Word /\ MaxSize \in Nat /\ Word \in Nat
      BY <2>1, WeightType
    <3> QED
      BY <2>2, <3>1
  <2>5. SizeOf(table) \in Nat \ {0} /\ Load(table) \in Nat
    BY TableProperties DEF StoreInv
  <2>6. TypeOK'
    <3>1. CallsOK
      BY DEF StoreInv, TypeOK, CallsOK
    <3>2. /\ UNCHANGED <<kept, closed, dropping, wanted, need, count, prev>>
          /\ pc' = [pc EXCEPT ![t] = "malloc"] /\ then' = [then EXCEPT ![t] = "resize"]
          /\ request' = [request EXCEPT ![t] = 1] /\ phase' = [phase EXCEPT ![t] = 0]
          /\ grown' = [grown EXCEPT ![t] = 2 * SizeOf(table)]
      BY <1>1, <1>4
    <3>3. 2 * SizeOf(table) \in Nat
      BY <2>5
    <3>4. CallsOK'
      <4> DEFINE n == 2 * SizeOf(table)
      <4>1. n \in Nat /\ grown' = [grown EXCEPT ![t] = n]
        BY <3>2, <3>3
      <4> HIDE DEF n
      <4> QED
        BY <2>4, <3>1, <3>2, <4>1 DEF CallsOK, Loading
    <3>5. UNCHANGED <<lru, table, refs, keyRefs, leaked>>
      BY <1>4 DEF keyVars
    <3> QED
      BY <2>2, <3>4, <3>5 DEF StoreInv, TypeOK, CallsOK
  <2>7. Control'
    BY <1>1, <1>4, <2>1 DEF StoreInv, TypeOK, Control
  <2>8. /\ Listed' = Listed /\ ListedOnce' /\ RefsExact' /\ PinnedIsListed' /\ TableListed'
    BY <1>4 DEF StoreInv, Listed, ListedOnce, RefsExact, KeysOf, PinnedIsListed, TableListed, keyVars
  <2>9. Loads'
    <3>1. Storing' = Storing
      BY <1>1, <2>1, <2>3 DEF Storing
    <3> QED
      BY <1>4, <2>1, <2>3, <2>8, <3>1 DEF StoreInv, Loads
  <2>10. TableHasRoom'
    <3>1. Pending' \subseteq Pending
      BY <2>3 DEF Pending
    <3>2. \A u \in Threads :
             then'[u] = "resize" => grown'[u] = 2 * SizeOf(table) \/ grown'[u] <= SizeOf(table)
      BY <2>3 DEF StoreInv, TableHasRoom
    <3>3. SizeOf(table') = SizeOf(table) /\ Load(table') \in Nat /\ Load(table') <= Load(table)
      BY <1>4, <2>5
    <3> QED
      BY <3>1, <3>2, <3>3, RoomKept DEF StoreInv
  <2>11. SizesCovered'
    <3> DEFINE e == SumFunctionOnSet(EnteringWeight, Counted)
               e2 == SumFunctionOnSet(EnteringWeight', Counted')
               x == SumFunctionOnSet(ValueWeight, Listed)
    <3>1. /\ e \in Nat /\ e2 \in Nat
          /\ e2 = e - 0 + WeightOf(v)
      <4>1. /\ e \in Nat /\ e2 \in Nat
            /\ e2 = e - (IF then[t] = "resize" THEN WeightOf(wanted[t]) ELSE 0)
                      + (IF then'[t] = "resize" THEN WeightOf(wanted'[t]) ELSE 0)
        BY <2>1, <2>3, EnteringStep DEF StoreInv, v
      <4> HIDE DEF e, e2
      <4> QED
        BY <2>1, <2>3, <4>1 DEF v
    <3>2. x \in Nat /\ x + e <= size
      BY ListedType DEF StoreInv, SizesCovered
    <3>3. x + e2 <= size'
      <4> HIDE DEF x, e, e2
      <4> QED
        BY <1>1, <2>2, <3>1, <3>2
    <3>4. ValueWeight' = ValueWeight
      BY DEF ValueWeight, WeightOf
    <3> QED
      BY <2>2, <2>8, <3>3, <3>4 DEF SizesCovered
  <2> QED
    BY <2>6, <2>7, <2>8, <2>9, <2>10, <2>11 DEF StoreInv
<1> QED
  BY <1>3, <1>4 DEF StoreItem

(* A table that has been enlarged holds what it held, and has more room.   *)
LEMMA ResizeHashStep ==
    ASSUME StoreInv, NEW t \in Threads, ResizeHash(t)
    PROVE  StoreInv'
<1>1. CASE Undefined
  BY <1>1, UndefinedStep
<1>2. CASE /\ SizeOf(table) < grown[t]
           /\ table' = Resized(table, grown[t])
           /\ Goto(t, "insert")
           /\ UNCHANGED <<lru, size, refs, keyVars, kept, closed, dropping, callVars>>
  <2> DEFINE N == SizeOf(table)
             M == grown[t]
  <2> USE DEF Goto, callVars, spaceVars
  <2>1. pc[t] = "resize" /\ then[t] = "resize" /\ prev[t] = NoVal /\ ~closed
        /\ dropping[t] = NoVal
    <3>1. pc[t] = "resize"
      BY DEF ResizeHash
    <3> QED
      BY <3>1, StoringMeans
  <2>2. /\ N \in Nat \ {0} /\ Load(table) \in Nat /\ Load(table) < N
        /\ Pending \in SUBSET Threads /\ IsFiniteSet(Pending) /\ Cardinality(Pending) \in Nat
    BY TableProperties DEF StoreInv
  <2>3. M = 2 * N
    <3>1. M \in Nat /\ N < M /\ (M = 2 * N \/ M <= N)
      BY <1>2, <2>1 DEF StoreInv, TypeOK, TableHasRoom
    <3> HIDE DEF M, N
    <3> QED
      BY <2>2, <3>1
  <2>4. M \in Nat \ {0} /\ Load(table) < M
    <3> HIDE DEF M, N
    <3> QED
      BY <2>2, <2>3
  <2>5. /\ WellFormed(table', M, Vals) /\ Contents(table') = Contents(table)
        /\ WellFormed(table, N, Vals) /\ Contents(table) = HashedOf(Listed)
    <3>1. WellFormed(table, N, Vals) /\ Contents(table) = HashedOf(Listed) /\ table' = Resized(table, M)
      BY <1>2 DEF StoreInv, TableListed
    <3> HIDE DEF M, N
    <3>2. /\ WellFormed(Resized(table, M), M, Vals)
          /\ Contents(Resized(table, M)) = Contents(table)
      BY <2>4, <3>1, ResizeProperties
    <3> QED
      BY <3>1, <3>2
  <2>6. Listed' = Listed /\ ListedOnce' /\ RefsExact' /\ PinnedIsListed'
    BY <1>2 DEF StoreInv, Listed, ListedOnce, RefsExact, KeysOf, PinnedIsListed, keyVars
  <2>7. SizeOf(table') = M
    <3> HIDE DEF M
    <3> QED
      BY <2>5, SizeOfTable DEF WellFormed
  <2>8. TableListed'
    BY <2>5, <2>6, <2>7 DEF TableListed, HashedOf
  <2>9. TypeOK'
    <3>1. DOMAIN table' \subseteq Nat /\ \A i \in DOMAIN table' : table'[i] \in Vals \cup {NoVal}
      <4> HIDE DEF M
      <4> QED
        BY <2>5 DEF WellFormed, Table
    <3> QED
      BY <1>2, <3>1 DEF StoreInv, TypeOK, keyVars
  <2>10. Control'
    BY <1>2, <2>1 DEF StoreInv, TypeOK, Control
  <2>11. Loads'
    <3>1. Storing' \subseteq Storing
      BY <1>2, <2>1 DEF StoreInv, TypeOK, Storing
    <3> QED
      BY <1>2, <2>6, <3>1, LoadsKept DEF StoreInv
  <2>12. TableHasRoom'
    <3>1. PICK j \in Nat : /\ Room(N, j) /\ Cardinality(Pending) <= j
                           /\ Load(table) + Cardinality(Pending) <= Limit(N) + 1 + j
      BY DEF StoreInv, TableHasRoom
    <3>2. Pending' = Pending \cup {t} /\ t \notin Pending
      BY <1>2, <2>1 DEF StoreInv, TypeOK, Pending
    <3>3. Cardinality(Pending') = Cardinality(Pending) + 1
      BY <2>2, <3>2, FS_AddElement
    <3>4. Load(table') = Load(table)
      <4>1. Load(table) = Cardinality(Contents(table)) /\ Load(table') = Cardinality(Contents(table'))
        <5> HIDE DEF M, N
        <5> QED
          BY <2>5, LoadCounts
      <4> QED
        BY <2>5, <4>1
    <3>5. /\ Room(2 * N, j + 1) /\ Limit(N) \in Nat /\ Limit(2 * N) \in Nat
          /\ Limit(2 * N) >= Limit(N)
      <4> HIDE DEF N
      <4> QED
        BY <2>2, <3>1, RoomProperties
    <3>6. /\ j + 1 \in Nat /\ Cardinality(Pending') <= j + 1
          /\ Load(table') + Cardinality(Pending') <= Limit(2 * N) + 1 + (j + 1)
      <4> HIDE DEF N
      <4> QED
        BY <2>2, <3>1, <3>3, <3>4, <3>5
    <3>7. \A u \in Threads :
             then'[u] = "resize" => grown'[u] = 2 * (2 * N) \/ grown'[u] <= 2 * N
      <4>1. \A u \in Threads :
               then[u] = "resize" => grown[u] = 2 * N \/ grown[u] <= N
        BY DEF StoreInv, TableHasRoom
      <4>2. grown' = grown /\ then' = then /\ grown \in [Threads -> Nat]
        BY <1>2 DEF StoreInv, TypeOK
      <4> HIDE DEF M, N
      <4> QED
        BY <2>2, <4>1, <4>2
    <3>8. SizeOf(table') = 2 * N
      BY <2>3, <2>7
    <3> HIDE DEF M, N
    <3> QED
      BY <3>5, <3>6, <3>7, <3>8 DEF TableHasRoom
  <2>13. SizesCovered'
    <3>1. ValueWeight' = ValueWeight /\ EnteringWeight' = EnteringWeight /\ Counted' = Counted
      BY <1>2 DEF ValueWeight, EnteringWeight, WeightOf, Counted
    <3> QED
      BY <1>2, <2>6, <3>1 DEF StoreInv, SizesCovered
  <2> QED
    BY <2>6, <2>8, <2>9, <2>10, <2>11, <2>12, <2>13 DEF StoreInv
<1> QED
  BY <1>1, <1>2 DEF ResizeHash

(* The insertion of fz_store_item keeps the invariant, whether it fits the *)
(* table or finds it too full.                                             *)
LEMMA InsertItemStep ==
    ASSUME KeyedInv, NEW t \in Threads, InsertItem(t)
    PROVE  StoreInv'
<1>1. pc[t] = "insert" /\ Enter(t) /\ size' = size /\ UNCHANGED closed
  BY DEF InsertItem
<1>2. Counting(t) /\ Entering(t)
  <2>1. size \in Nat /\ size <= MaxSize
    BY DEF KeyedInv, StoreInv, TypeOK, SizesCovered
  <2> QED
    BY <1>1, <2>1 DEF Counting, Entering
<1> QED
  BY <1>1, <1>2, EnterStep

-----------------------------------------------------------------------------
(* Keys of tiles *)

(* What becomes of the keys of an image when that of one of its tiles is   *)
(* made or freed.                                                          *)
LEMMA OneKeyMoves ==
    ASSUME NEW d \in Vals, IsTile(d), leaked \in [Vals -> Nat], leaked' = leaked,
           \A u \in Vals : u # d => (keyRefs'[u] > 0 <=> keyRefs[u] > 0), NEW v \in Vals
    PROVE  /\ Extra(v) \in Nat /\ Extra(v)' \in Nat
           /\ Extra(v)' = Extra(v) - Has(d, KeysOf(v)) + Has(d, KeysOf(v)')
<1> DEFINE A == KeysOf(v)
           B == KeysOf(v)'
<1>1. \A u \in Vals : u # d => (u \in A <=> u \in B)
  BY DEF KeysOf, IsTile, Image
<1>2. IsFiniteSet(A) /\ IsFiniteSet(B) /\ A \subseteq Vals /\ B \subseteq Vals
  <2>1. A \in SUBSET Vals /\ B \in SUBSET Vals
    BY DEF KeysOf
  <2> HIDE DEF A, B
  <2> QED
    BY <2>1, FS_Subset, StoreAssumption
<1>3. Extra(v) = Cardinality(A) + Lost(v) /\ Extra(v)' = Cardinality(B) + Lost(v)
  <2>1. Lost(v)' = Lost(v)
    BY DEF Lost, IsTile
  <2> QED
    BY <2>1, Zenon DEF Extra
<1>4. Lost(v) \in Nat
  BY ExtraType
<1> HIDE DEF A, B
<1>5. Cardinality(A) \in Nat /\ Cardinality(B) \in Nat
  BY <1>2, FS_CardinalityType
<1>6. Cardinality(B) = Cardinality(A) - Has(d, A) + Has(d, B)
  <2>1. CASE d \in A <=> d \in B
    <3>1. \A u \in Vals : u \in A <=> u \in B
      BY <1>1, <2>1
    <3>2. A = B
      BY <1>2, <3>1
    <3> QED
      BY <1>5, <3>2 DEF Has
  <2>2. CASE d \in A /\ d \notin B
    <3>1. B = A \ {d}
      BY <1>1, <1>2, <2>2
    <3>2. Cardinality(B) = Cardinality(A) - 1
      BY <1>2, <2>2, <3>1, FS_RemoveElement
    <3> QED
      BY <1>5, <2>2, <3>2 DEF Has
  <2>3. CASE d \notin A /\ d \in B
    <3>1. B = A \cup {d}
      BY <1>1, <1>2, <2>3
    <3>2. Cardinality(B) = Cardinality(A) + 1
      BY <1>2, <2>3, <3>1, FS_AddElement
    <3> QED
      BY <1>5, <2>3, <3>2 DEF Has
  <2> QED
    BY <2>1, <2>2, <2>3
<1>7. Has(d, A) \in Nat /\ Has(d, B) \in Nat
  BY DEF Has
<1>8. Cardinality(B) + Lost(v) = Cardinality(A) + Lost(v) - Has(d, A) + Has(d, B)
  BY <1>4, <1>5, <1>6, <1>7
<1>9. Cardinality(B) + Lost(v) \in Nat /\ Cardinality(A) + Lost(v) \in Nat
  BY <1>4, <1>5
<1>10. /\ Extra(v) \in Nat /\ Extra(v)' \in Nat
       /\ Extra(v)' = Extra(v) - Has(d, A) + Has(d, B)
  <2> DEFINE e == Extra(v)
             e2 == Extra(v)'
  <2>1. e = Cardinality(A) + Lost(v) /\ e2 = Cardinality(B) + Lost(v)
    BY <1>3
  <2> HIDE DEF e, e2
  <2>2. e \in Nat /\ e2 \in Nat /\ e2 = e - Has(d, A) + Has(d, B)
    BY <1>4, <1>5, <1>7, <1>8, <1>9, <2>1
  <2> QED
    BY <2>2 DEF e, e2
<1> QED
  BY <1>10, Zenon DEF A, B

(* A step of one thread that makes or frees the key of a tile, and takes   *)
(* or drops the image with it, keeps the references exact.                 *)
LEMMA ImageStep ==
    ASSUME StoreInv, NEW t \in Threads, NEW d \in Vals, IsTile(d), Image(d) \in Vals,
           UNCHANGED <<storeVars, leaked, kept, prev>>,
           keyRefs' \in [Vals -> Nat], \A u \in Vals : u # d => keyRefs'[u] = keyRefs[u],
           refs' = [v \in Vals |->
                      refs[v] + (IF v = Image(d) THEN Is(TRUE, keyRefs'[d] > 0) ELSE 0)
                              - (IF v = Image(d) THEN Is(TRUE, keyRefs[d] > 0) ELSE 0)]
    PROVE  /\ RefsExact' /\ refs' \in [Vals -> Nat]
           /\ Listed' = Listed /\ ListedOnce'
<1>1. Listed' = Listed /\ ListedOnce' /\ leaked' \in [Vals -> Nat] /\ leaked \in [Vals -> Nat]
  BY DEF StoreInv, TypeOK, Listed, ListedOnce, storeVars
<1>2. ASSUME NEW v \in Vals
      PROVE  refs'[v] = refs[v] - Has(v, kept[t]) + Has(v, kept'[t])
                           - Has(v, Listed) + Has(v, Listed')
                           - Is(v, prev[t]) + Is(v, prev'[t]) - Extra(v) + Extra(v)'
  <2> DEFINE a == Has(v, kept[t])
             b == Has(v, Listed)
             c == Is(v, prev[t])
             e == Extra(v)
             e2 == Extra(v)'
             o == Has(d, KeysOf(v))
             n == Has(d, KeysOf(v)')
  <2>1. a \in Nat /\ b \in Nat /\ c \in Nat /\ o \in Nat /\ n \in Nat
    BY DEF Has, Is
  <2>2. e \in Nat /\ e2 \in Nat /\ e2 = e - o + n
    BY <1>1, OneKeyMoves
  <2>3. /\ o = IF v = Image(d) THEN Is(TRUE, keyRefs[d] > 0) ELSE 0
        /\ n = IF v = Image(d) THEN Is(TRUE, keyRefs'[d] > 0) ELSE 0
    <3>1. /\ d \in KeysOf(v) <=> v = Image(d) /\ keyRefs[d] > 0
          /\ d \in KeysOf(v)' <=> v = Image(d) /\ keyRefs'[d] > 0
      BY DEF KeysOf, IsTile, Image
    <3> QED
      BY <3>1 DEF Has, Is
  <2>4. refs'[v] = refs[v] + n - o /\ refs[v] \in Nat
    <3>1. refs'[v] = refs[v] + (IF v = Image(d) THEN Is(TRUE, keyRefs'[d] > 0) ELSE 0)
                             - (IF v = Image(d) THEN Is(TRUE, keyRefs[d] > 0) ELSE 0)
      OBVIOUS
    <3>2. refs[v] \in Nat
      BY DEF StoreInv, TypeOK
    <3> HIDE DEF n, o
    <3> QED
      BY <2>3, <3>1, <3>2
  <2>5. a = Has(v, kept'[t]) /\ b = Has(v, Listed') /\ c = Is(v, prev'[t])
    BY <1>1
  <2> DEFINE f == refs[v]
             f2 == refs'[v]
  <2>6. f2 = f + n - o /\ f \in Nat
    BY <2>4
  <2> HIDE DEF a, b, c, e, e2, n, o, f, f2
  <2>7. f2 = f - a + a - b + b - c + c - e + e2
    BY <2>1, <2>2, <2>6
  <2> QED
    BY <2>5, <2>7 DEF a, b, c, e, e2, f, f2
<1>3. OneMoves(kept, prev, kept', prev', t)
  BY DEF OneMoves
<1>4. refs' = [v \in Vals |-> refs'[v]]
  OBVIOUS
<1>5. RefsExact' /\ refs' \in [Vals -> Nat]
  BY <1>1, <1>2, <1>3, <1>4, RefsStep DEF StoreInv
<1> QED
  BY <1>1, <1>5

(* pdf_image.c makes the key of a tile: it takes a reference to the image, *)
(* which the thread holds.                                                 *)
LEMMA MakeKeyStep ==
    ASSUME KeyedInv, NEW t \in Threads, MakeKey(t)
    PROVE  StoreInv'
<1> SUFFICES ASSUME StoreInv PROVE StoreInv'
  BY DEF KeyedInv
<1> DEFINE d == wanted[t]
<1> USE DEF Allocate, Goto
<1>1. /\ pc[t] = "malloc" /\ then[t] = "key" /\ prev[t] = NoVal /\ dropping[t] = NoVal /\ ~closed
      /\ d \in kept[t] /\ d \in Vals /\ IsTile(d) /\ Image(d) \in kept[t] /\ Image(d) \in Vals
      /\ t \in Storing
  <2>1. pc[t] = "malloc" /\ then[t] = "key"
    BY DEF MakeKey
  <2>2. prev[t] = NoVal /\ dropping[t] = NoVal /\ ~closed
    BY <2>1 DEF StoreInv, Control
  <2>3. d \in kept[t] /\ IsTile(d) /\ Image(d) \in kept[t] /\ kept[t] \subseteq Vals
    BY <2>1 DEF StoreInv, Loads, TypeOK
  <2> QED
    BY <2>1, <2>2, <2>3 DEF Storing
<1>2. keyRefs[d] = 0
  BY <1>1 DEF KeyedInv, KeysUnmade
<1>3. /\ keyRefs' = [keyRefs EXCEPT ![d] = 1] /\ refs' = [refs EXCEPT ![Image(d)] = @ + 1]
      /\ Allocate(t, 1, "store")
      /\ UNCHANGED <<lru, table, size, leaked, kept, closed, dropping, wanted, need, count, prev,
                     grown>>
  BY DEF MakeKey, storeVars, spaceVars
<1> HIDE DEF d
<1>4. keyRefs' \in [Vals -> Nat] /\ keyRefs'[d] = 1 /\ \A u \in Vals : u # d => keyRefs'[u] = keyRefs[u]
  BY <1>1, <1>3 DEF StoreInv, TypeOK
<1>5. RefsExact' /\ refs' \in [Vals -> Nat] /\ Listed' = Listed /\ ListedOnce'
  <2>1. \A v \in Vals : (IF v = Image(d) THEN refs[v] + 1 ELSE refs[v])
                           = refs[v] + (IF v = Image(d) THEN Is(TRUE, keyRefs'[d] > 0) ELSE 0)
                                     - (IF v = Image(d) THEN Is(TRUE, keyRefs[d] > 0) ELSE 0)
    BY <1>2, <1>4 DEF Is, StoreInv, TypeOK
  <2>2. refs' = [v \in Vals |-> IF v = Image(d) THEN refs[v] + 1 ELSE refs[v]]
    BY <1>1, <1>3 DEF StoreInv, TypeOK
  <2>3. refs' = [v \in Vals |->
                    refs[v] + (IF v = Image(d) THEN Is(TRUE, keyRefs'[d] > 0) ELSE 0)
                            - (IF v = Image(d) THEN Is(TRUE, keyRefs[d] > 0) ELSE 0)]
    BY <2>1, <2>2, Zenon
  <2>4. UNCHANGED <<storeVars, leaked, kept, prev>>
    BY <1>3 DEF storeVars
  <2> QED
    BY <1>1, <1>4, <2>3, <2>4, ImageStep
<1>6. 1 \in 0 .. Word - 1
  <2>1. WeightOf(d) \in Nat /\ WeightOf(d) > 0 /\ MaxSize + WeightOf(d) < Word
        /\ MaxSize \in Nat /\ Word \in Nat
    BY <1>1, WeightType
  <2> QED
    BY <2>1
<1>7. CallsOK'
  BY <1>3, <1>6 DEF StoreInv, TypeOK, CallsOK, Loading
<1>8. Control'
  BY <1>1, <1>3 DEF StoreInv, TypeOK, Control
<1>9. /\ then'[t] = "store" /\ pc'[t] = "malloc"
      /\ \A u \in Threads : u # t => then'[u] = then[u] /\ pc'[u] = pc[u]
      /\ wanted' = wanted /\ kept' = kept /\ grown' = grown /\ prev' = prev
  BY <1>3 DEF StoreInv, TypeOK
<1>10. Loads'
  <2>1. Storing' = Storing
    BY <1>1, <1>9 DEF Storing
  <2> QED
    BY <1>1, <1>5, <1>9, <2>1 DEF StoreInv, Loads
<1>11. Pending' \subseteq Pending
  BY <1>9 DEF Pending
<1>12. OneMoves(kept, prev, kept', prev', t) /\ OthersLoad(t) /\ NoneGrow /\ prev'[t] = prev[t]
  BY <1>9 DEF OneMoves, OthersLoad, NoneGrow
<1>13. /\ size' \in Nat /\ size' >= size /\ size' <= MaxSize /\ lru' \in Seq(Vals)
       /\ table' = table /\ leaked' \in [Vals -> Nat]
  BY <1>3 DEF StoreInv, TypeOK, SizesCovered
<1> QED
  BY <1>4, <1>5, <1>7, <1>8, <1>10, <1>11, <1>12, <1>13, SameValuesStep

(* The image a key refers to is a value.                                   *)
LEMMA ImageType ==
    ASSUME NEW v \in Vals, IsTile(v)
    PROVE  Image(v) \in Vals
<1>1. KeyOf[v] \in Keys /\ ImageOf[KeyOf[v]] # NoVal
  BY DEF IsTile, Tiles
<1> QED
  BY <1>1, TileAssumption DEF Image

(* pdf_drop_image_key: the key that is dropped has been made, and with its *)
(* last reference its image is dropped.                                    *)
LEMMA DropKeyStep ==
    ASSUME KeyedInv, NEW t \in Threads, DropKey(t)
    PROVE  StoreInv'
<1> SUFFICES ASSUME StoreInv PROVE StoreInv'
  BY DEF KeyedInv
<1> DEFINE d == dropping[t]
<1>1. d # NoVal /\ d \in Vals /\ IsTile(d) /\ Image(d) \in Vals
  <2>1. d # NoVal /\ d \in Vals /\ IsTile(d)
    BY DEF DropKey, StoreInv, TypeOK, Control
  <2> HIDE DEF d
  <2> QED
    BY <2>1, ImageType
<1>2. keyRefs[d] > 0 /\ keyRefs[d] \in Nat
  <2>1. keyRefs[d] > 0
    BY <1>1, KeysMean DEF KeyedInv, StoreInv
  <2> QED
    BY <1>1, <2>1 DEF StoreInv, TypeOK
<1>3. /\ keyRefs' = [keyRefs EXCEPT ![d] = @ - 1]
      /\ refs' = IF keyRefs[d] = 1 THEN [refs EXCEPT ![Image(d)] = @ - 1] ELSE refs
      /\ dropping' = [dropping EXCEPT ![t] = NoVal]
      /\ UNCHANGED <<lru, table, size, leaked, kept, closed, pc, then, wanted, request, phase,
                     need, count, prev, grown>>
  BY DEF DropKey, storeVars, callVars, spaceVars
<1> HIDE DEF d
<1>4. /\ keyRefs' \in [Vals -> Nat] /\ keyRefs'[d] = keyRefs[d] - 1
      /\ \A u \in Vals : u # d => keyRefs'[u] = keyRefs[u]
  BY <1>1, <1>2, <1>3 DEF StoreInv, TypeOK
<1>5. RefsExact' /\ refs' \in [Vals -> Nat] /\ Listed' = Listed /\ ListedOnce'
  <2> DEFINE n == Is(TRUE, keyRefs'[d] > 0)
             o == Is(TRUE, keyRefs[d] > 0)
             m == Image(d)
  <2>1. n \in Nat /\ o = 1 /\ n = IF keyRefs[d] = 1 THEN 0 ELSE 1
    BY <1>2, <1>4 DEF Is
  <2>2. refs \in [Vals -> Nat] /\ m \in Vals
    BY <1>1 DEF StoreInv, TypeOK
  <2> HIDE DEF n, o, m
  <2>3. refs' = IF keyRefs[d] = 1 THEN [refs EXCEPT ![m] = @ - 1] ELSE refs
    BY <1>3 DEF m
  <2>4. \A v \in Vals : refs[v] + (IF v = m THEN n ELSE 0) - (IF v = m THEN o ELSE 0)
                          = IF keyRefs[d] = 1 /\ v = m THEN refs[v] - 1 ELSE refs[v]
    BY <2>1, <2>2
  <2>5. refs' = [v \in Vals |-> IF keyRefs[d] = 1 /\ v = m THEN refs[v] - 1 ELSE refs[v]]
    BY <2>2, <2>3
  <2>6. refs' = [v \in Vals |-> refs[v] + (IF v = m THEN n ELSE 0) - (IF v = m THEN o ELSE 0)]
    BY <2>4, <2>5, Zenon
  <2>7. refs' = [v \in Vals |->
                    refs[v] + (IF v = Image(d) THEN Is(TRUE, keyRefs'[d] > 0) ELSE 0)
                            - (IF v = Image(d) THEN Is(TRUE, keyRefs[d] > 0) ELSE 0)]
    BY <2>6, Zenon DEF n, o, m
  <2>8. UNCHANGED <<storeVars, leaked, kept, prev>>
    BY <1>3 DEF storeVars
  <2> QED
    BY <1>1, <1>4, <2>7, <2>8, ImageStep
<1>6. dropping' \in [Threads -> Vals \cup {NoVal}]
  BY <1>3 DEF StoreInv, TypeOK
<1>7. CallsOK' /\ Control'
  <2>1. CallsOK'
    BY <1>3, <1>6 DEF StoreInv, TypeOK, CallsOK
  <2>2. \A u \in Threads : dropping'[u] # NoVal => dropping'[u] = dropping[u]
    BY <1>3 DEF StoreInv, TypeOK
  <2> QED
    BY <1>3, <2>1, <2>2 DEF StoreInv, Control
<1>8. Loads' /\ Pending' \subseteq Pending
  <2>1. Storing' = Storing
    BY <1>3 DEF Storing
  <2> QED
    BY <1>3, <1>5, <2>1 DEF StoreInv, Loads, Pending
<1>9. OneMoves(kept, prev, kept', prev', t) /\ OthersLoad(t) /\ NoneGrow /\ prev'[t] = prev[t]
  BY <1>3 DEF OneMoves, OthersLoad, NoneGrow
<1>10. /\ size' \in Nat /\ size' >= size /\ size' <= MaxSize /\ lru' \in Seq(Vals)
       /\ table' = table /\ leaked' \in [Vals -> Nat]
  BY <1>3 DEF StoreInv, TypeOK, SizesCovered
<1> QED
  BY <1>4, <1>5, <1>7, <1>8, <1>9, <1>10, SameValuesStep

-----------------------------------------------------------------------------
(* The invariant holds *)

(* An empty store has no references, no entries and no size.               *)
LEMMA StoreInit == Init => StoreInv
<1> SUFFICES ASSUME Init PROVE StoreInv
  OBVIOUS
<1> USE DEF Init
<1>1. /\ \A v \in Vals : v # NoVal /\ Slot[KeyOf[v]] \in Nat
      /\ TableSize \in Nat \ {0} /\ MaxSize \in Nat /\ NoVal \notin Vals
      /\ 0 \in 0 .. Word - 1
  BY WeightType, StoreAssumption
<1>2. WellFormed(table, TableSize, Vals) /\ Contents(table) = {}
  <2>1. WellFormed(EmptyTable(TableSize), TableSize, Vals) /\ Contents(EmptyTable(TableSize)) = {}
    BY <1>1, EmptyProperties
  <2> QED
    BY <2>1
<1>3. Listed = {} /\ ListedOnce
  BY DEF Listed, ToSet, ListedOnce, Once
<1>4. SizeOf(table) = TableSize /\ Load(table) = 0
  <2>1. Load(table) = Cardinality(Contents(table)) /\ SizeOf(table) = TableSize
    BY <1>2, LoadCounts, SizeOfTable DEF WellFormed
  <2> QED
    BY <1>2, <2>1, FS_EmptySet
<1>5. TableListed
  BY <1>2, <1>3, <1>4 DEF TableListed, HashedOf
<1>6. TypeOK
  <2>1. DOMAIN table \subseteq Nat /\ \A i \in DOMAIN table : table[i] \in Vals \cup {NoVal}
    <3>1. Table(table, TableSize, Vals)
      BY <1>2 DEF WellFormed
    <3> DEFINE tb == table
    <3>2. Table(tb, TableSize, Vals)
      BY <3>1
    <3> HIDE DEF tb
    <3>3. DOMAIN tb \subseteq Nat /\ \A i \in DOMAIN tb : tb[i] \in Vals \cup {NoVal}
      BY <3>2 DEF Table
    <3> QED
      BY <3>3 DEF tb
  <2>2. lru \in Seq(Vals)
    OBVIOUS
  <2> QED
    BY <1>1, <2>1, <2>2 DEF TypeOK, Loading
<1>7. RefsExact
  <2> SUFFICES ASSUME NEW v \in Vals
               PROVE  refs[v] = Cardinality({t \in Threads : v \in kept[t]})
                        + Cardinality({i \in DOMAIN lru : lru[i] = v})
                        + Cardinality({t \in Threads : prev[t] = v})
                        + Cardinality(KeysOf(v)) + (IF IsTile(v) THEN 0 ELSE leaked[v])
    BY DEF RefsExact
  <2>1. {t \in Threads : v \in kept[t]} = {} /\ {t \in Threads : prev[t] = v} = {}
    BY <1>1
  <2>2. {i \in DOMAIN lru : lru[i] = v} = {}
    OBVIOUS
  <2>3. refs[v] = 0
    OBVIOUS
  <2> DEFINE a == Cardinality({t \in Threads : v \in kept[t]})
             b == Cardinality({i \in DOMAIN lru : lru[i] = v})
             c == Cardinality({t \in Threads : prev[t] = v})
             d == Cardinality(KeysOf(v))
             l == IF IsTile(v) THEN 0 ELSE leaked[v]
  <2>4. a = 0 /\ b = 0 /\ c = 0 /\ d = 0 /\ l = 0
    <3>1. KeysOf(v) = {}
      BY DEF KeysOf
    <3> QED
      BY <2>1, <2>2, <3>1, FS_EmptySet
  <2> HIDE DEF a, b, c, d, l
  <2>5. refs[v] = a + b + c + d + l
    BY <2>3, <2>4
  <2> QED
    BY <2>5 DEF a, b, c, d, l
<1>8. Control /\ Loads /\ PinnedIsListed
  BY DEF Control, Loads, PinnedIsListed, Storing
<1>9. TableHasRoom
  <2>1. Pending = {} /\ Cardinality(Pending) = 0
    <3>1. Pending = {}
      BY DEF Pending
    <3> QED
      BY <3>1, FS_EmptySet
  <2>2. Room(SizeOf(table), 0)
    BY <1>4, RoomAtFirst
  <2>3. Limit(SizeOf(table)) \in Nat
    BY <1>1, <1>4, <2>2, RoomProperties
  <2>4. /\ Cardinality(Pending) <= 0
        /\ Load(table) + Cardinality(Pending) <= Limit(SizeOf(table)) + 1 + 0
    BY <1>4, <2>1, <2>3
  <2>5. \A t \in Threads : then[t] # "resize"
    OBVIOUS
  <2> QED
    BY <2>2, <2>4, <2>5 DEF TableHasRoom
<1>10. SizesCovered
  <2>1. Counted = {}
    BY DEF Counted
  <2>2. SumFunctionOnSet(ValueWeight, Listed) = 0 /\ SumFunctionOnSet(EnteringWeight, Counted) = 0
    BY <1>3, <2>1, SumEmpty
  <2> QED
    BY <1>1, <2>2 DEF SizesCovered
<1> QED
  BY <1>3, <1>5, <1>6, <1>7, <1>8, <1>9, <1>10 DEF StoreInv

(* Every step keeps the invariant.                                         *)
LEMMA StoreNext == KeyedInv /\ [Next]_vars => StoreInv'
<1> SUFFICES ASSUME KeyedInv, StoreInv, [Next]_vars PROVE StoreInv'
  BY DEF KeyedInv
<1>1. ASSUME NEW t \in Threads, NEW n \in Requests, Malloc(t, n) PROVE StoreInv'
  BY <1>1, MallocStep
<1>2. ASSUME NEW t \in Threads, NEW k \in Keys, FindItem(t, k) PROVE StoreInv'
  BY <1>2, FindItemStep
<1>3. ASSUME NEW t \in Threads, NEW u \in Threads, NEW v \in Vals, KeepStorable(t, u, v)
      PROVE  StoreInv'
  BY <1>3, KeepStorableStep
<1>4. ASSUME NEW t \in Threads, NEW v \in Vals, DropStorable(t, v) PROVE StoreInv'
  BY <1>4, DropStorableStep
<1>5. ASSUME NEW t \in Threads, Create(t) \/ Allocated(t) PROVE StoreInv'
  BY <1>5, CreateStep, AllocatedStep
<1>6. ASSUME NEW t \in Threads, Scavenge(t) \/ Scavenged(t) \/ OutOfMemory(t) PROVE StoreInv'
  BY <1>6, ScavengeStep, ScavengedStep, OutOfMemoryStep
<1>7. ASSUME NEW t \in Threads, StoreItem(t) \/ MakeRoom(t) \/ MakeMoreRoom(t) \/ GiveUp(t)
      PROVE  StoreInv'
  BY <1>7, StoreItemStep, MakeRoomStep, MakeMoreRoomStep, GiveUpStep
<1>8. ASSUME NEW t \in Threads, ResizeHash(t) \/ InsertItem(t) \/ UseExisting(t)
      PROVE  StoreInv'
  BY <1>8, ResizeHashStep, InsertItemStep, UseExistingStep
<1>k. ASSUME NEW t \in Threads, MakeKey(t) \/ DropKey(t) PROVE StoreInv'
  BY <1>k, MakeKeyStep, DropKeyStep
<1>9. ASSUME NEW t \in Threads, CloseDocument(t) \/ EmptyStore(t) PROVE StoreInv'
  BY <1>9, CloseDocumentStep, EmptyStoreStep
<1>10. CASE UNCHANGED vars
  <2> USE <1>10 DEF vars, storeVars, keyVars, callVars, spaceVars
  <2>1. TypeOK' /\ RefsExact' /\ ListedOnce' /\ Control' /\ PinnedIsListed'
    <3>1. TypeOK'
      BY SMTT(30) DEF StoreInv, TypeOK
    <3>2. RefsExact' /\ ListedOnce'
      BY DEF StoreInv, RefsExact, KeysOf, ListedOnce
    <3>3. Control' /\ PinnedIsListed'
      BY DEF StoreInv, Control, PinnedIsListed
    <3> QED
      BY <3>1, <3>2, <3>3
  <2>2. Listed' = Listed /\ Storing' = Storing /\ Pending' = Pending /\ Counted' = Counted
        /\ ValueWeight' = ValueWeight /\ EnteringWeight' = EnteringWeight
    BY DEF Listed, Storing, Pending, Counted, ValueWeight, EnteringWeight, WeightOf
  <2>3. Loads' /\ TableListed' /\ TableHasRoom' /\ SizesCovered'
    BY <2>2 DEF StoreInv, Loads, TableListed, TableHasRoom, SizesCovered
  <2> QED
    BY <2>1, <2>3 DEF StoreInv
<1> QED
  BY <1>1, <1>2, <1>3, <1>4, <1>5, <1>6, <1>7, <1>8, <1>k, <1>9, <1>10 DEF Next

(* The references to the key of v that t, the threads' items or the list   *)
(* account for.                                                            *)
Mine(t, v) == Has(v, Own[t]) + Has(v, Listed) + Is(v, dropping[t])

(* The step of t leaves alone what the others own and drop.                *)
Alone(t) ==
    \A u \in Threads : u # t =>
       then'[u] = then[u] /\ wanted'[u] = wanted[u] /\ dropping'[u] = dropping[u]

(* The step of t counts the references to keys it takes and drops.         *)
Balanced(t) ==
    \A v \in Vals : IsTile(v) =>
       keyRefs'[v] + leaked[v] + Mine(t, v) = keyRefs[v] + leaked'[v] + Mine(t, v)'

(* What t and the list account for is a number.                            *)
LEMMA MineType ==
    ASSUME NEW t, NEW v
    PROVE  Mine(t, v) \in Nat /\ Mine(t, v)' \in Nat
  BY DEF Mine, Has, Is

(* The references to keys after a step.                                    *)
LEMMA KeysCountNext ==
    ASSUME ListedOnce', leaked' \in [Vals -> Nat]
    PROVE  KeysExact' <=>
             \A v \in Vals : IsTile(v) =>
               keyRefs'[v] = References(Own', Listed', dropping', v) + leaked'[v]
<1>1. (ListedOnce /\ leaked \in [Vals -> Nat] =>
        (KeysExact <=> \A v \in Vals :
                       IsTile(v) => keyRefs[v] = References(Own, Listed, dropping, v) + leaked[v]))'
  BY KeysCount, PTL
<1> QED
  BY <1>1 DEF IsTile

(* A balanced step keeps the references to keys exact.                     *)
LEMMA KeysStep ==
    ASSUME KeyedInv, StoreInv', NEW t \in Threads, Alone(t), Balanced(t)
    PROVE  KeysExact'
<1>1. /\ ListedOnce /\ leaked \in [Vals -> Nat] /\ keyRefs \in [Vals -> Nat]
      /\ ListedOnce' /\ leaked' \in [Vals -> Nat] /\ keyRefs' \in [Vals -> Nat]
  BY DEF KeyedInv, StoreInv, TypeOK
<1>2. OneMoves(Own, dropping, Own', dropping', t)
  BY DEF OneMoves, Own, Alone
<1>3. ASSUME NEW v \in Vals, IsTile(v)
      PROVE  keyRefs'[v] = References(Own', Listed', dropping', v) + leaked'[v]
  <2> DEFINE n == References(Own, Listed, dropping, v)
             n2 == References(Own', Listed', dropping', v)
             a == Has(v, Own[t])
             b == Has(v, Listed)
             c == Is(v, dropping[t])
             a2 == Has(v, Own'[t])
             b2 == Has(v, Listed')
             c2 == Is(v, dropping'[t])
             k == keyRefs[v]
             k2 == keyRefs'[v]
             l == leaked[v]
             l2 == leaked'[v]
  <2>1. n2 \in Nat /\ n2 = n - a + a2 - b + b2 - c + c2
    BY <1>2, ReferencesChange
  <2>2. n \in Nat
    BY ReferencesPositive
  <2>3. k = n + l
    BY <1>1, <1>3, KeysCount DEF KeyedInv
  <2>4. /\ a \in Nat /\ b \in Nat /\ c \in Nat /\ a2 \in Nat /\ b2 \in Nat /\ c2 \in Nat
    BY DEF Has, Is
  <2>5. k \in Nat /\ k2 \in Nat /\ l \in Nat /\ l2 \in Nat
    BY <1>1
  <2>6. k2 + l + (a + b + c) = k + l2 + (a2 + b2 + c2)
    <3>1. Mine(t, v) = a + b + c /\ Mine(t, v)' = a2 + b2 + c2
      BY DEF Mine
    <3>2. k2 + l + Mine(t, v) = k + l2 + Mine(t, v)'
      BY <1>3 DEF Balanced
    <3> QED
      BY <3>1, <3>2, Zenon
  <2> HIDE DEF n, n2, a, b, c, a2, b2, c2, k, k2, l, l2
  <2>7. k2 = n2 + l2
    BY <2>1, <2>2, <2>3, <2>4, <2>5, <2>6
  <2> QED
    BY <2>7 DEF n2, k2, l2
<1> QED
  BY <1>1, <1>3, KeysCountNext

(* A key that a thread makes stays unmade while others step.               *)
LEMMA UnmadeStep ==
    ASSUME KeysUnmade, NEW t \in Threads, Alone(t),
           then'[t] = "key" => keyRefs'[wanted'[t]] = 0,
           \A u \in Threads : u # t /\ then[u] = "key" =>
              (keyRefs[wanted[u]] = 0 => keyRefs'[wanted[u]] = 0)
    PROVE  KeysUnmade'
<1> SUFFICES ASSUME NEW u \in Threads, then'[u] = "key" PROVE keyRefs'[wanted'[u]] = 0
  BY DEF KeysUnmade
<1> QED
  BY DEF KeysUnmade, Alone

(* A step that takes and drops no key, and lists what was listed.          *)
LEMMA QuietKeys ==
    ASSUME KeyedInv, StoreInv', NEW t \in Threads, Alone(t), UNCHANGED keyVars,
           Listed' = Listed, dropping'[t] = dropping[t],
           \A v \in Vals : IsTile(v) => (v \in Own'[t] <=> v \in Own[t]),
           then'[t] = "key" => keyRefs[wanted'[t]] = 0
    PROVE  KeysExact' /\ KeysUnmade'
<1>1. Balanced(t)
  <2> SUFFICES ASSUME NEW v \in Vals, IsTile(v)
               PROVE  keyRefs'[v] + leaked[v] + Mine(t, v) = keyRefs[v] + leaked'[v] + Mine(t, v)'
    BY DEF Balanced
  <2>1. Mine(t, v)' = Mine(t, v)
    <3>1. Has(v, Own'[t]) = Has(v, Own[t])
      BY DEF Has
    <3> QED
      BY <3>1, Zenon DEF Mine
  <2> QED
    BY <2>1 DEF keyVars
<1> QED
  BY <1>1, KeysStep, UnmadeStep DEF KeyedInv, keyVars

(* A step that gives the key of an item to the thread that frees the item. *)
LEMMA EvictKeys ==
    ASSUME KeyedInv, StoreInv', NEW t \in Threads, NEW w \in Listed, Evict(t, w),
           dropping[t] = NoVal, UNCHANGED <<keyVars, then, wanted>>
    PROVE  KeysExact' /\ KeysUnmade'
<1>1. w \in Vals /\ Listed' = Listed \ {w}
  BY EvictLists, ListedType DEF KeyedInv, StoreInv
<1>2. /\ dropping' = [dropping EXCEPT ![t] = IF IsTile(w) THEN w ELSE NoVal]
      /\ dropping \in [Threads -> Vals \cup {NoVal}]
  BY DEF Evict, DropLater, KeyedInv, StoreInv, TypeOK
<1>3. Alone(t)
  BY <1>2 DEF Alone
<1>4. Balanced(t)
  <2> SUFFICES ASSUME NEW v \in Vals, IsTile(v)
               PROVE  keyRefs'[v] + leaked[v] + Mine(t, v) = keyRefs[v] + leaked'[v] + Mine(t, v)'
    BY DEF Balanced
  <2>1. Mine(t, v)' = Mine(t, v)
    <3>1. Own' = Own
      BY DEF Own
    <3>2. v # NoVal
      BY StoreAssumption
    <3>3. Is(v, dropping[t]) = 0 /\ Is(v, dropping'[t]) = Is(v, w)
      BY <1>2, <3>2 DEF Is
    <3>4. Has(v, Listed) = Has(v, Listed') + Is(v, w)
      BY <1>1 DEF Has, Is
    <3>5. Has(v, Own[t]) \in Nat /\ Has(v, Listed') \in Nat /\ Is(v, w) \in Nat
      BY DEF Has, Is
    <3> DEFINE a == Has(v, Own[t])
               b == Has(v, Listed)
               b2 == Has(v, Listed')
               c == Is(v, w)
    <3>6. a + b2 + c = a + b + 0
      <4>1. a \in Nat /\ b2 \in Nat /\ c \in Nat /\ b = b2 + c
        BY <3>4, <3>5
      <4> HIDE DEF a, b, b2, c
      <4> QED
        BY <4>1
    <3> QED
      BY <3>1, <3>3, <3>6, Zenon DEF Mine
  <2> QED
    BY <2>1 DEF keyVars
<1>5. then'[t] = "key" => keyRefs'[wanted'[t]] = 0
  BY DEF KeyedInv, KeysUnmade, keyVars
<1> QED
  BY <1>3, <1>4, <1>5, KeysStep, UnmadeStep DEF KeyedInv, keyVars

(* A call that returns goes on to drop the key it has made.                *)
LEMMA ReturnMine ==
    ASSUME KeyedInv, NEW t \in Threads, Return(t),
           then[t] \in {"store", "resize"} => dropping[t] = NoVal
    PROVE  /\ Alone(t) /\ then'[t] = "return" /\ Own'[t] = {}
           /\ \A v \in Vals : IsTile(v) =>
                Has(v, Own[t]) + Is(v, dropping[t]) = Is(v, dropping'[t])
<1>1. /\ then'[t] = "return"
      /\ \A u \in Threads : u # t => then'[u] = then[u] /\ wanted'[u] = wanted[u]
      /\ \A u \in Threads : u # t => dropping'[u] = dropping[u]
      /\ Own'[t] = {}
  <2>1. \A u \in Threads : u # t => dropping'[u] = dropping[u]
    BY ReturnDrops DEF KeyedInv, Drops
  <2>2. /\ then'[t] = "return"
        /\ \A u \in Threads : u # t => then'[u] = then[u] /\ wanted'[u] = wanted[u]
    BY DEF Return, KeyedInv, StoreInv, TypeOK
  <2> QED
    BY <2>1, <2>2 DEF Own
<1>2. Alone(t)
  BY <1>1 DEF Alone
<1>3. ASSUME NEW v \in Vals, IsTile(v)
      PROVE  Has(v, Own[t]) + Is(v, dropping[t]) = Is(v, dropping'[t])
  <2>1. CASE then[t] \in {"store", "resize"}
    <3>1. /\ dropping' = [dropping EXCEPT ![t] = IF IsTile(wanted[t]) THEN wanted[t] ELSE NoVal]
          /\ dropping \in [Threads -> Vals \cup {NoVal}]
      BY <2>1 DEF Return, DropLater, KeyedInv, StoreInv, TypeOK
    <3>2. v # NoVal /\ Own[t] = {wanted[t]}
      BY <2>1, StoreAssumption DEF Own
    <3> QED
      BY <1>3, <2>1, <3>1, <3>2 DEF Has, Is
  <2>2. CASE then[t] \notin {"store", "resize"}
    BY <2>2 DEF Return, Own, Has, Is
  <2> QED
    BY <2>1, <2>2
<1> QED
  BY <1>1, <1>2, <1>3

(* This changes nothing in what there is of each key.                      *)
LEMMA MineReturned ==
    ASSUME NEW t, NEW v, Own'[t] = {}, Listed' = Listed,
           Has(v, Own[t]) + Is(v, dropping[t]) = Is(v, dropping'[t])
    PROVE  Mine(t, v)' = Mine(t, v)
<1> DEFINE a == Has(v, Own[t])
           b == Has(v, Listed)
           c == Is(v, dropping[t])
           c2 == Is(v, dropping'[t])
<1>1. a \in Nat /\ b \in Nat /\ c \in Nat /\ c2 = a + c
  BY DEF Has, Is
<1>2. Mine(t, v) = a + b + c /\ Mine(t, v)' = 0 + b + c2
  <2>1. Has(v, Own'[t]) = 0
    BY DEF Has
  <2> QED
    BY <2>1, Zenon DEF Mine
<1> HIDE DEF a, b, c, c2
<1>3. 0 + b + c2 = a + b + c
  BY <1>1
<1> QED
  BY <1>2, <1>3, Zenon

(* A call that returns and lists nothing.                                  *)
LEMMA ReturnKeys ==
    ASSUME KeyedInv, StoreInv', NEW t \in Threads, Return(t),
           then[t] \in {"store", "resize"} => dropping[t] = NoVal,
           UNCHANGED keyVars, Listed' = Listed
    PROVE  KeysExact' /\ KeysUnmade'
<1>1. /\ Alone(t) /\ then'[t] = "return" /\ Own'[t] = {}
      /\ \A v \in Vals : IsTile(v) =>
           Has(v, Own[t]) + Is(v, dropping[t]) = Is(v, dropping'[t])
  BY ReturnMine
<1>2. Balanced(t)
  <2> SUFFICES ASSUME NEW v \in Vals, IsTile(v)
               PROVE  keyRefs'[v] + leaked[v] + Mine(t, v) = keyRefs[v] + leaked'[v] + Mine(t, v)'
    BY DEF Balanced
  <2>1. Mine(t, v)' = Mine(t, v)
    BY <1>1, MineReturned
  <2> QED
    BY <2>1 DEF keyVars
<1> QED
  BY <1>1, <1>2, KeysStep, UnmadeStep DEF KeyedInv, keyVars

(* No key has references at first.                                         *)
LEMMA KeysInit == Init => KeyedInv
<1> SUFFICES ASSUME Init PROVE KeysExact /\ KeysUnmade
  BY StoreInit DEF KeyedInv
<1>1. KeysUnmade
  BY DEF Init, KeysUnmade
<1>2. ASSUME NEW v \in Vals
      PROVE  keyRefs[v] = Cardinality({t \in Threads : v \in Own[t]})
                            + Cardinality({i \in DOMAIN lru : lru[i] = v})
                            + Cardinality({t \in Threads : dropping[t] = v}) + leaked[v]
  <2>1. /\ {t \in Threads : v \in Own[t]} = {} /\ {i \in DOMAIN lru : lru[i] = v} = {}
        /\ {t \in Threads : dropping[t] = v} = {}
    BY StoreAssumption DEF Init, Own
  <2> DEFINE a == Cardinality({t \in Threads : v \in Own[t]})
             b == Cardinality({i \in DOMAIN lru : lru[i] = v})
             c == Cardinality({t \in Threads : dropping[t] = v})
  <2>2. a = 0 /\ b = 0 /\ c = 0
    BY <2>1, FS_EmptySet
  <2>3. keyRefs[v] = 0 /\ leaked[v] = 0
    BY DEF Init
  <2> HIDE DEF a, b, c
  <2>4. keyRefs[v] = a + b + c + leaked[v]
    BY <2>2, <2>3
  <2> QED
    BY <2>4 DEF a, b, c
<1> QED
  BY <1>1, <1>2 DEF KeysExact

(* What a lookup or a load does to keys.                                   *)
LEMMA FindItemKeys ==
    ASSUME KeyedInv, StoreInv', NEW t \in Threads, NEW k \in Keys, FindItem(t, k)
    PROVE  KeysExact' /\ KeysUnmade'
<1> DEFINE found == Found(k)
<1>1. /\ pc[t] = "idle" /\ then[t] = "return" /\ UNCHANGED keyVars /\ dropping' = dropping
      /\ IF found # NoVal
           THEN lru' = <<found>> \o RemoveAt(lru, Place(found)) /\ UNCHANGED callVars
           ELSE /\ wanted' = [wanted EXCEPT ![t] = k]
                /\ then' = [then EXCEPT ![t] = "create"]
                /\ UNCHANGED lru
  <2>1. pc[t] = "idle" /\ then[t] = "return"
    BY DEF FindItem, At, KeyedInv, StoreInv, Control
  <2> QED
    BY <2>1 DEF FindItem, Found, Allocate
<1>2. Listed' = Listed
  <2>1. CASE found # NoVal
    <3>1. found \in Listed
      BY <2>1, FoundIsListed DEF KeyedInv
    <3> HIDE DEF found
    <3> QED
      BY <1>1, <2>1, <3>1, FrontEffect DEF KeyedInv, StoreInv
  <2>2. CASE found = NoVal
    BY <1>1, <2>2 DEF Listed
  <2> QED
    BY <2>1, <2>2
<1> HIDE DEF found
<1>3. Alone(t) /\ then'[t] \in {"return", "create"}
  BY <1>1 DEF Alone, callVars, KeyedInv, StoreInv, TypeOK
<1>4. Own[t] = {} /\ Own'[t] = {}
  BY <1>1, <1>3 DEF Own
<1> QED
  BY <1>1, <1>2, <1>3, <1>4, QuietKeys

(* A value that is loaded has no key yet.                                  *)
LEMMA CreateKeys ==
    ASSUME KeyedInv, StoreInv', NEW t \in Threads, Create(t)
    PROVE  KeysExact' /\ KeysUnmade'
<1>1. PICK v \in Vals : /\ KeyOf[v] = wanted[t] /\ keyRefs[v] = 0
                        /\ wanted' = [wanted EXCEPT ![t] = v]
  BY DEF Create
<1>2. /\ then[t] = "create" /\ UNCHANGED <<lru, keyVars, dropping>>
      /\ then' = [then EXCEPT ![t] = IF IsTile(v) THEN "key" ELSE "store"]
  BY <1>1 DEF Create, Allocate, storeVars, IsTile
<1>3. /\ Alone(t) /\ wanted'[t] = v /\ then'[t] = IF IsTile(v) THEN "key" ELSE "store"
  BY <1>1, <1>2 DEF Alone, KeyedInv, StoreInv, TypeOK
<1>4. \A u \in Vals : IsTile(u) => (u \in Own'[t] <=> u \in Own[t])
  BY <1>2, <1>3 DEF Own
<1>5. Listed' = Listed
  BY <1>2 DEF Listed
<1> QED
  BY <1>1, <1>2, <1>3, <1>4, <1>5, QuietKeys

(* A key is made with the one reference of the thread.                     *)
LEMMA MakeKeyKeys ==
    ASSUME KeyedInv, StoreInv', NEW t \in Threads, MakeKey(t)
    PROVE  KeysExact' /\ KeysUnmade'
<1> DEFINE d == wanted[t]
<1>1. /\ pc[t] = "malloc" /\ then[t] = "key" /\ t \in Storing
      /\ keyRefs' = [keyRefs EXCEPT ![d] = 1] /\ keyRefs[d] = 0
      /\ then' = [then EXCEPT ![t] = "store"]
      /\ UNCHANGED <<lru, leaked, dropping, wanted>>
  BY DEF MakeKey, Allocate, storeVars, Storing, KeyedInv, KeysUnmade
<1>2. d \in Vals
  BY <1>1 DEF KeyedInv, StoreInv, TypeOK, Loads
<1> HIDE DEF d
<1>3. Alone(t) /\ Own[t] = {} /\ Own'[t] = {d}
  BY <1>1 DEF Alone, Own, KeyedInv, StoreInv, TypeOK, d
<1>4. Balanced(t)
  <2> SUFFICES ASSUME NEW v \in Vals, IsTile(v)
               PROVE  keyRefs'[v] + leaked[v] + Mine(t, v) = keyRefs[v] + leaked'[v] + Mine(t, v)'
    BY DEF Balanced
  <2> DEFINE k == keyRefs[v]
             k2 == keyRefs'[v]
             l == leaked[v]
             b == Has(v, Listed)
             c == Is(v, dropping[t])
             n == Is(v, d)
  <2>1. k \in Nat /\ l \in Nat /\ b \in Nat /\ c \in Nat /\ n \in Nat /\ leaked'[v] = l
    BY <1>1 DEF KeyedInv, StoreInv, TypeOK, Has, Is
  <2>2. k2 = k + n
    <3>1. keyRefs \in [Vals -> Nat]
      BY DEF KeyedInv, StoreInv, TypeOK
    <3> QED
      BY <1>1, <1>2, <2>1, <3>1 DEF Is
  <2>3. Mine(t, v) = 0 + b + c /\ Mine(t, v)' = n + b + c
    <3>1. Has(v, Own[t]) = 0 /\ Has(v, Own'[t]) = n
      BY <1>3 DEF Has, Is
    <3>2. Listed' = Listed
      BY <1>1 DEF Listed
    <3> QED
      BY <1>1, <3>1, <3>2 DEF Mine
  <2> HIDE DEF k, k2, l, b, c, n
  <2>4. k2 + l + (0 + b + c) = k + l + (n + b + c)
    BY <2>1, <2>2
  <2> QED
    BY <2>1, <2>3, <2>4, Zenon DEF k, k2, l
<1>5. ASSUME NEW u \in Threads, u # t, then[u] = "key"
      PROVE  wanted[u] # d
  <2>1. pc[u] # "swap" /\ pc[u] # "undefined"
    BY <1>1, <1>5 DEF KeyedInv, StoreInv, Control
  <2>2. u \in Storing
    BY <1>5, <2>1 DEF Storing
  <2> QED
    BY <1>1, <1>5, <2>2 DEF KeyedInv, StoreInv, Loads, d
<1>6. /\ then'[t] # "key"
      /\ \A u \in Threads : u # t /\ then[u] = "key" =>
              (keyRefs[wanted[u]] = 0 => keyRefs'[wanted[u]] = 0)
  <2>1. then'[t] # "key"
    BY <1>1 DEF KeyedInv, StoreInv, TypeOK
  <2>2. \A w : w # d => keyRefs'[w] = keyRefs[w]
    BY <1>1
  <2>3. \A u \in Threads : then[u] = "key" => wanted[u] \in Vals
    BY DEF KeyedInv, StoreInv, TypeOK, Loads
  <2> QED
    BY <1>1, <1>5, <2>1, <2>3 DEF KeyedInv, StoreInv, TypeOK
<1> QED
  BY <1>3, <1>4, <1>6, KeysStep, UnmadeStep DEF KeyedInv

(* A key that is dropped loses the reference of the thread.                *)
LEMMA DropKeyKeys ==
    ASSUME KeyedInv, StoreInv', NEW t \in Threads, DropKey(t)
    PROVE  KeysExact' /\ KeysUnmade'
<1> DEFINE d == dropping[t]
<1>1. /\ d # NoVal /\ d \in Vals /\ IsTile(d)
      /\ keyRefs' = [keyRefs EXCEPT ![d] = @ - 1]
      /\ dropping' = [dropping EXCEPT ![t] = NoVal]
      /\ UNCHANGED <<lru, leaked, then, wanted>>
  BY DEF DropKey, storeVars, callVars, KeyedInv, StoreInv, TypeOK, Control
<1>2. keyRefs[d] > 0
  BY <1>1, KeysMean DEF KeyedInv, StoreInv
<1>3. Alone(t) /\ Own' = Own /\ Listed' = Listed /\ dropping'[t] = NoVal
  BY <1>1 DEF Alone, Own, Listed, KeyedInv, StoreInv, TypeOK
<1>4. keyRefs \in [Vals -> Nat]
  BY DEF KeyedInv, StoreInv, TypeOK
<1>5. Balanced(t)
  <2> SUFFICES ASSUME NEW v \in Vals, IsTile(v)
               PROVE  keyRefs'[v] + leaked[v] + Mine(t, v) = keyRefs[v] + leaked'[v] + Mine(t, v)'
    BY DEF Balanced
  <2> DEFINE k == keyRefs[v]
             k2 == keyRefs'[v]
             l == leaked[v]
             a == Has(v, Own[t])
             b == Has(v, Listed)
             n == Is(v, d)
  <2>1. k \in Nat /\ l \in Nat /\ a \in Nat /\ b \in Nat /\ n \in Nat /\ leaked'[v] = l
    BY <1>1 DEF KeyedInv, StoreInv, TypeOK, Has, Is
  <2>2. k2 = k - n
    BY <1>1, <1>4, <2>1 DEF Is
  <2>3. Mine(t, v) = a + b + n /\ Mine(t, v)' = a + b + 0
    <3>1. Is(v, dropping'[t]) = 0
      BY <1>3, StoreAssumption DEF Is
    <3> QED
      BY <1>3, <3>1, Zenon DEF Mine
  <2> HIDE DEF k, k2, l, a, b, n
  <2>4. k2 + l + (a + b + n) = k + l + (a + b + 0)
    BY <2>1, <2>2
  <2> QED
    BY <2>1, <2>3, <2>4, Zenon DEF k, k2, l
<1> HIDE DEF d
<1>6. \A v \in Vals : keyRefs[v] = 0 => keyRefs'[v] = 0
  BY <1>1, <1>2, <1>4
<1>7. \A u \in Threads : then[u] = "key" => wanted[u] \in Vals /\ keyRefs[wanted[u]] = 0
  BY DEF KeyedInv, KeysUnmade, StoreInv, TypeOK, Loads
<1>8. then'[t] = "key" => keyRefs'[wanted'[t]] = 0
  BY <1>1, <1>6, <1>7
<1> QED
  BY <1>3, <1>5, <1>6, <1>7, <1>8, KeysStep, UnmadeStep DEF KeyedInv

(* The thread that stores a tile hands the reference of its own on to the  *)
(* item, or loses it, and drops its key when it returns.                   *)
LEMMA EnterKeys ==
    ASSUME KeyedInv, StoreInv', NEW t \in Threads, pc[t] \in {"store", "insert"}, Enter(t)
    PROVE  KeysExact' /\ KeysUnmade'
<1> DEFINE w == wanted[t]
           x == IF KeyOf[w] \in Hashed THEN HashFind(table, KeyOf[w]) ELSE NoVal
<1>1. /\ w \in Vals /\ w \notin Listed /\ dropping[t] = NoVal
      /\ then[t] \in {"store", "resize"} /\ w \in Own[t] /\ Own[t] = {w}
  <2>1. w \in Vals /\ w \notin Listed /\ dropping[t] = NoVal /\ then[t] \in {"store", "resize"}
    BY StoringMeans DEF KeyedInv
  <2> QED
    BY <2>1 DEF Own
<1>2. keyRefs \in [Vals -> Nat] /\ leaked \in [Vals -> Nat]
  BY DEF KeyedInv, StoreInv, TypeOK
<1>3. /\ IsTile(w) => keyRefs[w] > 0
      /\ keyRefs' = IF IsTile(w) THEN [keyRefs EXCEPT ![w] = @ + 1] ELSE keyRefs
  <2>1. IsTile(w) => keyRefs[w] > 0
    BY <1>1, KeysMean DEF KeyedInv, StoreInv
  <2> QED
    BY <2>1 DEF Enter
<1>4. \A v \in Vals : IsTile(v) => keyRefs'[v] = keyRefs[v] + Is(v, w)
  BY <1>1, <1>2, <1>3 DEF Is
<1>5. \A v \in Vals : keyRefs[v] = 0 => keyRefs'[v] = 0
  BY <1>1, <1>2, <1>3
<1>6. \A u \in Threads : then[u] = "key" => wanted[u] \in Vals
  BY DEF KeyedInv, StoreInv, TypeOK, Loads
<1>7. \A v, S : Has(v, S) \in Nat /\ Is(v, S) \in Nat
  BY DEF Has, Is
<1>8. CASE /\ x = NoVal
           /\ table' = IF KeyOf[w] \in Hashed THEN HashInsert(table, w) ELSE table
           /\ lru' = <<w>> \o lru
           /\ Return(t)
           /\ leaked' = leaked
  <2>1. Listed' = Listed \cup {w}
    <3>1. /\ KeyOf[w] \in Hashed => HashFind(table, KeyOf[w]) = NoVal
          /\ table' = (IF KeyOf[w] \in Hashed THEN HashInsert(table, w) ELSE table)
          /\ lru' = <<w>> \o lru
      BY <1>8
    <3> HIDE DEF w, x
    <3> QED
      BY <1>1, <3>1, EnterEffect DEF KeyedInv, StoreInv
  <2>2. /\ Alone(t) /\ then'[t] = "return" /\ Own'[t] = {}
        /\ \A v \in Vals : IsTile(v) =>
             Has(v, Own[t]) + Is(v, dropping[t]) = Is(v, dropping'[t])
    BY <1>1, <1>8, ReturnMine
  <2>3. Balanced(t)
    <3> SUFFICES ASSUME NEW v \in Vals, IsTile(v)
                 PROVE  keyRefs'[v] + leaked[v] + Mine(t, v) = keyRefs[v] + leaked'[v] + Mine(t, v)'
      BY DEF Balanced
    <3> DEFINE k == keyRefs[v]
               k2 == keyRefs'[v]
               l == leaked[v]
               b == Has(v, Listed)
               n == Is(v, w)
    <3>1. /\ k \in Nat /\ l \in Nat /\ b \in Nat /\ n \in Nat /\ leaked'[v] = l
          /\ k2 = k + n
      BY <1>2, <1>4, <1>7, <1>8
    <3>2. Mine(t, v) = n + b + 0
      <4>1. Has(v, Own[t]) = n /\ Is(v, dropping[t]) = 0
        BY <1>1, StoreAssumption DEF Has, Is
      <4> QED
        BY <4>1, Zenon DEF Mine
    <3>3. Mine(t, v)' = 0 + (b + n) + n
      <4>1. Has(v, Own'[t]) = 0
        BY <2>2 DEF Has
      <4>2. Has(v, Listed') = b + n
        BY <1>1, <2>1 DEF Has, Is
      <4>3. Is(v, dropping'[t]) = n
        <5>1. Has(v, Own[t]) = n /\ Is(v, dropping[t]) = 0
          BY <1>1, StoreAssumption DEF Has, Is
        <5>2. Has(v, Own[t]) + Is(v, dropping[t]) = Is(v, dropping'[t])
          BY <2>2
        <5> HIDE DEF n
        <5> QED
          BY <3>1, <5>1, <5>2
      <4> QED
        BY <4>1, <4>2, <4>3, Zenon DEF Mine
    <3> HIDE DEF k, k2, l, b, n
    <3>4. k2 + l + (n + b + 0) = k + l + (0 + (b + n) + n)
      BY <3>1
    <3> QED
      BY <3>1, <3>2, <3>3, <3>4, Zenon DEF k, k2, l
  <2> QED
    BY <1>5, <1>6, <2>2, <2>3, KeysStep, UnmadeStep DEF KeyedInv
<1>9. CASE /\ x # NoVal /\ IsTile(w)
           /\ leaked' = [leaked EXCEPT ![w] = @ + 1]
           /\ UNCHANGED <<lru, dropping, callVars>>
  <2>1. Alone(t) /\ Own' = Own /\ Listed' = Listed /\ then' = then /\ wanted' = wanted
    BY <1>9 DEF Alone, Own, Listed, callVars
  <2>2. Balanced(t)
    <3> SUFFICES ASSUME NEW v \in Vals, IsTile(v)
                 PROVE  keyRefs'[v] + leaked[v] + Mine(t, v) = keyRefs[v] + leaked'[v] + Mine(t, v)'
      BY DEF Balanced
    <3> DEFINE k == keyRefs[v]
               k2 == keyRefs'[v]
               l == leaked[v]
               l2 == leaked'[v]
               m == Mine(t, v)
               n == Is(v, w)
    <3>1. k \in Nat /\ l \in Nat /\ n \in Nat /\ m \in Nat /\ k2 = k + n
      BY <1>2, <1>4, <1>7, MineType
    <3>2. l2 = l + n
      BY <1>1, <1>2, <1>9 DEF Is
    <3>3. Mine(t, v)' = m
      BY <1>9, <2>1, Zenon DEF Mine
    <3> HIDE DEF k, k2, l, l2, n, m
    <3>4. k2 + l + m = k + l2 + m
      BY <3>1, <3>2
    <3> QED
      BY <3>3, <3>4, Zenon DEF k, k2, l, l2, m
  <2>3. then'[t] # "key"
    BY <1>1, <2>1
  <2> QED
    BY <1>5, <1>6, <2>1, <2>2, <2>3, KeysStep, UnmadeStep DEF KeyedInv
<1>10. CASE /\ x # NoVal /\ ~IsTile(w)
            /\ leaked' = [leaked EXCEPT ![x] = @ + 1]
            /\ Return(t)
            /\ lru' = lru
  <2>1. x \in Vals /\ ~IsTile(x)
    <3>1. x \in Vals /\ KeyOf[x] = KeyOf[w]
      BY <1>10, ExistingMeans DEF KeyedInv
    <3> QED
      BY <1>10, <3>1 DEF IsTile
  <2>2. /\ Alone(t) /\ then'[t] = "return" /\ Own'[t] = {} /\ Listed' = Listed
        /\ \A v \in Vals : IsTile(v) =>
             Has(v, Own[t]) + Is(v, dropping[t]) = Is(v, dropping'[t])
    BY <1>1, <1>10, ReturnMine DEF Listed
  <2>3. Balanced(t)
    <3> SUFFICES ASSUME NEW v \in Vals, IsTile(v)
                 PROVE  keyRefs'[v] + leaked[v] + Mine(t, v) = keyRefs[v] + leaked'[v] + Mine(t, v)'
      BY DEF Balanced
    <3>1. keyRefs'[v] = keyRefs[v] /\ leaked'[v] = leaked[v]
      BY <1>3, <1>10, <2>1
    <3>2. Mine(t, v)' = Mine(t, v)
      BY <2>2, MineReturned
    <3> QED
      BY <3>1, <3>2
  <2> QED
    BY <1>5, <1>6, <2>2, <2>3, KeysStep, UnmadeStep DEF KeyedInv
<1> QED
  BY <1>8, <1>9, <1>10 DEF Enter

(* ensure_space, or scavenge, evicts what is listed.                       *)
LEMMA LastListed ==
    ASSUME StoreInv, NEW S \in SUBSET DOMAIN lru, S # {}
    PROVE  lru[Max(S)] \in Listed
<1>1. Max(S) \in DOMAIN lru
  BY LastPlace DEF StoreInv
<1> QED
  BY <1>1, ListedType DEF StoreInv

(* What a call of ensure_space does to keys.                               *)
LEMMA EnsureSpaceKeys ==
    ASSUME KeyedInv, StoreInv', NEW t \in Threads, NEW r, NEW tofree \in Nat \ {0},
           dropping[t] = NoVal, EnsureSpace(t, r, tofree), UNCHANGED <<keyVars, then, wanted>>
    PROVE  KeysExact' /\ KeysUnmade'
<1> DEFINE E == Evictable(r)
           weight == [i \in E |-> WeightOf(lru[i])]
<1>1. CASE SumFunction(weight) >= tofree
  <2>1. E # {}
    <3>1. ASSUME E = {} PROVE FALSE
      <4>1. SumFunction(weight) = SumFunctionOnSet(weight, DOMAIN weight) /\ DOMAIN weight = {}
        BY <3>1 DEF SumFunction
      <4> HIDE DEF weight
      <4>2. SumFunction(weight) = 0
        BY <4>1, SumEmpty
      <4> QED
        BY <1>1, <4>2
    <3> QED
      BY <3>1
  <2>2. E \in SUBSET DOMAIN lru
    BY DEF Evictable
  <2>3. Evict(t, lru[Max(E)])
    BY <1>1 DEF EnsureSpace, EvictAt
  <2> HIDE DEF E
  <2>4. lru[Max(E)] \in Listed
    BY <2>1, <2>2, LastListed DEF KeyedInv
  <2> QED
    BY <2>3, <2>4, EvictKeys
<1>2. CASE ~(SumFunction(weight) >= tofree)
  <2>1. UNCHANGED <<lru, dropping>>
    BY <1>2 DEF EnsureSpace, storeVars
  <2>2. Alone(t) /\ Own' = Own /\ Listed' = Listed
    BY <2>1 DEF Alone, Own, Listed
  <2>3. then'[t] = "key" => keyRefs[wanted'[t]] = 0
    BY DEF KeyedInv, KeysUnmade
  <2> QED
    BY <2>1, <2>2, <2>3, QuietKeys
<1> QED
  BY <1>1, <1>2

(* What the other steps do to keys.                                        *)
LEMMA OtherKeys ==
    ASSUME KeyedInv, StoreInv', NEW t \in Threads,
           \/ \E n \in Requests : Malloc(t, n)
           \/ \E u \in Threads, v \in Vals : KeepStorable(t, u, v)
           \/ \E v \in Vals : DropStorable(t, v)
           \/ ResizeHash(t) \/ CloseDocument(t)
    PROVE  KeysExact' /\ KeysUnmade'
<1>1. /\ UNCHANGED <<lru, keyVars, dropping, wanted>>
      /\ then' = then \/ (then[t] = "return" /\ then' = [then EXCEPT ![t] = "return"])
  <2>1. CASE \E n \in Requests : Malloc(t, n)
    BY <2>1 DEF Malloc, At, Allocate, storeVars, KeyedInv, StoreInv, Control
  <2>2. CASE \E u \in Threads, v \in Vals : KeepStorable(t, u, v)
    BY <2>2 DEF KeepStorable, storeVars, callVars
  <2>3. CASE \E v \in Vals : DropStorable(t, v)
    BY <2>3 DEF DropStorable, storeVars, callVars
  <2>4. CASE ResizeHash(t)
    BY <2>4 DEF ResizeHash, Undefined, storeVars, keyVars, callVars
  <2>5. CASE CloseDocument(t)
    BY <2>5 DEF CloseDocument, storeVars, callVars
  <2> QED
    BY <2>1, <2>2, <2>3, <2>4, <2>5
<1>2. then' = then /\ Listed' = Listed
  BY <1>1 DEF Listed, KeyedInv, StoreInv, TypeOK
<1>3. Alone(t) /\ Own' = Own
  BY <1>1, <1>2 DEF Alone, Own
<1>4. then'[t] = "key" => keyRefs[wanted'[t]] = 0
  BY <1>1, <1>2 DEF KeyedInv, KeysUnmade
<1> QED
  BY <1>1, <1>2, <1>3, <1>4, QuietKeys

(* What an allocation that ends does to keys.                              *)
LEMMA AllocatedKeys ==
    ASSUME KeyedInv, StoreInv', NEW t \in Threads, Allocated(t) \/ OutOfMemory(t) \/ GiveUp(t)
    PROVE  KeysExact' /\ KeysUnmade'
<1>1. UNCHANGED <<lru, keyVars>> /\ Listed' = Listed
  BY DEF Allocated, OutOfMemory, GiveUp, Undefined, storeVars, keyVars, Listed
<1>2. dropping[t] = NoVal
  BY DEF Allocated, OutOfMemory, GiveUp, KeyedInv, StoreInv, Control
<1>3. Return(t) \/ UNCHANGED <<dropping, then, wanted>>
  BY DEF Allocated, OutOfMemory, GiveUp, Undefined, callVars
<1>4. CASE Return(t)
  BY <1>1, <1>2, <1>4, ReturnKeys
<1>5. CASE UNCHANGED <<dropping, then, wanted>>
  <2>1. Alone(t) /\ Own' = Own
    BY <1>5 DEF Alone, Own
  <2>2. then'[t] = "key" => keyRefs[wanted'[t]] = 0
    BY <1>5 DEF KeyedInv, KeysUnmade
  <2> QED
    BY <1>1, <1>5, <2>1, <2>2, QuietKeys
<1> QED
  BY <1>3, <1>4, <1>5

(* What scavenging does to keys.                                           *)
LEMMA ScavengeKeys ==
    ASSUME KeyedInv, StoreInv', NEW t \in Threads, Scavenge(t) \/ Scavenged(t)
    PROVE  KeysExact' /\ KeysUnmade'
<1>1. dropping[t] = NoVal /\ UNCHANGED <<keyVars, then, wanted>>
  BY DEF Scavenge, Scavenged, At, KeyedInv, StoreInv, Control
<1>2. \/ Evictable(refs) # {} /\ \E n : ScavengeOne(t, n)
      \/ UNCHANGED <<lru, dropping>>
  BY DEF Scavenge, Scavenged, storeVars
<1>3. CASE Evictable(refs) # {} /\ \E n : ScavengeOne(t, n)
  <2> DEFINE E == Evictable(refs)
  <2>1. E \in SUBSET DOMAIN lru /\ E # {}
    BY <1>3 DEF Evictable
  <2>2. Evict(t, lru[Max(E)])
    BY <1>3 DEF ScavengeOne
  <2> HIDE DEF E
  <2>3. lru[Max(E)] \in Listed
    BY <2>1, LastListed DEF KeyedInv
  <2> QED
    BY <1>1, <2>2, <2>3, EvictKeys
<1>4. CASE UNCHANGED <<lru, dropping>>
  <2>1. Alone(t) /\ Own' = Own /\ Listed' = Listed
    BY <1>1, <1>4 DEF Alone, Own, Listed
  <2>2. then'[t] = "key" => keyRefs[wanted'[t]] = 0
    BY <1>1 DEF KeyedInv, KeysUnmade
  <2> QED
    BY <1>1, <1>4, <2>1, <2>2, QuietKeys
<1> QED
  BY <1>2, <1>3, <1>4

(* What making room does to keys.                                          *)
LEMMA MakeRoomKeys ==
    ASSUME KeyedInv, StoreInv', NEW t \in Threads, MakeRoom(t) \/ MakeMoreRoom(t)
    PROVE  KeysExact' /\ KeysUnmade'
<1>1. dropping[t] = NoVal /\ UNCHANGED <<keyVars, then, wanted>>
  BY DEF MakeRoom, MakeMoreRoom, At, KeyedInv, StoreInv, Control
<1>2. CASE MakeRoom(t)
  <2> DEFINE n == size + WeightOf(wanted[t]) - MaxSize
  <2>1. EnsureSpace(t, refs, n)
    BY <1>2 DEF MakeRoom
  <2>2. n \in Nat \ {0}
    <3>1. wanted[t] \in Vals
      BY <1>2, StoringMeans DEF MakeRoom, KeyedInv
    <3> DEFINE w == WeightOf(wanted[t])
    <3>2. w \in Nat /\ MaxSize \in Nat /\ size \in Nat
      BY <3>1, WeightType DEF KeyedInv, StoreInv, TypeOK
    <3>3. ~(size + w <= MaxSize)
      BY <1>2 DEF MakeRoom, Fits
    <3> HIDE DEF w
    <3>4. size + w - MaxSize \in Nat \ {0}
      BY <3>2, <3>3
    <3> QED
      BY <3>4 DEF w
  <2> HIDE DEF n
  <2> QED
    BY <1>1, <2>1, <2>2, EnsureSpaceKeys
<1>3. CASE MakeMoreRoom(t)
  <2> DEFINE r == [v \in Vals |-> refs[v] - (IF v = prev[t] THEN 1 ELSE 0)]
             Left == IF prev[t] = NoVal \/ count[t] >= need[t] THEN {}
                     ELSE {i \in Evictable(r) : i <= Place(prev[t])}
  <2>1. IF Left # {}
           THEN EvictAt(t, r, Max(Left), count[t]) /\ UNCHANGED need
           ELSE EnsureSpace(t, r, need[t])
    BY <1>3 DEF MakeMoreRoom
  <2>2. need[t] \in Nat \ {0}
    BY <1>3 DEF MakeMoreRoom, At, KeyedInv, StoreInv, TypeOK, Control
  <2>3. Left \in SUBSET DOMAIN lru
    <3>1. Evictable(r) \in SUBSET DOMAIN lru
      BY DEF Evictable
    <3> HIDE DEF r
    <3> QED
      BY <3>1
  <2>4. CASE Left # {}
    <3>1. Evict(t, lru[Max(Left)])
      BY <2>1, <2>4 DEF EvictAt
    <3> HIDE DEF Left, r
    <3>2. lru[Max(Left)] \in Listed
      BY <2>3, <2>4, LastListed DEF KeyedInv
    <3> QED
      BY <1>1, <3>1, <3>2, EvictKeys
  <2>5. CASE Left = {}
    <3>1. EnsureSpace(t, r, need[t])
      BY <2>1, <2>5
    <3> HIDE DEF Left, r
    <3> QED
      BY <1>1, <2>2, <3>1, EnsureSpaceKeys
  <2> QED
    BY <2>4, <2>5
<1> QED
  BY <1>2, <1>3

(* What storing does to keys.                                              *)
LEMMA StoreKeys ==
    ASSUME KeyedInv, StoreInv', NEW t \in Threads,
           StoreItem(t) \/ InsertItem(t) \/ UseExisting(t)
    PROVE  KeysExact' /\ KeysUnmade'
<1>1. CASE StoreItem(t)
  <2>1. pc[t] = "store" /\ then[t] = "store" /\ dropping[t] = NoVal
    BY <1>1, StoringMeans DEF StoreItem, KeyedInv
  <2>2. CASE Enter(t)
    BY <2>1, <2>2, EnterKeys
  <2>3. CASE Allocate(t, 1, "resize") /\ UNCHANGED <<lru, keyVars, dropping, wanted>>
    <3>1. then' = [then EXCEPT ![t] = "resize"] /\ then \in [Threads -> Loading \cup {"return"}]
      BY <2>3 DEF Allocate, KeyedInv, StoreInv, TypeOK
    <3>2. Alone(t) /\ Own'[t] = Own[t] /\ Listed' = Listed /\ then'[t] # "key"
      BY <2>1, <2>3, <3>1 DEF Alone, Own, Listed
    <3> QED
      BY <2>3, <3>2, QuietKeys
  <2> QED
    BY <1>1, <2>2, <2>3 DEF StoreItem
<1>2. CASE InsertItem(t)
  BY <1>2, EnterKeys DEF InsertItem
<1>3. CASE UseExisting(t)
  <2>1. Return(t) /\ UNCHANGED keyVars /\ Listed' = Listed
    BY <1>3 DEF UseExisting, storeVars, Listed
  <2>2. dropping[t] = NoVal
    BY <1>3 DEF UseExisting, KeyedInv, StoreInv, Control
  <2> QED
    BY <2>1, <2>2, ReturnKeys
<1> QED
  BY <1>1, <1>2, <1>3

(* What closing does to keys.                                              *)
LEMMA EmptyStoreKeys ==
    ASSUME KeyedInv, StoreInv', NEW t \in Threads, EmptyStore(t)
    PROVE  KeysExact' /\ KeysUnmade'
<1>1. then[t] = "return" /\ dropping[t] = NoVal /\ UNCHANGED keyVars
  BY DEF EmptyStore, At, KeyedInv, StoreInv, Control
<1>2. CASE lru # <<>>
  <2> DEFINE v == Head(lru)
  <2>1. Evict(t, v) /\ UNCHANGED <<then, wanted>>
    BY <1>2 DEF EmptyStore, callVars
  <2>2. v \in Listed
    <3>1. v = lru[1] /\ 1 \in DOMAIN lru
      BY <1>2 DEF KeyedInv, StoreInv, TypeOK
    <3> QED
      BY <3>1, ListedType DEF KeyedInv, StoreInv
  <2> HIDE DEF v
  <2> QED
    BY <1>1, <2>1, <2>2, EvictKeys
<1>3. CASE lru = <<>>
  <2>1. Return(t) /\ Listed' = Listed
    BY <1>3 DEF EmptyStore, storeVars, Listed
  <2> QED
    BY <1>1, <2>1, ReturnKeys
<1> QED
  BY <1>2, <1>3

(* Every step keeps the references to keys exact.                          *)
LEMMA KeysNext == KeyedInv /\ [Next]_vars => KeyedInv'
<1> SUFFICES ASSUME KeyedInv, [Next]_vars PROVE KeysExact' /\ KeysUnmade'
  BY StoreNext DEF KeyedInv
<1>1. StoreInv'
  BY StoreNext
<1>2. ASSUME NEW t \in Threads,
             \/ \E n \in Requests : Malloc(t, n)
             \/ \E u \in Threads, v \in Vals : KeepStorable(t, u, v)
             \/ \E v \in Vals : DropStorable(t, v)
             \/ ResizeHash(t) \/ CloseDocument(t)
      PROVE  KeysExact' /\ KeysUnmade'
  BY <1>1, <1>2, OtherKeys
<1>3. ASSUME NEW t \in Threads,
             (\E k \in Keys : FindItem(t, k)) \/ Create(t) \/ MakeKey(t) \/ DropKey(t)
      PROVE  KeysExact' /\ KeysUnmade'
  BY <1>1, <1>3, FindItemKeys, CreateKeys, MakeKeyKeys, DropKeyKeys
<1>4. ASSUME NEW t \in Threads, Allocated(t) \/ OutOfMemory(t) \/ GiveUp(t)
      PROVE  KeysExact' /\ KeysUnmade'
  BY <1>1, <1>4, AllocatedKeys
<1>5. ASSUME NEW t \in Threads, Scavenge(t) \/ Scavenged(t) \/ MakeRoom(t) \/ MakeMoreRoom(t)
      PROVE  KeysExact' /\ KeysUnmade'
  BY <1>1, <1>5, ScavengeKeys, MakeRoomKeys
<1>6. ASSUME NEW t \in Threads,
             StoreItem(t) \/ InsertItem(t) \/ UseExisting(t) \/ EmptyStore(t)
      PROVE  KeysExact' /\ KeysUnmade'
  BY <1>1, <1>6, StoreKeys, EmptyStoreKeys
<1>7. CASE UNCHANGED vars
  <2>1. UNCHANGED <<lru, keyRefs, leaked, dropping, then, wanted>>
    BY <1>7 DEF vars, storeVars, keyVars, callVars
  <2>2. Own' = Own
    BY <2>1 DEF Own
  <2> QED
    BY <2>1, <2>2 DEF KeyedInv, KeysExact, KeysUnmade, IsTile
<1> QED
  BY <1>2, <1>3, <1>4, <1>5, <1>6, <1>7 DEF Next

(* The invariant holds in every reachable state.                           *)
THEOREM KeyedInvHolds == Spec => []KeyedInv
  BY KeysInit, KeysNext, PTL DEF Spec

(* So does the part of it that is not about keys.                          *)
THEOREM StoreInvHolds == Spec => []StoreInv
<1>1. KeyedInv => StoreInv
  BY DEF KeyedInv
<1> QED
  BY <1>1, KeyedInvHolds, PTL
-----------------------------------------------------------------------------
(* What the invariant says *)

(* The store is type correct: its sizes and counts never go below zero, and *)
(* what an allocation asks for and frees is an unsigned int.               *)
THEOREM StoreTypeCorrect == Spec => []TypeOK
<1>1. StoreInv => TypeOK
  BY DEF StoreInv
<1> QED
  BY <1>1, StoreInvHolds, PTL

(* A value is referred to once for each thread that holds it, once by the  *)
(* store that lists it, and once by each ensure_space that has pinned it,  *)
(* for any number of threads.                                              *)
THEOREM ReferencesAreExact == Spec => []RefsExact
<1>1. StoreInv => RefsExact
  BY DEF StoreInv
<1> QED
  BY <1>1, StoreInvHolds, PTL

(* The image of a tile is not freed as long as the store lists the tile,   *)
(* or a thread stores it or has to drop its key (pdf_image.c):     *)
(* its key has references then, and holds one to the image.                *)
THEOREM TileImagesAreLive == Spec => []TileImagesLive
<1>1. KeyedInv => TileImagesLive
  <2> SUFFICES ASSUME KeyedInv, NEW v \in Vals, IsTile(v),
                      \/ v \in ToSet(lru)
                      \/ \E t \in Threads : dropping[t] = v \/ (then[t] = "store" /\ wanted[t] = v)
               PROVE  refs[Image(v)] > 0
    BY DEF TileImagesLive
  <2>1. v \in Listed \/ \E t \in Threads : v \in Own[t] \/ dropping[t] = v
    BY DEF Listed, Own
  <2>2. keyRefs[v] > 0
    BY <2>1, KeysMean DEF KeyedInv, StoreInv
  <2>3. Image(v) \in Vals /\ v \in KeysOf(Image(v))
    BY <2>2, ImageType DEF KeysOf
  <2> DEFINE m == Image(v)
  <2> HIDE DEF m
  <2>4. m \in Vals /\ v \in KeysOf(m)
    BY <2>3 DEF m
  <2>5. refs[m] > 0
    BY <2>4, KeysKeep DEF KeyedInv, StoreInv
  <2> QED
    BY <2>5 DEF m
<1> QED
  BY <1>1, KeyedInvHolds, PTL

(* The item that ensure_space goes on with is always an item of the store. *)
THEOREM PinsAreListed == Spec => []PinnedIsListed
<1>1. StoreInv => PinnedIsListed
  BY DEF StoreInv
<1> QED
  BY <1>1, StoreInvHolds, PTL

(* The hash table and the list agree on the values of hashed keys, for any *)
(* size of the table and any hash function, through insertions, removals   *)
(* and growth.                                                             *)
THEOREM TableAgrees == Spec => []HashAgrees
<1>1. StoreInv => HashAgrees
  <2> SUFFICES ASSUME StoreInv PROVE HashAgrees
    OBVIOUS
  <2>1. ASSUME NEW k \in Hashed
        PROVE  {lru[i] : i \in ItemsOf(k)} = {HashFind(table, k)} \ {NoVal}
    <3>1. k \in Keys
      BY StoreAssumption
    <3>2. {HashFind(table, k)} \ {NoVal} = {v \in Listed : KeyOf[v] = k}
      BY <3>1, FindEffect DEF StoreInv
    <3>3. {lru[i] : i \in ItemsOf(k)} = {v \in Listed : KeyOf[v] = k}
      BY DEF ItemsOf, Listed, ToSet
    <3> QED
      BY <3>2, <3>3
  <2>2. Load(table) = Cardinality({i \in DOMAIN lru : KeyOf[lru[i]] \in Hashed})
    <3> DEFINE S == {i \in DOMAIN lru : KeyOf[lru[i]] \in Hashed}
    <3>1. Load(table) = Cardinality(HashedOf(Listed))
      <4>1. WellFormed(table, SizeOf(table), Vals) /\ Contents(table) = HashedOf(Listed)
        BY DEF StoreInv, TableListed
      <4>2. Load(table) = Cardinality(Contents(table))
        BY <4>1, LoadCounts
      <4> QED
        BY <4>1, <4>2
    <3>2. HashedOf(Listed) = {lru[i] : i \in S}
      BY DEF HashedOf, Listed, ToSet
    <3>3. IsFiniteSet(S)
      <4>1. DOMAIN lru = 1 .. Len(lru) /\ Len(lru) \in Nat
        BY ListedType DEF StoreInv
      <4>2. IsFiniteSet(DOMAIN lru)
        BY <4>1, FS_Interval
      <4> QED
        BY <4>2, FS_Subset
    <3>4. \A i, j \in S : lru[i] = lru[j] => i = j
      BY DEF StoreInv, ListedOnce, Once
    <3> HIDE DEF S
    <3>5. Cardinality({lru[i] : i \in S}) = Cardinality(S)
      BY <3>3, <3>4, FiniteImage
    <3> QED
      BY <3>1, <3>2, <3>5 DEF S
  <2> QED
    BY <2>1, <2>2 DEF HashAgrees
<1> QED
  BY <1>1, StoreInvHolds, PTL

(* The size covers what is listed and what is under way, and stays below   *)
(* the maximum, for any sizes of values and any number of threads.         *)
THEOREM SizeIsCovered == Spec => []SizeCovers
<1>1. StoreInv => SizeCovers
  <2> SUFFICES ASSUME StoreInv PROVE SizeCovers
    OBVIOUS
  <2> DEFINE listed == [i \in DOMAIN lru |-> WeightOf(lru[i])]
             entering == [t \in Inserting |-> WeightOf(wanted[t])]
  <2>1. SumFunction(listed) = SumFunctionOnSet(ValueWeight, Listed)
    <3>1. DOMAIN lru = 1 .. Len(lru) /\ Len(lru) \in Nat
      BY ListedType DEF StoreInv
    <3>2. IsFiniteSet(DOMAIN lru)
      BY <3>1, FS_Interval
    <3>3. \A i \in DOMAIN lru :
             /\ lru[i] \in Listed /\ listed[i] = ValueWeight[lru[i]] /\ listed[i] \in Int
      BY ListedType, WeightType DEF StoreInv
    <3>4. \A i, j \in DOMAIN lru : lru[i] = lru[j] => i = j
      BY DEF StoreInv, ListedOnce, Once
    <3>5. \A v \in Listed : \E i \in DOMAIN lru : lru[i] = v
      BY DEF Listed, ToSet
    <3>6. SumFunction(listed) = SumFunctionOnSet(listed, DOMAIN lru)
      BY DEF SumFunction
    <3> HIDE DEF listed
    <3>7. SumFunctionOnSet(listed, DOMAIN lru) = SumFunctionOnSet(ValueWeight, Listed)
      BY <3>2, <3>3, <3>4, <3>5, SumReindexed
    <3> QED
      BY <3>6, <3>7
  <2>2. SumFunction(entering) <= SumFunctionOnSet(EnteringWeight, Counted)
    <3>1. Counted \in SUBSET Threads /\ Inserting \in SUBSET Counted
      BY DEF Counted, Inserting
    <3>2. IsFiniteSet(Counted) /\ IsFiniteSet(Inserting)
      BY <3>1, FS_Subset, StoreAssumption
    <3>3. \A u \in Counted : EnteringWeight[u] \in Nat
      <4>1. \A u \in Counted : u \in Threads /\ wanted[u] \in Vals
        BY DEF StoreInv, Counted, Loads, TypeOK
      <4> QED
        BY <4>1, WeightType DEF EnteringWeight
    <3>4. \A u \in Inserting : entering[u] = EnteringWeight[u] /\ entering[u] \in Int
      BY <3>1, <3>3 DEF EnteringWeight
    <3>5. SumFunction(entering) = SumFunctionOnSet(entering, Inserting)
      BY DEF SumFunction
    <3> HIDE DEF entering
    <3>6. SumFunctionOnSet(entering, Inserting) = SumFunctionOnSet(EnteringWeight, Inserting)
      BY <3>2, <3>4, SumSame
    <3>7. SumFunctionOnSet(EnteringWeight, Inserting) <= SumFunctionOnSet(EnteringWeight, Counted)
      BY <3>1, <3>2, <3>3, SumOfPart
    <3> QED
      BY <3>5, <3>6, <3>7
  <2>3. SumFunction(entering) \in Int
    <3>1. Inserting \in SUBSET Threads
      BY DEF Inserting
    <3>2. IsFiniteSet(Inserting)
      BY <3>1, FS_Subset, StoreAssumption
    <3>3. \A u \in Inserting : entering[u] \in Nat
      <4>1. \A u \in Inserting : u \in Threads /\ wanted[u] \in Vals
        BY DEF StoreInv, Inserting, Loads, TypeOK
      <4> QED
        BY <4>1, WeightType
    <3>4. SumFunction(entering) = SumFunctionOnSet(entering, Inserting)
      BY DEF SumFunction
    <3> HIDE DEF entering
    <3>5. SumFunctionOnSet(entering, Inserting) \in Nat
      BY <3>2, <3>3, SumOfNaturals
    <3> QED
      BY <3>4, <3>5
  <2>4. /\ SumFunctionOnSet(ValueWeight, Listed) \in Nat
        /\ SumFunctionOnSet(EnteringWeight, Counted) \in Nat
        /\ size \in Nat /\ size <= MaxSize
        /\ SumFunctionOnSet(ValueWeight, Listed) + SumFunctionOnSet(EnteringWeight, Counted) <= size
    BY ListedType, EnteringType DEF StoreInv, SizesCovered, TypeOK
  <2> HIDE DEF listed, entering
  <2>5. SumFunction(listed) + SumFunction(entering) <= size /\ size <= MaxSize
    <3> DEFINE a == SumFunction(listed)
               b == SumFunction(entering)
               c == SumFunctionOnSet(ValueWeight, Listed)
               d == SumFunctionOnSet(EnteringWeight, Counted)
    <3>1. a = c /\ b <= d /\ b \in Int /\ c \in Nat /\ d \in Nat /\ c + d <= size
      BY <2>1, <2>2, <2>3, <2>4
    <3> HIDE DEF a, b, c, d
    <3>2. a + b <= size
      BY <2>4, <3>1
    <3> QED
      BY <2>4, <3>2 DEF a, b
  <2> QED
    BY <2>5 DEF SizeCovers, listed, entering
<1> QED
  BY <1>1, StoreInvHolds, PTL

-----------------------------------------------------------------------------
(* The store keeps its promise *)

Live == {v \in Vals : refs[v] > 0}

Reached == Listed \cup UNION {kept[t] : t \in Threads}

(* What the dictionary or a thread has is not freed.                       *)
LEMMA ReachedIsLive == StoreInv => Reached \subseteq Live
<1> SUFFICES ASSUME StoreInv PROVE Reached \subseteq Live
  OBVIOUS
<1>1. \A v \in Listed : v \in Vals
  BY ListedType DEF StoreInv
<1>2. \A t \in Threads : kept[t] \subseteq Vals
  BY DEF StoreInv, TypeOK
<1>3. \A v \in Vals : v \in Listed \/ (\E t \in Threads : v \in kept[t]) => refs[v] > 0
  BY RefsMean DEF StoreInv
<1> HIDE DEF Listed
<1> QED
  BY <1>1, <1>2, <1>3 DEF Live, Reached

(* The invariant before and after a step, and what it says of live values. *)
Kept ==
    /\ StoreInv /\ StoreInv'
    /\ Reached \subseteq Live /\ Reached' \subseteq Live'

(* Every step from a state of the invariant is one the refinement may rely *)
(* on.                                                                     *)
LEMMA KeptHolds == KeyedInv /\ [Next]_vars => Kept
<1>1. KeyedInv /\ [Next]_vars => StoreInv /\ StoreInv'
  BY StoreNext DEF KeyedInv
<1>2. StoreInv' => (Reached \subseteq Live)'
  BY ReachedIsLive, PTL
<1> QED
  BY <1>1, <1>2, ReachedIsLive DEF Kept

(* References to values that are reached before and after make none live   *)
(* and free none.                                                          *)
LEMMA SameLive ==
    ASSUME Kept, \A v \in Vals : refs'[v] = refs[v] \/ (v \in Reached /\ v \in Reached')
    PROVE  Live' = Live
<1> HIDE DEF Reached
<1> QED
  BY DEF Kept, Live

(* References that are dropped free what nobody has.                       *)
LEMMA LessLive ==
    ASSUME Kept, \A v \in Vals : refs'[v] > 0 => refs[v] > 0 \/ v \in Reached
    PROVE  Promise!FreeUnused
<1>1. Live' \subseteq Live
  <2> HIDE DEF Reached
  <2> QED
    BY DEF Kept, Live
<1>2. Listed' \cup UNION {kept'[t] : t \in Threads} \subseteq Live'
  BY DEF Kept, Reached
<1> QED
  BY <1>1, <1>2 DEF Promise!FreeUnused, Live, Listed

(* A step that lists and holds the same values is none of the dictionary.  *)
LEMMA SameMaps ==
    ASSUME Kept, Listed' = Listed, kept' = kept, closed' = closed, Live' = Live
    PROVE  UNCHANGED Promise!vars
  BY DEF Live, Listed, Promise!vars

(* A hit and the value of a racing thread are got from the dictionary.     *)
LEMMA GetMaps ==
    ASSUME Kept, NEW t \in Threads, NEW v \in Listed, ~closed, Listed' = Listed, closed' = closed,
           kept' = [kept EXCEPT ![t] = @ \cup {v}], refs' = [refs EXCEPT ![v] = @ + 1]
    PROVE  Promise!Next
<1>1. v \in Vals
  BY ListedType DEF Kept, StoreInv
<1>2. Live' = Live
  <2>1. v \in Reached /\ v \in Reached'
    BY DEF Reached
  <2>2. \A u \in Vals : u # v => refs'[u] = refs[u]
    BY DEF Kept, StoreInv, TypeOK
  <2> QED
    BY <2>1, <2>2, SameLive
<1>3. Promise!Get(t, v)
  BY <1>2 DEF Promise!Get, Live, Listed
<1> QED
  BY <1>1, <1>3 DEF Promise!Next

(* What a thread drops is freed if nobody has it.                          *)
LEMMA DropMaps ==
    ASSUME Kept, NEW t \in Threads, NEW v \in kept[t], Listed' = Listed, closed' = closed,
           kept' = [kept EXCEPT ![t] = @ \ {v}], refs' = [refs EXCEPT ![v] = @ - 1]
    PROVE  Promise!Next
<1>1. v \in Vals /\ refs \in [Vals -> Nat]
  BY DEF Kept, StoreInv, TypeOK
<1>2. \A u \in Vals : refs'[u] > 0 => refs[u] > 0
  BY <1>1
<1>3. Promise!FreeUnused
  BY <1>2, LessLive
<1>4. Promise!Drop(t, v)
  BY <1>3 DEF Promise!Drop, Listed
<1> QED
  BY <1>1, <1>4 DEF Promise!Next

(* What is evicted is freed if no thread has it, as long as the document   *)
(* is open.                                                                *)
LEMMA EvictMaps ==
    ASSUME Kept, NEW t \in Threads, NEW v \in Listed, Evict(t, v), kept' = kept, closed' = closed,
           ~closed => \A u \in Threads : v \notin kept[u],
           \A u \in Vals : refs'[u] > 0 => refs[u] > 0 \/ u \in Reached
    PROVE  Promise!Next
<1>1. Listed' = Listed \ {v}
  BY EvictLists DEF Kept
<1>2. v \in Vals
  BY ListedType DEF Kept, StoreInv
<1>3. Promise!FreeUnused
  BY LessLive
<1>4. Promise!Evict(v)
  BY <1>1, <1>3 DEF Promise!Evict, Listed
<1> QED
  BY <1>2, <1>4 DEF Promise!Next

(* Looking up: a hit gets the value, a miss leaves the dictionary alone.   *)
LEMMA FindItemMaps ==
    ASSUME Kept, NEW t \in Threads, NEW k \in Keys, FindItem(t, k)
    PROVE  [Promise!Next]_Promise!vars
<1> DEFINE found == Found(k)
<1>0. /\ ~closed /\ UNCHANGED <<table, size, closed>>
      /\ IF found # NoVal
           THEN /\ lru' = <<found>> \o RemoveAt(lru, Place(found))
                /\ kept' = [kept EXCEPT ![t] = @ \cup {found}]
                /\ refs' = [refs EXCEPT ![found] = @ + 1]
           ELSE UNCHANGED <<lru, kept, refs>>
  BY DEF FindItem, Found, Hit
<1>1. CASE found # NoVal
  <2>1. found \in Listed
    BY <1>1, FoundIsListed DEF Kept
  <2> HIDE DEF found
  <2>2. Listed' = Listed
    BY <1>0, <1>1, <2>1, FrontEffect DEF Kept, StoreInv
  <2> QED
    BY <1>0, <1>1, <2>1, <2>2, GetMaps
<1>2. CASE found = NoVal
  <2>1. Listed' = Listed /\ kept' = kept /\ closed' = closed /\ Live' = Live
    BY <1>0, <1>2 DEF Listed, Live
  <2> QED
    BY <2>1, SameMaps
<1> QED
  BY <1>1, <1>2

(* A value that is loaded is a new one.                                    *)
LEMMA CreateMaps ==
    ASSUME Kept, NEW t \in Threads, Create(t)
    PROVE  Promise!Next
<1>1. PICK v \in Vals :
         /\ refs[v] = 0
         /\ refs' = [refs EXCEPT ![v] = 1]
         /\ kept' = [kept EXCEPT ![t] = @ \cup {v}]
  BY DEF Create
<1>2. Listed' = Listed /\ closed' = closed /\ lru' = lru
  BY DEF Create, storeVars, Listed
<1>3. refs \in [Vals -> Nat]
  BY DEF Kept, StoreInv, TypeOK
<1>4. refs' = [u \in Vals |-> IF u = v THEN 1 ELSE refs[u]]
  BY <1>1, <1>3
<1>5. v \notin Live /\ Live' = Live \cup {v}
  BY <1>1, <1>3, <1>4 DEF Live
<1>6. Promise!Create(t, v)
  BY <1>1, <1>2, <1>5 DEF Promise!Create, Live
<1> QED
  BY <1>6 DEF Promise!Next

(* A value that is stored is put into the dictionary by the thread that    *)
(* has loaded it, unless the key is in there.                              *)
LEMMA EnterMaps ==
    ASSUME Kept, NEW t \in Threads, pc[t] \in {"store", "insert"}, Enter(t), closed' = closed
    PROVE  [Promise!Next]_Promise!vars
<1> DEFINE v == wanted[t]
           existing == IF KeyOf[v] \in Hashed THEN HashFind(table, KeyOf[v]) ELSE NoVal
<1>1. v \in kept[t] /\ v \in Vals /\ v \notin Listed /\ ~closed
  BY StoringMeans DEF Kept
<1>2. KeyOf[v] \in Hashed =>
         /\ {HashFind(table, KeyOf[v])} \ {NoVal} = {u \in Listed : KeyOf[u] = KeyOf[v]}
         /\ HashFind(table, KeyOf[v]) # NoVal => HashFind(table, KeyOf[v]) \in Listed
  <2> SUFFICES ASSUME KeyOf[v] \in Hashed
               PROVE  /\ {HashFind(table, KeyOf[v])} \ {NoVal} = {u \in Listed : KeyOf[u] = KeyOf[v]}
                      /\ HashFind(table, KeyOf[v]) # NoVal => HashFind(table, KeyOf[v]) \in Listed
    OBVIOUS
  <2> DEFINE k == KeyOf[v]
  <2>1. k \in Keys /\ k \in Hashed
    BY <1>1, WeightType
  <2> HIDE DEF k
  <2>2. /\ {HashFind(table, k)} \ {NoVal} = {u \in Listed : KeyOf[u] = k}
        /\ HashFind(table, k) # NoVal => HashFind(table, k) \in Listed
    BY <2>1, FindEffect DEF Kept, StoreInv
  <2> QED
    BY <2>2 DEF k
<1>3. CASE existing = NoVal
  <2>1. lru' = <<v>> \o lru /\ kept' = kept /\ refs' = [refs EXCEPT ![v] = @ + 1]
    BY <1>3 DEF Enter
  <2> HIDE DEF v
  <2>2. Listed' = Listed \cup {v}
    <3>1. lru \in Seq(Vals) /\ Once(lru)
      BY DEF Kept, StoreInv, TypeOK, ListedOnce
    <3> DEFINE s == <<v>> \o lru
    <3>2. ToSet(s) = ToSet(lru) \cup {v}
      BY <1>1, <3>1, ConsProperties DEF Listed
    <3>3. lru' = s
      BY <2>1
    <3> HIDE DEF s
    <3> QED
      BY <3>2, <3>3 DEF Listed
  <2>3. Live' = Live
    <3>1. v \in Reached
      BY <1>1 DEF Reached
    <3>2. v \in Reached'
      BY <2>2 DEF Reached
    <3>3. \A u \in Vals : u # v => refs'[u] = refs[u]
      BY <2>1 DEF Kept, StoreInv, TypeOK
    <3> QED
      BY <3>1, <3>2, <3>3, SameLive
  <2>4. KeyOf[v] \in Hashed => \A u \in Listed : KeyOf[u] # KeyOf[v]
    BY <1>2, <1>3 DEF v
  <2>5. Promise!Put(t, v)
    BY <1>1, <2>1, <2>2, <2>3, <2>4 DEF Promise!Put, Live, Listed
  <2> QED
    BY <1>1, <2>5 DEF Promise!Next
<1>4. CASE existing # NoVal
  <2>1. existing \in Listed
    BY <1>2, <1>4
  <2>2. /\ refs' = [refs EXCEPT ![existing] = @ + 1]
        /\ kept' = [kept EXCEPT ![t] = @ \cup {existing}] \/ kept' = kept
        /\ Listed' = Listed
    BY <1>4 DEF Enter, Listed
  <2> HIDE DEF existing
  <2>3. CASE kept' = [kept EXCEPT ![t] = @ \cup {existing}]
    BY <1>1, <2>1, <2>2, <2>3, GetMaps
  <2>4. CASE kept' = kept
    <3>1. existing \in Reached /\ existing \in Reached'
      BY <2>1, <2>2 DEF Reached
    <3>2. \A u \in Vals : u # existing => refs'[u] = refs[u]
      BY <2>2 DEF Kept, StoreInv, TypeOK
    <3>3. Live' = Live
      BY <3>1, <3>2, SameLive
    <3> QED
      BY <2>2, <2>4, <3>3, SameMaps
  <2> QED
    BY <2>2, <2>3, <2>4
<1> QED
  BY <1>3, <1>4

(* ensure_space takes nothing out that a thread has.                       *)
LEMMA EvictAtMaps ==
    ASSUME Kept, NEW t \in Threads, NEW i \in Evictable(Unpinned(t)), NEW sofar,
           EvictAt(t, Unpinned(t), i, sofar), kept' = kept, closed' = closed
    PROVE  Promise!Next
<1> DEFINE v == lru[i]
<1>1. v \in Listed /\ \A u \in Threads : v \notin kept[u]
  BY EvictableMeans DEF Kept
<1>2. Evict(t, v)
  BY DEF EvictAt
<1>3. \A u \in Vals : refs'[u] > 0 => refs[u] > 0 \/ u \in Reached
  <2> DEFINE p == IF i = 1 THEN NoVal ELSE lru[i - 1]
  <2>1. p # NoVal => p \in Listed
    <3>1. i \in DOMAIN lru /\ DOMAIN lru = 1 .. Len(lru) /\ Len(lru) \in Nat
      <4>1. i \in DOMAIN lru
        BY EvictableMeans DEF Kept
      <4>2. lru \in Seq(Vals)
        BY DEF Kept, StoreInv, TypeOK
      <4> QED
        BY <4>1, <4>2
    <3>2. i # 1 => i - 1 \in DOMAIN lru
      BY <3>1
    <3> QED
      BY <3>2, ListedType DEF Kept, StoreInv
  <2>2. refs' = Pinned(Unpinned(t), v, p)
    BY DEF EvictAt
  <2> HIDE DEF p, v
  <2> SUFFICES ASSUME NEW u \in Vals, u \notin Reached, refs'[u] > 0
               PROVE  refs[u] > 0
    OBVIOUS
  <2>3. u # p
    <3>1. u \notin Listed /\ u # NoVal
      BY StoreAssumption DEF Reached
    <3> QED
      BY <2>1, <3>1
  <2>4. refs[u] \in Nat
    BY DEF Kept, StoreInv, TypeOK
  <2>5. refs'[u] = (refs[u] - (IF u = prev[t] THEN 1 ELSE 0)) - (IF u = v THEN 1 ELSE 0) + 0
    BY <2>2, <2>3 DEF Pinned, Unpinned
  <2> QED
    BY <2>4, <2>5
<1> HIDE DEF v
<1> QED
  BY <1>1, <1>2, <1>3, EvictMaps

(* Without a pin there is none to leave out.                               *)
LEMMA NothingPinned ==
    ASSUME StoreInv, NEW t \in Threads, pc[t] \notin {"space", "undefined"}
    PROVE  refs = Unpinned(t)
<1>1. prev[t] = NoVal
  BY DEF StoreInv, Control
<1>2. \A u \in Vals : refs[u] \in Nat /\ u # NoVal
  BY StoreAssumption DEF StoreInv, TypeOK
<1>3. refs = [u \in Vals |-> refs[u]]
  BY DEF StoreInv, TypeOK
<1>4. \A u \in Vals : refs[u] - (IF u = prev[t] THEN 1 ELSE 0) = refs[u]
  BY <1>1, <1>2
<1> QED
  BY <1>3, <1>4, Zenon DEF Unpinned

(* Nor does scavenge.                                                      *)
LEMMA ScavengeOneMaps ==
    ASSUME Kept, NEW t \in Threads, NEW sofar, pc[t] \in {"malloc", "scavenge"},
           Evictable(refs) # {}, ScavengeOne(t, sofar), kept' = kept, closed' = closed
    PROVE  Promise!Next
<1> DEFINE i == Max(Evictable(refs))
           v == lru[i]
<1>1. i \in Evictable(refs)
  <2>1. Evictable(refs) \in SUBSET DOMAIN lru
    BY DEF Evictable
  <2> QED
    BY <2>1, LastPlace DEF Kept, StoreInv
<1>2. Evict(t, v)
  BY DEF ScavengeOne
<1>3. i \in Evictable(Unpinned(t))
  BY <1>1, NothingPinned DEF Kept
<1> HIDE DEF i
<1>4. v \in Listed /\ \A u \in Threads : v \notin kept[u]
  BY <1>3, EvictableMeans DEF Kept
<1>5. \A u \in Vals : refs'[u] > 0 => refs[u] > 0
  <2>1. refs' = [refs EXCEPT ![v] = 0]
    BY DEF ScavengeOne, i
  <2> HIDE DEF v
  <2> QED
    BY <2>1 DEF Kept, StoreInv, TypeOK
<1> HIDE DEF v
<1> QED
  BY <1>2, <1>4, <1>5, EvictMaps

(* A call of ensure_space evicts, or changes nothing in the dictionary.    *)
LEMMA EnsureSpaceMaps ==
    ASSUME Kept, NEW t \in Threads, NEW tofree \in Nat, tofree > 0,
           EnsureSpace(t, Unpinned(t), tofree), kept' = kept, closed' = closed
    PROVE  [Promise!Next]_Promise!vars
<1> DEFINE r == Unpinned(t)
           E == Evictable(r)
           weight == [i \in E |-> WeightOf(lru[i])]
           enough == SumFunction(weight) >= tofree
<1>1. CASE enough
  <2>1. EvictAt(t, r, Max(E), 0)
    BY <1>1 DEF EnsureSpace
  <2>2. E # {}
    <3>1. ASSUME E = {} PROVE FALSE
      <4>1. SumFunction(weight) = SumFunctionOnSet(weight, DOMAIN weight) /\ DOMAIN weight = {}
        BY <3>1 DEF SumFunction
      <4> HIDE DEF weight
      <4>2. SumFunction(weight) = 0
        BY <4>1, SumEmpty
      <4> QED
        BY <1>1, <4>2
    <3> QED
      BY <3>1
  <2>3. E \in SUBSET DOMAIN lru
    BY DEF Evictable
  <2> DEFINE m == Max(E)
  <2>4. m \in E
    <3> HIDE DEF E
    <3> QED
      BY <2>2, <2>3, LastPlace DEF Kept, StoreInv
  <2>5. m \in Evictable(Unpinned(t)) /\ EvictAt(t, Unpinned(t), m, 0)
    BY <2>1, <2>4
  <2> HIDE DEF m, E, r
  <2> QED
    BY <2>5, EvictAtMaps
<1>2. CASE ~enough
  <2>1. Listed' = Listed /\ refs' = r
    BY <1>2 DEF EnsureSpace, storeVars, Listed
  <2>2. \A u \in Vals : refs'[u] = refs[u] \/ (u \in Reached /\ u \in Reached')
    <3> SUFFICES ASSUME NEW u \in Vals, refs'[u] # refs[u]
                 PROVE  u \in Listed
      BY <2>1 DEF Reached
    <3>1. refs[u] \in Nat /\ u # NoVal
      BY StoreAssumption DEF Kept, StoreInv, TypeOK
    <3>2. u = prev[t]
      BY <2>1, <3>1 DEF Unpinned
    <3> QED
      BY <3>1, <3>2 DEF Kept, StoreInv, PinnedIsListed, Listed
  <2>3. Live' = Live
    BY <2>2, SameLive
  <2> QED
    BY <2>1, <2>3, SameMaps
<1> QED
  BY <1>1, <1>2

(* The first call of ensure_space evicts values the promise lets go, or    *)
(* changes nothing it tells apart.                                         *)
LEMMA MakeRoomMaps ==
    ASSUME Kept, NEW t \in Threads, MakeRoom(t)
    PROVE  [Promise!Next]_Promise!vars
<1> DEFINE w == WeightOf(wanted[t])
           f == size + w - MaxSize
<1>1. pc[t] = "store" /\ ~Fits(wanted[t])
  BY DEF MakeRoom
<1>2. w \in Nat /\ MaxSize \in Nat /\ size \in Nat
  BY <1>1, StoringMeans, WeightType DEF Kept, StoreInv, TypeOK
<1>3. f \in Nat /\ f > 0
  <2>1. ~(size + w <= MaxSize)
    BY <1>1 DEF Fits
  <2> HIDE DEF w
  <2> QED
    BY <1>2, <2>1
<1>4. EnsureSpace(t, refs, f) /\ kept' = kept /\ closed' = closed
  BY DEF MakeRoom
<1>5. EnsureSpace(t, Unpinned(t), f)
  BY <1>1, <1>4, NothingPinned DEF Kept
<1> HIDE DEF f
<1> QED
  BY <1>3, <1>4, <1>5, EnsureSpaceMaps

(* Another call of ensure_space maps likewise.                             *)
LEMMA MakeMoreRoomMaps ==
    ASSUME Kept, NEW t \in Threads, MakeMoreRoom(t)
    PROVE  [Promise!Next]_Promise!vars
<1> DEFINE r == Unpinned(t)
           Left == IF prev[t] = NoVal \/ count[t] >= need[t] THEN {}
                   ELSE {i \in Evictable(r) : i <= Place(prev[t])}
<1>1. /\ pc[t] = "space" /\ kept' = kept /\ closed' = closed
      /\ IF Left # {}
           THEN EvictAt(t, r, Max(Left), count[t])
           ELSE EnsureSpace(t, r, need[t])
  BY DEF MakeMoreRoom, At, Unpinned
<1>2. need[t] \in Nat /\ need[t] > 0
  <2>1. need[t] \in 0 .. Word - 1 /\ need[t] > 0
    BY <1>1 DEF Kept, StoreInv, TypeOK, Control
  <2>2. Word \in Nat
    BY StoreAssumption
  <2> QED
    BY <2>1, <2>2
<1>3. CASE Left # {}
  <2>1. Left \subseteq Evictable(r) /\ Evictable(r) \subseteq DOMAIN lru
    BY DEF Evictable
  <2> DEFINE m == Max(Left)
  <2>2. EvictAt(t, r, m, count[t])
    BY <1>1, <1>3
  <2>3. m \in Left
    <3> HIDE DEF Left
    <3>1. Left \in SUBSET DOMAIN lru
      BY <2>1
    <3> QED
      BY <1>3, <3>1, LastPlace DEF Kept, StoreInv
  <2>4. m \in Evictable(Unpinned(t)) /\ EvictAt(t, Unpinned(t), m, count[t])
    <3> HIDE DEF Left, m
    <3> QED
      BY <2>1, <2>2, <2>3
  <2> HIDE DEF Left, m, r
  <2> QED
    BY <1>1, <2>4, EvictAtMaps
<1>4. CASE Left = {}
  <2>1. EnsureSpace(t, Unpinned(t), need[t])
    BY <1>1, <1>4
  <2> HIDE DEF Left
  <2> QED
    BY <1>1, <1>2, <2>1, EnsureSpaceMaps
<1> QED
  BY <1>3, <1>4

(* Every step of a thread is one of the dictionary, or none.               *)
LEMMA StepMaps ==
    ASSUME Kept, [Next]_vars
    PROVE  [Promise!Next]_Promise!vars
<1>1. ASSUME NEW t \in Threads, NEW n \in Requests, Malloc(t, n)
      PROVE  [Promise!Next]_Promise!vars
  <2>1. Listed' = Listed /\ kept' = kept /\ closed' = closed /\ Live' = Live
    BY <1>1 DEF Malloc, storeVars, Listed, Live
  <2> QED
    BY <2>1, SameMaps
<1>2. ASSUME NEW t \in Threads, NEW k \in Keys, FindItem(t, k)
      PROVE  [Promise!Next]_Promise!vars
  BY <1>2, FindItemMaps
<1>3. ASSUME NEW t \in Threads, NEW u \in Threads, NEW v \in Vals, KeepStorable(t, u, v)
      PROVE  [Promise!Next]_Promise!vars
  <2>1. /\ v \in kept[t] /\ Listed' = Listed /\ closed' = closed
        /\ kept' = [kept EXCEPT ![u] = @ \cup {v}] /\ refs' = [refs EXCEPT ![v] = @ + 1]
    BY <1>3 DEF KeepStorable, storeVars, Listed
  <2>2. v \in Reached /\ v \in Reached' /\ \A w \in Vals : w # v => refs'[w] = refs[w]
    <3>1. refs \in [Vals -> Nat] /\ kept \in [Threads -> SUBSET Vals]
      BY DEF Kept, StoreInv, TypeOK
    <3>2. v \in kept'[u]
      BY <2>1, <3>1
    <3> QED
      BY <2>1, <3>1, <3>2 DEF Reached
  <2>3. Live' = Live
    BY <2>2, SameLive
  <2>4. Promise!Give(t, u, v)
    BY <2>1, <2>3 DEF Promise!Give, Live, Listed
  <2> QED
    BY <2>4 DEF Promise!Next
<1>4. ASSUME NEW t \in Threads, NEW v \in Vals, DropStorable(t, v)
      PROVE  [Promise!Next]_Promise!vars
  <2>1. /\ v \in kept[t] /\ Listed' = Listed /\ closed' = closed
        /\ kept' = [kept EXCEPT ![t] = @ \ {v}] /\ refs' = [refs EXCEPT ![v] = @ - 1]
    BY <1>4 DEF DropStorable, storeVars, Listed
  <2> QED
    BY <2>1, DropMaps
<1>5. ASSUME NEW t \in Threads, UseExisting(t)
      PROVE  [Promise!Next]_Promise!vars
  <2> DEFINE v == wanted[t]
  <2>1. v \in kept[t]
    BY <1>5 DEF Kept, StoreInv, Control, Loads, UseExisting
  <2>2. Listed' = Listed /\ closed' = closed /\ kept' = [kept EXCEPT ![t] = @ \ {v}]
        /\ refs' = [refs EXCEPT ![v] = @ - 1]
    BY <1>5 DEF UseExisting, storeVars, Listed
  <2> HIDE DEF v
  <2> QED
    BY <2>1, <2>2, DropMaps
<1>6. ASSUME NEW t \in Threads, Create(t)
      PROVE  [Promise!Next]_Promise!vars
  BY <1>6, CreateMaps
<1>7. ASSUME NEW t \in Threads, Allocated(t) \/ OutOfMemory(t) \/ GiveUp(t)
      PROVE  [Promise!Next]_Promise!vars
  <2>1. Listed' = Listed /\ kept' = kept /\ closed' = closed /\ Live' = Live
    BY <1>7 DEF Allocated, OutOfMemory, GiveUp, Undefined, storeVars, Listed, Live
  <2> QED
    BY <2>1, SameMaps
<1>8. ASSUME NEW t \in Threads, Scavenge(t)
      PROVE  [Promise!Next]_Promise!vars
  <2>1. /\ pc[t] = "malloc" /\ Evictable(refs) # {} /\ ScavengeOne(t, 0)
        /\ kept' = kept /\ closed' = closed
    BY <1>8 DEF Scavenge
  <2> QED
    BY <2>1, ScavengeOneMaps
<1>9. ASSUME NEW t \in Threads, Scavenged(t)
      PROVE  [Promise!Next]_Promise!vars
  <2>1. pc[t] = "scavenge" /\ kept' = kept /\ closed' = closed
    BY <1>9 DEF Scavenged, At
  <2>2. CASE count[t] < need[t] /\ Evictable(refs) # {}
    <3>1. ScavengeOne(t, count[t])
      BY <1>9, <2>2 DEF Scavenged
    <3> QED
      BY <2>1, <2>2, <3>1, ScavengeOneMaps
  <2>3. CASE ~(count[t] < need[t] /\ Evictable(refs) # {})
    <3>1. Listed' = Listed /\ Live' = Live
      BY <1>9, <2>3 DEF Scavenged, storeVars, Listed, Live
    <3> QED
      BY <2>1, <3>1, SameMaps
  <2> QED
    BY <2>2, <2>3
<1>10. ASSUME NEW t \in Threads, StoreItem(t)
       PROVE  [Promise!Next]_Promise!vars
  <2>1. pc[t] = "store" /\ closed' = closed
    BY <1>10 DEF StoreItem
  <2>2. Enter(t) \/ (Listed' = Listed /\ kept' = kept /\ Live' = Live)
    BY <1>10 DEF StoreItem, Listed, Live
  <2> QED
    BY <2>1, <2>2, EnterMaps, SameMaps
<1>11. ASSUME NEW t \in Threads, MakeRoom(t) \/ MakeMoreRoom(t)
       PROVE  [Promise!Next]_Promise!vars
  BY <1>11, MakeRoomMaps, MakeMoreRoomMaps
<1>12. ASSUME NEW t \in Threads, ResizeHash(t)
       PROVE  [Promise!Next]_Promise!vars
  <2>1. Listed' = Listed /\ kept' = kept /\ closed' = closed /\ Live' = Live
    BY <1>12 DEF ResizeHash, Undefined, storeVars, Listed, Live
  <2> QED
    BY <2>1, SameMaps
<1>13. ASSUME NEW t \in Threads, InsertItem(t)
       PROVE  [Promise!Next]_Promise!vars
  BY <1>13, EnterMaps DEF InsertItem
<1>14. ASSUME NEW t \in Threads, CloseDocument(t)
       PROVE  [Promise!Next]_Promise!vars
  <2>1. /\ ~closed /\ closed' = TRUE /\ Listed' = Listed /\ kept' = kept /\ lru' = lru
        /\ refs' = refs
    BY <1>14 DEF CloseDocument, storeVars, Listed
  <2>2. Promise!Close
    BY <2>1 DEF Promise!Close
  <2> QED
    BY <2>2 DEF Promise!Next
<1>15. ASSUME NEW t \in Threads, EmptyStore(t)
       PROVE  [Promise!Next]_Promise!vars
  <2>1. closed /\ kept' = kept /\ closed' = closed
    BY <1>15 DEF EmptyStore, At, Kept, StoreInv, Control
  <2>2. CASE lru # <<>>
    <3> DEFINE v == Head(lru)
    <3>1. Evict(t, v)
      BY <1>15, <2>2 DEF EmptyStore
    <3>2. v \in Listed
      <4>1. v = lru[1] /\ 1 \in DOMAIN lru
        BY <2>2 DEF Kept, StoreInv, TypeOK
      <4> QED
        BY <4>1, ListedType DEF Kept, StoreInv
    <3>3. refs' = [refs EXCEPT ![v] = @ - 1] /\ v \in Vals
      BY <1>15, <2>2, <3>2, ListedType DEF EmptyStore, Kept, StoreInv
    <3> HIDE DEF v
    <3>4. \A u \in Vals : refs'[u] > 0 => refs[u] > 0
      <4>1. refs \in [Vals -> Nat]
        BY DEF Kept, StoreInv, TypeOK
      <4> QED
        BY <3>3, <4>1
    <3> QED
      BY <2>1, <3>1, <3>2, <3>4, EvictMaps
  <2>3. CASE lru = <<>>
    <3>1. Listed' = Listed /\ Live' = Live
      BY <1>15, <2>3 DEF EmptyStore, storeVars, Listed, Live
    <3> QED
      BY <2>1, <3>1, SameMaps
  <2> QED
    BY <2>2, <2>3
<1>16. CASE UNCHANGED vars
  <2>1. Listed' = Listed /\ kept' = kept /\ closed' = closed /\ Live' = Live
    BY <1>16 DEF vars, storeVars, Listed, Live
  <2> QED
    BY <2>1, SameMaps
<1>17. ASSUME NEW t \in Threads, MakeKey(t)
       PROVE  [Promise!Next]_Promise!vars
  <2> DEFINE m == Image(wanted[t])
  <2>1. /\ Listed' = Listed /\ kept' = kept /\ closed' = closed
        /\ refs' = [refs EXCEPT ![m] = @ + 1]
    BY <1>17 DEF MakeKey, storeVars, Listed
  <2>2. m \in kept[t]
    BY <1>17 DEF MakeKey, Kept, StoreInv, Loads
  <2> HIDE DEF m
  <2>3. m \in Reached /\ m \in Reached' /\ \A w \in Vals : w # m => refs'[w] = refs[w]
    <3>1. refs \in [Vals -> Nat]
      BY DEF Kept, StoreInv, TypeOK
    <3> QED
      BY <2>1, <2>2, <3>1 DEF Reached
  <2>4. Live' = Live
    BY <2>3, SameLive
  <2> QED
    BY <2>1, <2>4, SameMaps
<1>18. ASSUME NEW t \in Threads, DropKey(t)
       PROVE  [Promise!Next]_Promise!vars
  <2> DEFINE m == Image(dropping[t])
  <2>1. /\ UNCHANGED <<lru, kept, closed>>
        /\ refs' = refs \/ refs' = [refs EXCEPT ![m] = @ - 1]
    BY <1>18 DEF DropKey, storeVars
  <2> HIDE DEF m
  <2>2. \A u \in Vals : refs'[u] > 0 => refs[u] > 0
    <3>1. refs \in [Vals -> Nat]
      BY DEF Kept, StoreInv, TypeOK
    <3>2. CASE refs' = [refs EXCEPT ![m] = @ - 1]
      BY <3>1, <3>2
    <3> QED
      BY <2>1, <3>2
  <2>3. Promise!FreeUnused
    BY <2>2, LessLive
  <2>4. Promise!Free
    BY <2>1, <2>3 DEF Promise!Free
  <2> QED
    BY <2>4 DEF Promise!Next
<1> QED
  BY <1>1, <1>2, <1>3, <1>4, <1>5, <1>6, <1>7, <1>8, <1>9, <1>10, <1>11, <1>12, <1>13,
     <1>14, <1>15, <1>16, <1>17, <1>18 DEF Next

(* The empty store is an empty dictionary.                                 *)
LEMMA InitMaps == Init => Promise!Init
<1> SUFFICES ASSUME Init PROVE Promise!Init
  OBVIOUS
<1>1. ToSet(lru) = {} /\ {v \in Vals : refs[v] > 0} = {}
  BY DEF Init, ToSet
<1> QED
  BY <1>1 DEF Init, Promise!Init

(* The store is the dictionary it promises to be: whatever its threads     *)
(* find, store, evict and scavenge at a time, a value exists as long as    *)
(* the dictionary or a thread has it, no hashed key has two values, and    *)
(* nothing that is in use is taken out while the document is open.         *)
THEOREM StoreKeepsPromise == Spec => PromiseSpec
<1>1. KeyedInv /\ [Next]_vars => [Promise!Next]_Promise!vars
  BY KeptHolds, StepMaps
<1> QED
  BY <1>1, InitMaps, KeyedInvHolds, PTL DEF Spec, PromiseSpec, Promise!Spec
===============================================================================
