---------------------------- MODULE BitmapPoolProofs ----------------------------
(***************************************************************************)
(* Proofs about BitmapPool, for any threads, bitmaps and limits.  Whoever  *)
(* calls: type correctness, and the memory limit.  Where one thread gets   *)
(* bitmaps: no bitmap has two owners, and releaseImpl finds what it        *)
(* releases.  Where one thread calls, and others only give bitmaps back:   *)
(* `used' is exact, has pixels, and the counters agree with both maps.     *)
(***************************************************************************)
EXTENDS BitmapPool, FoldProofs, SequenceTheorems

-----------------------------------------------------------------------------
(* Sequences *)

(* RemoveAt shortens a sequence by one entry and moves the later ones up.  *)
LEMMA RemoveAtProperties ==
    ASSUME NEW S, NEW s \in Seq(S), NEW i \in 1 .. Len(s)
    PROVE  /\ RemoveAt(s, i) \in Seq(S)
           /\ Len(RemoveAt(s, i)) = Len(s) - 1
           /\ \A j \in 1 .. Len(s) - 1 :
                 RemoveAt(s, i)[j] = IF j < i THEN s[j] ELSE s[j + 1]
<1> DEFINE a == SubSeq(s, 1, i - 1)
           b == SubSeq(s, i + 1, Len(s))
<1>1. Len(s) \in Nat /\ \A j \in 1 .. Len(s) : s[j] \in S
  BY LenProperties, ElementOfSeq
<1>2. /\ a \in Seq(S) /\ Len(a) = i - 1
      /\ \A j \in 1 .. i - 1 : a[j] = s[j]
  BY <1>1, SubSeqProperties
<1>3. /\ b \in Seq(S) /\ Len(b) = Len(s) - i
      /\ \A j \in 1 .. Len(s) - i : b[j] = s[j + i]
  <2>1. /\ b \in Seq(S)
        /\ Len(b) = IF i + 1 <= Len(s) THEN Len(s) - (i + 1) + 1 ELSE 0
        /\ \A j \in 1 .. Len(s) - (i + 1) + 1 : b[j] = s[(i + 1) + j - 1]
    BY <1>1, SubSeqProperties
  <2>2. ASSUME NEW j \in 1 .. Len(s) - i PROVE b[j] = s[j + i]
    <3>1. j \in 1 .. Len(s) - (i + 1) + 1 /\ (i + 1) + j - 1 = j + i
      BY <1>1
    <3> HIDE DEF b
    <3> QED
      BY <2>1, <3>1
  <2> HIDE DEF b
  <2> QED
    BY <1>1, <2>1, <2>2
<1>4. RemoveAt(s, i) = a \o b
  BY DEF RemoveAt
<1> HIDE DEF a, b
<1>5. /\ a \o b \in Seq(S)
      /\ Len(a \o b) = Len(a) + Len(b)
      /\ \A j \in 1 .. Len(a) + Len(b) :
            (a \o b)[j] = IF j <= Len(a) THEN a[j] ELSE b[j - Len(a)]
  BY <1>2, <1>3, ConcatProperties
<1>6. ASSUME NEW j \in 1 .. Len(s) - 1
      PROVE  (a \o b)[j] = IF j < i THEN s[j] ELSE s[j + 1]
  <2>1. CASE j < i
    <3>1. j \in 1 .. Len(a) + Len(b) /\ j <= Len(a) /\ j \in 1 .. i - 1
      BY <2>1, <1>1, <1>2, <1>3
    <3> QED
      BY <3>1, <2>1, <1>2, <1>5
  <2>2. CASE ~(j < i)
    <3>1. /\ j \in 1 .. Len(a) + Len(b) /\ ~(j <= Len(a))
          /\ j - Len(a) \in 1 .. Len(s) - i
          /\ (j - Len(a)) + i = j + 1
      BY <2>2, <1>1, <1>2, <1>3
    <3> QED
      BY <3>1, <2>2, <1>3, <1>5
  <2> QED
    BY <2>1, <2>2
<1> QED
  BY <1>1, <1>2, <1>3, <1>4, <1>5, <1>6

-----------------------------------------------------------------------------
(* Types *)

(* A thread has a bitmap in `ref' while it recycles or releases one.       *)
HasRef == \A t \in Threads :
    ref[t] \in Refs <=> pc[t] \in {"recycleOld", "recycle", "unuse", "pool"}

(* A thread has a bitmap in `got' from when it has found or made one to    *)
(* when getBitmap returns.                                                 *)
Getting(t) ==
    \/ pc[t] \in {"take", "enter"}
    \/ pc[t] \in {"shrink", "recycle"} /\ call[t] = "getBitmap"

HasGot == \A t \in Threads : got[t] \in Refs <=> Getting(t)

(* What a thread does belongs to the call it is in.                        *)
Staged == \A t \in Threads :
    /\ pc[t] \in {"removeOld", "recycleOld", "drain", "unuse", "pool"} =>
         call[t] \in {"release", "clear", "clearRelease"}
    /\ pc[t] = "look" => call[t] = "getBitmap" /\ asked[t] # 0
    /\ pc[t] = "idle" => call[t] = "none"

Typed == TypeOK /\ HasRef /\ HasGot /\ Staged

(* What taking an entry out of the pool does to the pool and to iterators. *)
LEMMA WithoutEffect ==
    ASSUME TypeOK, NEW i \in 0 .. Len(pool), Without(i)
    PROVE  /\ pool' \in Seq(Refs)
           /\ at' \in [Threads -> Nat]
           /\ \A t \in Threads : at'[t] <= Len(pool')
           /\ i = 0 => pool' = pool
           /\ i # 0 => /\ Len(pool') = Len(pool) - 1
                       /\ \A j \in 1 .. Len(pool) - 1 :
                             pool'[j] = IF j < i THEN pool[j] ELSE pool[j + 1]
           /\ \A t \in Threads :
                 at'[t] = IF i = 0 \/ at[t] < i THEN at[t]
                          ELSE IF at[t] = i THEN 0 ELSE at[t] - 1
<1>1. pool \in Seq(Refs) /\ Len(pool) \in Nat
  BY LenProperties DEF TypeOK
<1>2. \A t \in Threads : at[t] \in 0 .. Len(pool)
  BY DEF TypeOK
<1>0. (\A t \in Threads : at'[t] \in Nat) => at' \in [Threads -> Nat]
  BY DEF Without
<1>3. \A t \in Threads :
         at'[t] = IF i = 0 \/ at[t] < i THEN at[t]
                  ELSE IF at[t] = i THEN 0 ELSE at[t] - 1
  BY DEF Without
<1>4. CASE i = 0
  <2>1. pool' = pool
    BY <1>4 DEF Without
  <2>2. \A t \in Threads : at'[t] = at[t]
    BY <1>3, <1>4
  <2> QED
    BY <2>1, <2>2, <1>0, <1>1, <1>2, <1>3, <1>4
<1>5. CASE i # 0
  <2>1. pool' = RemoveAt(pool, i) /\ i \in 1 .. Len(pool)
    BY <1>1, <1>5 DEF Without
  <2>2. /\ pool' \in Seq(Refs) /\ Len(pool') = Len(pool) - 1
        /\ \A j \in 1 .. Len(pool) - 1 :
              pool'[j] = IF j < i THEN pool[j] ELSE pool[j + 1]
    BY <2>1, <1>1, RemoveAtProperties
  <2>3. ASSUME NEW t \in Threads PROVE at'[t] \in Nat /\ at'[t] <= Len(pool')
    BY <1>1, <1>2, <1>3, <2>1, <2>2
  <2> QED
    BY <2>2, <2>3, <1>0, <1>3, <1>5
<1> QED
  BY <1>4, <1>5

(* Only thread t moves, and it may be where it is then.                    *)
LEMMA OneThread ==
    ASSUME Typed, NEW t \in Threads, pc' = [pc EXCEPT ![t] = pc'[t]],
           \A u \in Threads \ {t} :
              /\ ref'[u] = ref[u] /\ got'[u] = got[u]
              /\ call'[u] = call[u] /\ asked'[u] = asked[u],
           ref'[t] \in Refs <=> pc'[t] \in {"recycleOld", "recycle", "unuse", "pool"},
           got'[t] \in Refs <=> Getting(t)',
           pc'[t] \in {"removeOld", "recycleOld", "drain", "unuse", "pool"} =>
              call'[t] \in {"release", "clear", "clearRelease"},
           pc'[t] = "look" => call'[t] = "getBitmap" /\ asked'[t] # 0,
           pc'[t] = "idle" => call'[t] = "none"
    PROVE  (HasRef /\ HasGot /\ Staged)'
<1>1. \A u \in Threads \ {t} : pc'[u] = pc[u]
  BY DEF Typed, TypeOK
<1>2. \A u \in Threads \ {t} : Getting(u)' <=> Getting(u)
  BY <1>1 DEF Getting
<1>3. HasRef'
  BY <1>1 DEF Typed, HasRef
<1>4. HasGot'
  BY <1>2 DEF Typed, HasGot
<1>5. Staged'
  BY <1>1 DEF Typed, Staged
<1> QED
  BY <1>3, <1>4, <1>5

(* Where a thread is in a call, and what it has got.                       *)
LEMMA Stage ==
    ASSUME Typed, NEW t \in Threads
    PROVE  /\ ref[t] \in Refs \/ ref[t] = NoRef
           /\ got[t] \in Refs \/ got[t] = NoRef
           /\ got[t] \in Refs <=> Getting(t)
           /\ pc[t] \in {"recycleOld", "recycle", "unuse", "pool"} => ref[t] \in Refs
           /\ pc[t] \in {"take", "enter"} => got[t] \in Refs
           /\ at[t] \in 0 .. Len(pool)
           /\ asked[t] \in Nat
           /\ filling[t] \in Bitmaps \/ filling[t] = NoBitmaps
BY DEF Typed, TypeOK, HasRef, HasGot, Getting

(* removeOldRefs ends its scan, or clear starts the second one, with       *)
(* nothing in hand.                                                        *)
LEMMA NoOldStaged ==
    ASSUME Typed, NEW t \in Threads, NoOld(t)
    PROVE  (HasRef /\ HasGot /\ Staged)'
<1>1. /\ pc[t] = "removeOld" /\ pc' = [pc EXCEPT ![t] = pc'[t]]
      /\ pc'[t] \in {"removeOld", "drain"} /\ ref' = ref /\ got' = got /\ asked' = asked
  BY DEF NoOld, Advance, Goto, getLocals, Typed, TypeOK
<1>2. /\ \A u \in Threads \ {t} : call'[u] = call[u]
      /\ call'[t] \in {"release", "clearRelease"}
  BY <1>1 DEF NoOld, Typed, TypeOK, Staged
<1>3. ~Getting(t) /\ ~Getting(t)' /\ ref[t] \notin Refs
  BY <1>1 DEF Typed, HasRef, Getting
<1> QED
  BY <1>1, <1>2, <1>3, Stage, OneThread

(* When the release queue is empty the call goes on to shrinkPool with     *)
(* nothing in hand.                                                        *)
LEMMA DrainedStaged ==
    ASSUME Typed, NEW t \in Threads, Drained(t)
    PROVE  (HasRef /\ HasGot /\ Staged)'
<1>1. /\ pc[t] = "drain" /\ pc' = [pc EXCEPT ![t] = pc'[t]]
      /\ pc'[t] = "shrink" /\ ref' = ref /\ got' = got /\ call' = call /\ asked' = asked
  BY DEF Drained, Goto, locals, getLocals, Typed, TypeOK
<1>2. call[t] # "getBitmap"
  BY <1>1 DEF Typed, Staged
<1>3. ~Getting(t) /\ ~Getting(t)' /\ ref[t] \notin Refs
  BY <1>1, <1>2 DEF Typed, HasRef, Getting
<1> QED
  BY <1>1, <1>2, <1>3, Stage, OneThread

(* shrinkPool has the entry it polled in hand.                             *)
LEMMA PollPoolStaged ==
    ASSUME Typed, NEW t \in Threads, PollPool(t)
    PROVE  (HasRef /\ HasGot /\ Staged)'
<1>1. /\ pc[t] = "shrink" /\ pc' = [pc EXCEPT ![t] = pc'[t]] /\ pool # <<>>
      /\ pc'[t] = "recycle" /\ got' = got /\ call' = call /\ asked' = asked
      /\ ref' = [ref EXCEPT ![t] = Head(pool)]
  BY DEF PollPool, Shrinking, Goto, getLocals, Typed, TypeOK
<1>2. Head(pool) \in Refs
  BY <1>1, HeadTailProperties DEF Typed, TypeOK
<1>3. ref'[t] \in Refs /\ \A u \in Threads \ {t} : ref'[u] = ref[u]
  BY <1>1, <1>2 DEF Typed, TypeOK
<1>4. Getting(t)' <=> Getting(t)
  BY <1>1 DEF Getting
<1> QED
  BY <1>1, <1>3, <1>4, Stage, OneThread

(* At the end of shrinkPool, getBitmap returns its bitmap and the other    *)
(* calls end.                                                              *)
LEMMA ShrunkStaged ==
    ASSUME Typed, NEW t \in Threads, Shrunk(t)
    PROVE  (HasRef /\ HasGot /\ Staged)'
<1>1. /\ pc[t] = "shrink" /\ pc' = [pc EXCEPT ![t] = pc'[t]] /\ ref' = ref
      /\ \A u \in Threads \ {t} : got'[u] = got[u] /\ call'[u] = call[u]
                                     /\ asked'[u] = asked[u]
  BY DEF Shrunk, Return, Goto, getLocals, Typed, TypeOK
<1>2. CASE call[t] = "getBitmap" /\ Return(t, got[t])
  <2>1. pc'[t] = "idle" /\ call'[t] = "none" /\ got'[t] = NoRef
    BY <1>2 DEF Return, Goto, Typed, TypeOK
  <2> QED
    BY <1>1, <2>1, OneThread, CallersAssumption DEF Getting, Typed, HasRef
<1>3. CASE call[t] # "getBitmap"
  <2>1. /\ got'[t] = got[t]
        /\ \/ pc'[t] = "shrink" /\ call'[t] = "clearShrink"
           \/ pc'[t] = "idle" /\ call'[t] = "none"
    <3>1. CASE /\ call' = [call EXCEPT ![t] = "clearShrink"]
               /\ UNCHANGED <<owners, pc, getLocals>>
      <4>1. pc' = pc /\ got' = got
        BY <3>1 DEF getLocals
      <4>2. call'[t] = "clearShrink"
        BY <3>1 DEF Typed, TypeOK
      <4>3. pc[t] = "shrink"
        BY <1>1
      <4> QED
        BY <4>1, <4>2, <4>3
    <3>2. CASE /\ call' = [call EXCEPT ![t] = "none"]
               /\ Goto(t, "idle")
               /\ UNCHANGED <<owners, getLocals>>
      BY <3>2 DEF Goto, getLocals, Typed, TypeOK
    <3> QED
      BY <1>3, <3>1, <3>2 DEF Shrunk
  <2>2. ~Getting(t) /\ ~Getting(t)'
    BY <1>1, <1>3, <2>1 DEF Getting
  <2> QED
    BY <1>1, <2>1, <2>2, Stage, OneThread DEF Typed, HasRef
<1> QED
  BY <1>2, <1>3 DEF Shrunk

(* Filling Bitmaps keeps their tile, or starts a getBitmap for a new one   *)
(* with nothing in hand.                                                   *)
LEMMA FillStaged ==
    ASSUME Typed, NEW t \in Threads, NEW b \in Bitmaps, Fill(t, b)
    PROVE  (HasRef /\ HasGot /\ Staged)'
<1>1. /\ pc[t] = "idle" /\ ref' = ref /\ got' = got
      /\ ~Getting(t) /\ ref[t] \notin Refs /\ call[t] = "none"
  BY DEF Fill, Typed, HasRef, Getting, Staged
<1>2. CASE pc' = pc /\ call' = call /\ asked' = asked
  BY <1>1, <1>2 DEF Typed, HasRef, HasGot, Getting, Staged
<1>3. CASE /\ Goto(t, "look") /\ call' = [call EXCEPT ![t] = "getBitmap"]
           /\ asked' = [asked EXCEPT ![t] = TileHeight]
  <2>1. /\ pc'[t] = "look" /\ pc' = [pc EXCEPT ![t] = pc'[t]]
        /\ call'[t] = "getBitmap" /\ asked'[t] # 0
        /\ \A u \in Threads \ {t} : call'[u] = call[u] /\ asked'[u] = asked[u]
    BY <1>3, SizesAssumption DEF Goto, Typed, TypeOK
  <2> QED
    BY <1>1, <2>1, Stage, OneThread DEF Getting
<1> QED
  BY <1>2, <1>3 DEF Fill

(* What the return of getBitmap leaves.                                    *)
LEMMA ReturnTyped ==
    ASSUME Typed, NEW t \in Threads, NEW r \in Refs, Return(t, r),
           live' \in [Refs -> BOOLEAN]
    PROVE  /\ held' \in [Threads -> SUBSET Refs]
           /\ tile' \in [Bitmaps -> Refs \cup {NoRef}]
           /\ posted' \cup shown' \cup doomed' \subseteq Bitmaps
           /\ call' \in [Threads -> {"none", "getBitmap", "release", "clear",
                                     "clearRelease", "clearShrink"}]
           /\ pc' \in [Threads -> {"idle", "look", "take", "enter", "shrink", "recycle",
                                   "removeOld", "recycleOld", "drain", "unuse", "pool"}]
           /\ got' \in [Threads -> Refs \cup {NoRef}]
           /\ filling' \in [Threads -> Bitmaps \cup {NoBitmaps}]
           /\ asked' \in [Threads -> Nat]
<1>1. /\ held' \in [Threads -> SUBSET Refs]
      /\ tile' \in [Bitmaps -> Refs \cup {NoRef}]
      /\ posted' \cup shown' \cup doomed' \subseteq Bitmaps
  <2>1. shown' = shown /\ doomed' = doomed
    BY DEF Return
  <2>2. CASE UNCHANGED <<held, tile, posted>>
    BY <2>1, <2>2 DEF Typed, TypeOK
  <2>3. CASE Keep(t, r) /\ filling[t] = NoBitmaps
    <3>1. tile' = tile /\ posted' = posted /\ held' = [held EXCEPT ![t] = @ \cup {r}]
      BY <2>3 DEF Keep
    <3>2. held' \in [Threads -> SUBSET Refs]
      BY <3>1 DEF Typed, TypeOK
    <3> QED
      BY <2>1, <3>1, <3>2 DEF Typed, TypeOK
  <2>4. CASE Keep(t, r) /\ filling[t] # NoBitmaps
    <3>1. /\ filling[t] \in Bitmaps
          /\ tile' = [tile EXCEPT ![filling[t]] = r] /\ held' = held
          /\ posted' = posted \/ posted' = posted \cup {filling[t]}
      BY <2>4, Stage DEF Keep
    <3>2. posted' \subseteq Bitmaps
      BY <3>1 DEF Typed, TypeOK
    <3> QED
      BY <2>1, <3>1, <3>2 DEF Typed, TypeOK
  <2> QED
    BY <2>2, <2>3, <2>4 DEF Return
<1> QED
  BY <1>1 DEF Return, Goto, Typed, TypeOK

(* getBitmap removes the entry it found: the types are kept.               *)
LEMMA TakeTyped ==
    ASSUME Typed, NEW t \in Threads, Take(t)
    PROVE  TypeOK'
<1>1. Without(at[t]) /\ at[t] \in 0 .. Len(pool)
  BY Stage DEF Take
<1>2. /\ pool' \in Seq(Refs)
      /\ at' \in [Threads -> Nat] /\ \A u \in Threads : at'[u] <= Len(pool')
  BY <1>1, WithoutEffect DEF Typed
<1> QED
  BY <1>2 DEF Take, Goto, Typed, TypeOK, refVars, memory, owners, getLocals

(* getBitmap counts the entry as used and returns it: the types are kept.  *)
LEMMA EnterTyped ==
    ASSUME Typed, NEW t \in Threads, Enter(t)
    PROVE  TypeOK'
<1>1. got[t] \in Refs /\ Return(t, got[t])
  BY Stage DEF Enter
<1>2. /\ age' \in [Refs -> 0 .. Threshold + 1] /\ used' \subseteq Refs
      /\ memoryPooled' \in Int /\ memoryUsed' \in Int
      /\ old' \in [Threads -> SUBSET Refs]
  BY <1>1, SizesAssumption, SMTT(30) DEF Enter, PutInUse, Typed, TypeOK
<1>3. UNCHANGED <<height, live, pool, releasing, ref, at>>
  BY DEF Enter
<1>4. live' \in [Refs -> BOOLEAN]
  BY <1>3 DEF Typed, TypeOK
<1> QED
  BY <1>1, <1>2, <1>3, <1>4, ReturnTyped DEF Typed, TypeOK

(* getBitmap makes a bitmap when none fits: the types are kept.            *)
LEMMA CreateTyped ==
    ASSUME Typed, NEW t \in Threads, Create(t)
    PROVE  TypeOK'
<1>1. PICK r \in Fresh :
          /\ height' = [height EXCEPT ![r] = asked[t]]
          /\ live' = [live EXCEPT ![r] = TRUE]
          /\ age' = [age EXCEPT ![r] = 0]
          /\ PutInUse(r)
          /\ got' = [got EXCEPT ![t] = r]
  BY DEF Create
<1>2. r \in Refs /\ asked[t] \in Nat \ {0}
  BY DEF Fresh, Create, Typed, TypeOK, Staged
<1>3. /\ height' \in [Refs -> Nat \ {0}] /\ live' \in [Refs -> BOOLEAN]
      /\ age' \in [Refs -> 0 .. Threshold + 1] /\ used' \subseteq Refs
      /\ got' \in [Threads -> Refs \cup {NoRef}]
      /\ memoryUsed' \in Int
  BY <1>1, <1>2, SizesAssumption DEF PutInUse, Create, Typed, TypeOK
<1> QED
  BY <1>3 DEF Create, Goto, Typed, TypeOK, owners

(* removeOldRefs removes and recycles an entry: the types are kept.        *)
LEMMA RecycleOldTyped ==
    ASSUME Typed, NEW t \in Threads, RecycleOld(t)
    PROVE  TypeOK'
<1>1. Without(at[t]) /\ at[t] \in 0 .. Len(pool) /\ ref[t] \in Refs
  BY Stage DEF RecycleOld
<1>2. /\ pool' \in Seq(Refs)
      /\ at' \in [Threads -> Nat] /\ \A u \in Threads : at'[u] <= Len(pool')
  BY <1>1, WithoutEffect DEF Typed
<1>3. /\ live' \in [Refs -> BOOLEAN] /\ memoryPooled' \in Int
      /\ ref' \in [Threads -> Refs \cup {NoRef}]
  BY <1>1 DEF RecycleOld, Recycle, Typed, TypeOK
<1> QED
  BY <1>2, <1>3 DEF RecycleOld, Goto, Typed, TypeOK, owners, getLocals

(* removeOldRefs ends its scan: the types are kept.                        *)
LEMMA NoOldTyped ==
    ASSUME Typed, NEW t \in Threads, NoOld(t)
    PROVE  TypeOK'
<1>1. CASE call' = [call EXCEPT ![t] = "clearRelease"] /\ Advance(t, 1)
  <2>1. /\ age' \in [Refs -> 0 .. Threshold + 1]
        /\ old' \in [Threads -> SUBSET Refs]
    BY <1>1, SizesAssumption DEF Advance, Typed, TypeOK
  <2>2. Goto(t, "removeOld")
    BY <1>1 DEF Advance
  <2> QED
    BY <1>1, <2>1, <2>2 DEF NoOld, Goto, Typed, TypeOK, owners, poolVars, memory, getLocals
<1>2. CASE /\ old' = [old EXCEPT ![t] = {}]
           /\ Goto(t, "drain")
           /\ UNCHANGED <<age, call>>
  BY <1>2 DEF NoOld, Goto, Typed, TypeOK, owners, poolVars, memory, getLocals
<1> QED
  BY <1>1, <1>2 DEF NoOld

(* shrinkPool polls the pool: the types are kept.                          *)
LEMMA PollPoolTyped ==
    ASSUME Typed, NEW t \in Threads, PollPool(t)
    PROVE  TypeOK'
<1>1. Without(1) /\ pool # <<>> /\ pool \in Seq(Refs)
  BY DEF PollPool, Shrinking, Typed, TypeOK
<1>2. 1 \in 0 .. Len(pool) /\ Head(pool) \in Refs
  BY <1>1, EmptySeq, HeadTailProperties
<1>3. /\ pool' \in Seq(Refs)
      /\ at' \in [Threads -> Nat] /\ \A u \in Threads : at'[u] <= Len(pool')
  BY <1>1, <1>2, WithoutEffect DEF Typed
<1>4. ref' \in [Threads -> Refs \cup {NoRef}]
  BY <1>2 DEF PollPool, Typed, TypeOK
<1> QED
  BY <1>3, <1>4 DEF PollPool, Goto, Typed, TypeOK, owners, memory, refVars, getLocals

(* shrinkPool ends: the types are kept.                                    *)
LEMMA ShrunkTyped ==
    ASSUME Typed, NEW t \in Threads, Shrunk(t)
    PROVE  TypeOK'
<1>1. UNCHANGED <<height, live, age, used, pool, releasing,
                  memoryUsed, memoryPooled, ref, at, old>>
  BY DEF Shrunk, refVars, poolVars, memory
<1>2. CASE call[t] = "getBitmap" /\ Return(t, got[t])
  <2>1. got[t] \in Refs
    BY <1>2, Stage DEF Shrunk, Getting
  <2>2. live' \in [Refs -> BOOLEAN]
    BY <1>1 DEF Typed, TypeOK
  <2> QED
    BY <1>1, <1>2, <2>1, <2>2, ReturnTyped DEF Typed, TypeOK
<1>3. CASE /\ call' = [call EXCEPT ![t] = "clearShrink"]
           /\ UNCHANGED <<owners, pc, getLocals>>
  BY <1>1, <1>3 DEF owners, getLocals, Typed, TypeOK
<1>4. CASE /\ call' = [call EXCEPT ![t] = "none"]
           /\ Goto(t, "idle")
           /\ UNCHANGED <<owners, getLocals>>
  BY <1>1, <1>4 DEF Goto, owners, getLocals, Typed, TypeOK
<1> QED
  BY <1>2, <1>3, <1>4 DEF Shrunk

(* Filling Bitmaps keeps the types.                                        *)
LEMMA FillTyped ==
    ASSUME Typed, NEW t \in Threads, NEW b \in Bitmaps, Fill(t, b)
    PROVE  TypeOK'
<1>1. UNCHANGED <<height, live, age, used, pool, memoryUsed, memoryPooled,
                  held, shown, doomed, ref, at, old, got>>
  BY DEF Fill, refVars, memory
<1>2. CASE /\ posted' = posted \cup {b}
           /\ UNCHANGED <<releasing, tile, call, pc, asked, filling>>
  BY <1>1, <1>2 DEF Typed, TypeOK
<1>3. CASE /\ releasing' = IF tile[b] = NoRef THEN releasing ELSE Append(releasing, tile[b])
           /\ tile' = Emptied(b)
           /\ filling' = [filling EXCEPT ![t] = b]
           /\ call' = [call EXCEPT ![t] = "getBitmap"]
           /\ asked' = [asked EXCEPT ![t] = TileHeight]
           /\ Goto(t, "look")
           /\ UNCHANGED posted
  <2>1. releasing' \in Seq(Refs \cup Bitmaps)
    BY <1>3, AppendProperties DEF Typed, TypeOK
  <2> QED
    BY <1>1, <1>3, <2>1, SizesAssumption DEF Emptied, Goto, Typed, TypeOK
<1> QED
  BY <1>2, <1>3 DEF Fill

(* Nothing is in hand at the start.                                        *)
LEMMA TypedInit == Init => Typed
BY CallersAssumption, SizesAssumption, EmptySeq
   DEF Init, Typed, TypeOK, HasRef, HasGot, Getting, Staged

(* Types and what threads have in hand go together: neither is inductive   *)
(* without the other.                                                      *)
LEMMA TypedStep == Typed /\ [Next]_vars => Typed'
<1> SUFFICES ASSUME Typed, [Next]_vars PROVE Typed'
  OBVIOUS
<1> USE SizesAssumption, CallersAssumption
<1>1. ASSUME NEW t \in Threads, NEW h \in Heights, GetBitmap(t, h) PROVE Typed'
  BY <1>1, SMTT(60)
     DEF GetBitmap, Typed, TypeOK, HasRef, HasGot, Getting, Staged, Goto, Fresh, refVars,
         memory, owners, poolVars
<1>2. ASSUME NEW t \in Threads, Look(t) PROVE Typed'
  <2>1. (HasRef /\ HasGot /\ Staged)'
    BY <1>2, SMTT(60)
       DEF Look, Typed, TypeOK, HasRef, HasGot, Getting, Staged, Goto, refVars, memory,
           owners, poolVars
  <2>2. TypeOK'
    BY <1>2, SMTT(60)
       DEF Look, Typed, TypeOK, HasRef, HasGot, Getting, Staged, Goto, refVars, memory,
           owners, poolVars
  <2> QED
    BY <2>1, <2>2 DEF Typed
<1>3. ASSUME NEW t \in Threads, Take(t) PROVE Typed'
  <2>1. (HasRef /\ HasGot /\ Staged)'
    BY <1>3, SMTT(60)
       DEF Take, Typed, TypeOK, HasRef, HasGot, Getting, Staged, Goto, refVars, memory,
           owners, getLocals
  <2>2. TypeOK'
    BY <1>3, TakeTyped
  <2> QED
    BY <2>1, <2>2 DEF Typed
<1>4. ASSUME NEW t \in Threads, Enter(t) PROVE Typed'
  <2>1. (HasRef /\ HasGot /\ Staged)'
    BY <1>4, SMTT(60)
       DEF Enter, Typed, TypeOK, HasRef, HasGot, Getting, Staged, Goto, PutInUse, Return
  <2>2. TypeOK'
    BY <1>4, EnterTyped
  <2> QED
    BY <2>1, <2>2 DEF Typed
<1>5. ASSUME NEW t \in Threads, Create(t) PROVE Typed'
  <2>1. (HasRef /\ HasGot /\ Staged)'
    BY <1>5, SMTT(60)
       DEF Create, Typed, TypeOK, HasRef, HasGot, Getting, Staged, Goto, PutInUse, Fresh,
           owners
  <2>2. TypeOK'
    BY <1>5, CreateTyped
  <2> QED
    BY <2>1, <2>2 DEF Typed
<1>6. ASSUME NEW t \in Threads, NEW h \in Heights, AddBitmap(t, h) PROVE Typed'
  BY <1>6, SMTT(60)
     DEF AddBitmap, Typed, TypeOK, HasRef, HasGot, Getting, Staged, PutInUse, Fresh,
         getLocals, locals
<1>7. ASSUME NEW t \in Threads, Release(t) PROVE Typed'
  <2>1. (HasRef /\ HasGot /\ Staged)'
    BY <1>7, SMTT(60)
       DEF Release, Typed, TypeOK, HasRef, HasGot, Getting, Staged, Goto, Advance, memory,
           owners, poolVars, getLocals
  <2>2. TypeOK'
    BY <1>7, SMTT(60)
       DEF Release, Typed, TypeOK, HasRef, HasGot, Getting, Staged, Goto, Advance, memory,
           owners, poolVars, getLocals
  <2> QED
    BY <2>1, <2>2 DEF Typed
<1>8. ASSUME NEW t \in Threads, Clear(t) PROVE Typed'
  <2>1. (HasRef /\ HasGot /\ Staged)'
    BY <1>8, SMTT(60)
       DEF Clear, Typed, TypeOK, HasRef, HasGot, Getting, Staged, Goto, Advance, memory,
           owners, poolVars, getLocals
  <2>2. TypeOK'
    BY <1>8, SMTT(60)
       DEF Clear, Typed, TypeOK, HasRef, HasGot, Getting, Staged, Goto, Advance, memory,
           owners, poolVars, getLocals
  <2> QED
    BY <2>1, <2>2 DEF Typed
<1>9. ASSUME NEW t \in Threads, FindOld(t) PROVE Typed'
  <2>1. (HasRef /\ HasGot /\ Staged)'
    BY <1>9, SMTT(60)
       DEF FindOld, Typed, TypeOK, HasRef, HasGot, Getting, Staged, Goto, refVars, memory,
           owners, poolVars, getLocals
  <2>2. TypeOK'
    BY <1>9, SMTT(60)
       DEF FindOld, Typed, TypeOK, HasRef, HasGot, Getting, Staged, Goto, refVars, memory,
           owners, poolVars, getLocals
  <2> QED
    BY <2>1, <2>2 DEF Typed
<1>10. ASSUME NEW t \in Threads, RecycleOld(t) PROVE Typed'
  <2>1. (HasRef /\ HasGot /\ Staged)'
    BY <1>10, SMTT(60)
       DEF RecycleOld, Typed, TypeOK, HasRef, HasGot, Getting, Staged, Goto, Recycle,
           owners, getLocals
  <2>2. TypeOK'
    BY <1>10, RecycleOldTyped
  <2> QED
    BY <2>1, <2>2 DEF Typed
<1>11. ASSUME NEW t \in Threads, NoOld(t) PROVE Typed'
  <2>1. (HasRef /\ HasGot /\ Staged)'
    BY <1>11, NoOldStaged
  <2>2. TypeOK'
    BY <1>11, NoOldTyped
  <2> QED
    BY <2>1, <2>2 DEF Typed
<1>12. ASSUME NEW t \in Threads, PollRef(t) PROVE Typed'
  BY <1>12, SMTT(60)
     DEF PollRef, Typed, TypeOK, HasRef, HasGot, Getting, Staged, Goto, refVars, memory,
         owners, getLocals
<1>13. ASSUME NEW t \in Threads, PollBitmaps(t) PROVE Typed'
  BY <1>13, SMTT(60)
     DEF PollBitmaps, Typed, TypeOK, HasRef, HasGot, Getting, Staged, Goto, Emptied,
         refVars, memory, getLocals
<1>14. ASSUME NEW t \in Threads, Unuse(t) PROVE Typed'
  BY <1>14, SMTT(60)
     DEF Unuse, Typed, TypeOK, HasRef, HasGot, Getting, Staged, Goto, refVars, owners,
         getLocals, locals
<1>15. ASSUME NEW t \in Threads, AddToPool(t) PROVE Typed'
  BY <1>15, SMTT(60)
     DEF AddToPool, Typed, TypeOK, HasRef, HasGot, Getting, Staged, Goto, refVars,
         owners, getLocals
<1>16. ASSUME NEW t \in Threads, Drained(t) PROVE Typed'
  <2>1. (HasRef /\ HasGot /\ Staged)'
    BY <1>16, DrainedStaged
  <2>2. TypeOK'
    BY <1>16, SMTT(60)
       DEF Drained, Typed, TypeOK, HasRef, HasGot, Getting, Staged, Goto, refVars, memory,
           owners, poolVars, getLocals, locals
  <2> QED
    BY <2>1, <2>2 DEF Typed
<1>17. ASSUME NEW t \in Threads, PollPool(t) PROVE Typed'
  <2>1. (HasRef /\ HasGot /\ Staged)'
    BY <1>17, PollPoolStaged
  <2>2. TypeOK'
    BY <1>17, PollPoolTyped
  <2> QED
    BY <2>1, <2>2 DEF Typed
<1>18. ASSUME NEW t \in Threads, RecyclePolled(t) PROVE Typed'
  BY <1>18, SMTT(60)
     DEF RecyclePolled, Typed, TypeOK, HasRef, HasGot, Getting, Staged, Goto, Recycle,
         owners, getLocals
<1>19. ASSUME NEW t \in Threads, Shrunk(t) PROVE Typed'
  <2>1. (HasRef /\ HasGot /\ Staged)'
    BY <1>19, ShrunkStaged
  <2>2. TypeOK'
    BY <1>19, ShrunkTyped
  <2> QED
    BY <2>1, <2>2 DEF Typed
<1>20. ASSUME NEW t \in Threads, NEW r \in held[t], ReleaseRef(t, r) PROVE Typed'
  BY <1>20, SMTT(60)
     DEF ReleaseRef, Typed, TypeOK, HasRef, HasGot, Getting, Staged, refVars, memory,
         getLocals, locals
<1>21. ASSUME NEW t \in Threads, NEW b \in Bitmaps, Fill(t, b) PROVE Typed'
  <2>1. (HasRef /\ HasGot /\ Staged)'
    BY <1>21, FillStaged
  <2>2. TypeOK'
    BY <1>21, FillTyped
  <2> QED
    BY <2>1, <2>2 DEF Typed
<1>22. ASSUME NEW b \in Bitmaps, SetBitmap(b) PROVE Typed'
  BY <1>22, SMTT(60)
     DEF SetBitmap, Typed, TypeOK, HasRef, HasGot, Getting, Staged, refVars, memory,
         poolVars, getLocals, locals
<1>23. ASSUME NEW b \in Bitmaps, RecycleHolder(b) PROVE Typed'
  BY <1>23, SMTT(60)
     DEF RecycleHolder, Typed, TypeOK, HasRef, HasGot, Getting, Staged, refVars, memory,
         getLocals, locals
<1>24. ASSUME NEW b \in Bitmaps, FinalizeNode(b) PROVE Typed'
  BY <1>24, SMTT(60)
     DEF FinalizeNode, Typed, TypeOK, HasRef, HasGot, Getting, Staged, refVars, memory,
         getLocals, locals
<1>25. ASSUME NEW b \in Bitmaps, FinalizeBitmaps(b) PROVE Typed'
  BY <1>25, SMTT(60)
     DEF FinalizeBitmaps, Typed, TypeOK, HasRef, HasGot, Getting, Staged, Emptied,
         refVars, memory, getLocals, locals
<1>26. ASSUME NEW b \in Bitmaps, Collect(b) PROVE Typed'
  BY <1>26, SMTT(60)
     DEF Collect, Typed, TypeOK, HasRef, HasGot, Getting, Staged, refVars, memory,
         poolVars, getLocals, locals
<1>27. CASE UNCHANGED vars
  BY <1>27 DEF Typed, TypeOK, HasRef, HasGot, Getting, Staged, vars,
               refVars, memory, owners, poolVars, getLocals, locals
<1> QED
  BY <1>1, <1>2, <1>3, <1>4, <1>5, <1>6, <1>7, <1>8, <1>9, <1>10, <1>11, <1>12, <1>13,
     <1>14, <1>15, <1>16, <1>17, <1>18, <1>19, <1>20, <1>21, <1>22, <1>23, <1>24, <1>25,
     <1>26, <1>27 DEF Next, Clients, Manager

(* Every state of the pool is of the type, whoever calls it.               *)
THEOREM BitmapPoolTypeCorrect == Spec => []TypeOK
<1>1. Typed => TypeOK
  BY DEF Typed
<1> QED
  BY <1>1, TypedInit, TypedStep, PTL DEF Spec

-----------------------------------------------------------------------------
(* Owners *)

HeldBy(r)   == {t \in Threads : r \in held[t]}
TilesOf(r)  == {b \in Bitmaps : tile[b] = r}
QueuedAt(r) == {i \in DOMAIN releasing : releasing[i] = r}
PooledAt(r) == {i \in DOMAIN pool : pool[i] = r}

Carries(t, r) ==
    \/ got[t] = r /\ pc[t] \in {"enter", "shrink", "recycle"}
    \/ ref[t] = r /\ pc[t] \in {"unuse", "pool"}

Single(A) == \A x, y \in A : x = y

(* One element at most in five sets together.                              *)
OneAmong(A, B, C, D, E) ==
    /\ Single(A) /\ Single(B) /\ Single(C) /\ Single(D) /\ Single(E)
    /\ A = {} \/ (B = {} /\ C = {} /\ D = {} /\ E = {})
    /\ B = {} \/ (C = {} /\ D = {} /\ E = {})
    /\ C = {} \/ (D = {} /\ E = {})
    /\ D = {} \/ E = {}

Sole(r) == OneAmong(HeldBy(r), TilesOf(r), QueuedAt(r), Carriers(r), PooledAt(r))

Nowhere(r) ==
    /\ HeldBy(r) = {} /\ TilesOf(r) = {} /\ QueuedAt(r) = {}
    /\ Carriers(r) = {} /\ PooledAt(r) = {}

SoleOwners == \A r \in Refs : Sole(r)

(* A thread that is about to remove its entry has it in the pool, or some  *)
(* other thread has taken it out to recycle it, and then nobody has it.    *)
Iterating == \A t \in Threads :
    pc[t] = "take" => IF at[t] = 0 THEN Nowhere(got[t]) ELSE pool[at[t]] = got[t]

(* Only a thread that may ask for bitmaps gets one.                        *)
GettersGet == \A t \in Threads : pc[t] = "look" \/ got[t] \in Refs => t \in Getters

(* Calls that have a bitmap which `used' has.                              *)
Claimers(r) ==
    {t \in Threads : \/ got[t] = r /\ pc[t] \in {"shrink", "recycle"}
                     \/ ref[t] = r /\ pc[t] = "unuse"}

UsedCovers == \A r \in Refs :
    \/ r \in used
    \/ HeldBy(r) = {} /\ TilesOf(r) = {} /\ QueuedAt(r) = {} /\ Claimers(r) = {}

Inductive == Typed /\ SoleOwners /\ Iterating /\ GettersGet /\ UsedCovers

(* A set that does not grow.                                               *)
Fewer(B, A) == (A = {} => B = {}) /\ (Single(A) => Single(B))

(* Sets that do not grow still have one element at most together.          *)
LEMMA FewerIsOne ==
    ASSUME NEW A, NEW B, NEW C, NEW D, NEW E, NEW A1, NEW B1, NEW C1, NEW D1, NEW E1,
           OneAmong(A, B, C, D, E),
           Fewer(A1, A), Fewer(B1, B), Fewer(C1, C), Fewer(D1, D), Fewer(E1, E)
    PROVE  OneAmong(A1, B1, C1, D1, E1)
BY DEF OneAmong, Fewer

(* A subset is no larger.                                                  *)
LEMMA FewerSubset == ASSUME NEW A, NEW B \in SUBSET A PROVE Fewer(B, A)
BY DEF Fewer, Single

(* The places of r do not grow in number in the step.                      *)
Dwindles(r) ==
    /\ Fewer(HeldBy(r)', HeldBy(r)) /\ Fewer(TilesOf(r)', TilesOf(r))
    /\ Fewer(QueuedAt(r)', QueuedAt(r)) /\ Fewer(Carriers(r)', Carriers(r))
    /\ Fewer(PooledAt(r)', PooledAt(r))

(* A bitmap whose places do not grow keeps its one owner, or stays         *)
(* without.                                                                *)
LEMMA DwindlesIsSole ==
    ASSUME NEW r, Dwindles(r)
    PROVE  (Sole(r) => Sole(r)') /\ (Nowhere(r) => Nowhere(r)')
<1>1. Sole(r) => Sole(r)'
  BY FewerIsOne DEF Sole, Dwindles
<1>2. Nowhere(r) => Nowhere(r)'
  BY DEF Nowhere, Dwindles, Fewer
<1> QED
  BY <1>1, <1>2

(* A step that moves x, if it is a bitmap, and lets the others be.         *)
LEMMA MovesOne ==
    ASSUME SoleOwners, Iterating, Typed, NEW x,
           \A s \in Refs \ {x} : Dwindles(s),
           x \in Refs => Sole(x)',
           \A u \in Threads : pc'[u] = "take" =>
             \/ /\ pc[u] = "take" /\ got'[u] = got[u] /\ got[u] # x
                /\ IF at'[u] = 0 THEN at[u] = 0 \/ Nowhere(got[u])'
                   ELSE at[u] # 0 /\ pool'[at'[u]] = pool[at[u]]
             \/ at'[u] # 0 /\ pool'[at'[u]] = got'[u]
    PROVE  SoleOwners' /\ Iterating'
<1>1. SoleOwners'
  BY DwindlesIsSole DEF SoleOwners
<1>2. ASSUME NEW u \in Threads, pc'[u] = "take"
      PROVE  IF at'[u] = 0 THEN Nowhere(got[u])' ELSE pool'[at'[u]] = got'[u]
  <2>1. CASE /\ pc[u] = "take" /\ got'[u] = got[u] /\ got[u] # x
             /\ at'[u] = 0 /\ at[u] = 0
    <3>1. got[u] \in Refs \ {x} /\ Nowhere(got[u])
      BY <2>1, Stage DEF Iterating
    <3>2. PICK s \in Refs \ {x} : s = got[u]
      BY <3>1
    <3>3. Nowhere(s)'
      BY <3>1, <3>2, DwindlesIsSole
    <3>4. got'[u] = s
      BY <2>1, <3>2
    <3> QED
      BY <2>1, <3>3, <3>4 DEF Nowhere, HeldBy, TilesOf, QueuedAt, Carriers, PooledAt
  <2>2. CASE /\ pc[u] = "take" /\ got'[u] = got[u]
             /\ at'[u] # 0 /\ at[u] # 0 /\ pool'[at'[u]] = pool[at[u]]
    BY <2>2 DEF Iterating
  <2> QED
    BY <1>2, <2>1, <2>2
<1>3. Iterating'
  BY <1>2 DEF Iterating
<1> QED
  BY <1>1, <1>3

(* What a step of thread t does to the calls.                              *)
LEMMA CallsOf ==
    ASSUME NEW t \in Threads, NEW s,
           \A u \in Threads \ {t} : pc'[u] = pc[u] /\ got'[u] = got[u] /\ ref'[u] = ref[u]
    PROVE  /\ Carriers(s)' = (Carriers(s) \ {t}) \cup {u \in {t} : Carries(u, s)'}
           /\ t \in Carriers(s) <=> Carries(t, s)
           /\ Claimers(s)' \subseteq Claimers(s) \cup {t}
<1>1. \A u \in Threads : u \in Carriers(s) <=> Carries(u, s)
  BY DEF Carriers, Carries
<1>2. \A u \in Threads : u \in Carriers(s)' <=> Carries(u, s)'
  BY DEF Carriers, Carries
<1>3. \A u \in Threads \ {t} : Carries(u, s)' <=> Carries(u, s)
  BY DEF Carries
<1>4. Carriers(s) \subseteq Threads /\ Carriers(s)' \subseteq Threads
  BY DEF Carriers
<1>5. Claimers(s)' \subseteq Claimers(s) \cup {t}
  BY DEF Claimers
<1> QED
  BY <1>1, <1>2, <1>3, <1>4, <1>5

(* A bitmap that is queued, and any other.                                 *)
LEMMA QueueAppend ==
    ASSUME Typed, NEW e \in Refs \cup Bitmaps, releasing' = Append(releasing, e), NEW s
    PROVE  QueuedAt(s)' = IF s = e THEN QueuedAt(s) \cup {Len(releasing) + 1}
                          ELSE QueuedAt(s)
<1>1. /\ releasing \in Seq(Refs \cup Bitmaps) /\ Len(releasing) \in Nat
      /\ DOMAIN releasing = 1 .. Len(releasing)
  BY LenProperties DEF Typed, TypeOK
<1>2. /\ releasing' \in Seq(Refs \cup Bitmaps) /\ Len(releasing') = Len(releasing) + 1
      /\ \A i \in 1 .. Len(releasing) : releasing'[i] = releasing[i]
      /\ releasing'[Len(releasing) + 1] = e
  BY <1>1, AppendProperties
<1>3. DOMAIN releasing' = 1 .. Len(releasing) + 1
  BY <1>2, LenProperties
<1>4. QueuedAt(s)' = {i \in 1 .. Len(releasing) + 1 : releasing'[i] = s}
  BY <1>3 DEF QueuedAt
<1>5. QueuedAt(s) = {i \in 1 .. Len(releasing) : releasing[i] = s}
  BY <1>1 DEF QueuedAt
<1> QED
  BY <1>1, <1>2, <1>4, <1>5

(* Polling the release queue takes its head out, the only place there of   *)
(* a bitmap that is queued once.                                           *)
LEMMA QueueTail ==
    ASSUME Typed, releasing # <<>>, releasing' = Tail(releasing), NEW s
    PROVE  /\ Fewer(QueuedAt(s)', QueuedAt(s))
           /\ s = Head(releasing) =>
                 QueuedAt(s) # {} /\ (Single(QueuedAt(s)) => QueuedAt(s)' = {})
<1> DEFINE n == Len(releasing)
<1>1. releasing \in Seq(Refs \cup Bitmaps) /\ n \in Nat \ {0} /\ DOMAIN releasing = 1 .. n
  BY LenProperties, EmptySeq DEF Typed, TypeOK
<1>2. /\ releasing' \in Seq(Refs \cup Bitmaps) /\ Len(releasing') = n - 1
      /\ \A i \in 1 .. n - 1 : releasing'[i] = releasing[i + 1]
  BY <1>1, HeadTailProperties
<1>3. DOMAIN releasing' = 1 .. n - 1
  BY <1>2, LenProperties
<1>4. \A i : i \in QueuedAt(s)' <=> i \in 1 .. n - 1 /\ releasing[i + 1] = s
  BY <1>2, <1>3 DEF QueuedAt
<1>5. \A i : i \in QueuedAt(s) <=> i \in 1 .. n /\ releasing[i] = s
  BY <1>1 DEF QueuedAt
<1> HIDE DEF n
<1>6. \A i \in QueuedAt(s)' : i \in Int /\ i + 1 \in QueuedAt(s) /\ i # 0
  BY <1>1, <1>4, <1>5
<1>7. Fewer(QueuedAt(s)', QueuedAt(s))
  <2>1. QueuedAt(s) = {} => QueuedAt(s)' = {}
    BY <1>6
  <2>2. ASSUME Single(QueuedAt(s)), NEW i \in QueuedAt(s)', NEW j \in QueuedAt(s)'
        PROVE  i = j
    <3>1. i + 1 = j + 1 /\ i \in Int /\ j \in Int
      BY <1>6, <2>2 DEF Single
    <3> QED
      BY <3>1
  <2> QED
    BY <2>1, <2>2 DEF Fewer, Single
<1>8. ASSUME s = Head(releasing)
      PROVE  QueuedAt(s) # {} /\ (Single(QueuedAt(s)) => QueuedAt(s)' = {})
  <2>1. 1 \in QueuedAt(s)
    BY <1>1, <1>5, <1>8
  <2>2. ASSUME Single(QueuedAt(s)), NEW i \in QueuedAt(s)' PROVE FALSE
    <3>1. i + 1 = 1 /\ i \in Int /\ i # 0
      BY <1>6, <2>1, <2>2 DEF Single
    <3> QED
      BY <3>1
  <2> QED
    BY <2>1, <2>2
<1> QED
  BY <1>7, <1>8

(* add appends to the pool: one place more for that entry, none moves.     *)
LEMMA PoolAppend ==
    ASSUME Typed, NEW e \in Refs, pool' = Append(pool, e), NEW s
    PROVE  /\ PooledAt(s)' = IF s = e THEN PooledAt(s) \cup {Len(pool) + 1} ELSE PooledAt(s)
           /\ \A i \in 1 .. Len(pool) : pool'[i] = pool[i]
<1>1. pool \in Seq(Refs) /\ Len(pool) \in Nat /\ DOMAIN pool = 1 .. Len(pool)
  BY LenProperties DEF Typed, TypeOK
<1>2. /\ pool' \in Seq(Refs) /\ Len(pool') = Len(pool) + 1
      /\ \A i \in 1 .. Len(pool) : pool'[i] = pool[i]
      /\ pool'[Len(pool) + 1] = e
  BY <1>1, AppendProperties
<1>3. DOMAIN pool' = 1 .. Len(pool) + 1
  BY <1>2, LenProperties
<1>4. PooledAt(s)' = {i \in 1 .. Len(pool) + 1 : pool'[i] = s}
  BY <1>3 DEF PooledAt
<1>5. PooledAt(s) = {i \in 1 .. Len(pool) : pool[i] = s}
  BY <1>1 DEF PooledAt
<1> QED
  BY <1>1, <1>2, <1>4, <1>5

(* Removing an entry of the pool frees its place, and the other threads'   *)
(* iterators go on to stand at the entries they stood at, or at none.      *)
LEMMA PoolWithout ==
    ASSUME Typed, NEW i \in 0 .. Len(pool), Without(i), NEW s
    PROVE  /\ Fewer(PooledAt(s)', PooledAt(s))
           /\ i # 0 /\ s = pool[i] =>
                PooledAt(s) # {} /\ (Single(PooledAt(s)) => PooledAt(s)' = {})
           /\ \A u \in Threads :
                IF at'[u] = 0 THEN at[u] = 0 \/ at[u] = i
                ELSE at[u] # 0 /\ pool'[at'[u]] = pool[at[u]]
<1> DEFINE n == Len(pool)
<1>1. pool \in Seq(Refs) /\ n \in Nat /\ DOMAIN pool = 1 .. n
  BY LenProperties DEF Typed, TypeOK
<1>2. \A u \in Threads :
         /\ at[u] \in 0 .. n
         /\ at'[u] = IF i = 0 \/ at[u] < i THEN at[u]
                     ELSE IF at[u] = i THEN 0 ELSE at[u] - 1
  BY WithoutEffect, Stage DEF Typed
<1>3. CASE i = 0
  <2>1. pool' = pool
    BY <1>3, WithoutEffect DEF Typed
  <2>2. PooledAt(s)' = PooledAt(s)
    BY <2>1 DEF PooledAt
  <2>3. \A u \in Threads : at'[u] = at[u]
    BY <1>2, <1>3
  <2> QED
    BY <1>3, <2>1, <2>2, <2>3 DEF Fewer
<1>4. CASE i # 0
  <2>1. /\ pool' \in Seq(Refs) /\ Len(pool') = n - 1
        /\ \A j \in 1 .. n - 1 : pool'[j] = IF j < i THEN pool[j] ELSE pool[j + 1]
    BY <1>4, WithoutEffect DEF Typed
  <2>2. DOMAIN pool' = 1 .. n - 1
    BY <2>1, LenProperties
  <2>3. \A j : j \in PooledAt(s)' <=>
                 j \in 1 .. n - 1 /\ (IF j < i THEN pool[j] ELSE pool[j + 1]) = s
    BY <2>1, <2>2 DEF PooledAt
  <2>4. \A j : j \in PooledAt(s) <=> j \in 1 .. n /\ pool[j] = s
    BY <1>1 DEF PooledAt
  <2>0. i \in 1 .. n
    BY <1>1, <1>4
  <2> HIDE DEF n
  <2>5. ASSUME NEW j \in PooledAt(s)'
        PROVE  /\ j \in Int
               /\ j < i => j \in PooledAt(s)
               /\ ~(j < i) => j + 1 \in PooledAt(s)
    BY <1>1, <2>0, <2>3, <2>4
  <2>6. Fewer(PooledAt(s)', PooledAt(s))
    <3>1. PooledAt(s) = {} => PooledAt(s)' = {}
      BY <2>5
    <3>2. ASSUME Single(PooledAt(s)), NEW j \in PooledAt(s)', NEW k \in PooledAt(s)'
          PROVE  j = k
      <4>1. j \in Int /\ k \in Int
        BY <2>5
      <4>2. CASE j < i /\ k < i
        BY <2>5, <3>2, <4>2 DEF Single
      <4>3. CASE ~(j < i) /\ ~(k < i)
        <5>1. j + 1 = k + 1
          BY <2>5, <3>2, <4>3 DEF Single
        <5> QED
          BY <4>1, <5>1
      <4>4. CASE j < i /\ ~(k < i)
        <5>1. j = k + 1
          BY <2>5, <3>2, <4>4 DEF Single
        <5> QED
          BY <4>1, <4>4, <5>1, <2>0, <1>1
      <4>5. CASE ~(j < i) /\ k < i
        <5>1. k = j + 1
          BY <2>5, <3>2, <4>5 DEF Single
        <5> QED
          BY <4>1, <4>5, <5>1, <2>0, <1>1
      <4> QED
        BY <4>2, <4>3, <4>4, <4>5
    <3> QED
      BY <3>1, <3>2 DEF Fewer, Single
  <2>7. ASSUME s = pool[i]
        PROVE  PooledAt(s) # {} /\ (Single(PooledAt(s)) => PooledAt(s)' = {})
    <3>1. i \in PooledAt(s)
      BY <2>0, <2>4, <2>7
    <3>2. ASSUME Single(PooledAt(s)), NEW j \in PooledAt(s)' PROVE FALSE
      <4>1. /\ j \in Int /\ i \in Int
            /\ j < i => j = i
            /\ ~(j < i) => j + 1 = i
        BY <1>1, <2>0, <2>5, <3>1, <3>2 DEF Single
      <4> QED
        BY <4>1
    <3> QED
      BY <3>1, <3>2
  <2>8. ASSUME NEW u \in Threads
        PROVE  IF at'[u] = 0 THEN at[u] = 0 \/ at[u] = i
               ELSE at[u] # 0 /\ pool'[at'[u]] = pool[at[u]]
    <3>1. CASE at[u] < i
      <4>1. at'[u] = at[u] /\ (at[u] # 0 => at[u] \in 1 .. n - 1)
        BY <1>1, <1>2, <2>0, <3>1
      <4>2. at[u] # 0 => pool'[at[u]] = pool[at[u]]
        BY <4>1, <3>1, <2>1
      <4> QED
        BY <4>1, <4>2
    <3>2. CASE at[u] = i
      <4>1. at'[u] = 0
        BY <1>1, <1>2, <2>0, <3>2
      <4> QED
        BY <4>1, <3>2
    <3>3. CASE at[u] > i
      <4>1. /\ at'[u] = at[u] - 1 /\ at[u] - 1 \in 1 .. n - 1
            /\ ~(at[u] - 1 < i) /\ (at[u] - 1) + 1 = at[u] /\ at[u] # 0 /\ at[u] - 1 # 0
        BY <1>1, <1>2, <2>0, <3>3
      <4>2. pool'[at[u] - 1] = pool[(at[u] - 1) + 1]
        BY <4>1, <2>1
      <4> QED
        BY <4>1, <4>2
    <3> QED
      BY <1>1, <1>2, <2>0, <3>1, <3>2, <3>3
  <2> QED
    BY <2>6, <2>7, <2>8
<1> QED
  BY <1>3, <1>4

(* Nobody who should be in `used' has it.                                  *)
Unclaimed(r) ==
    HeldBy(r) = {} /\ TilesOf(r) = {} /\ QueuedAt(r) = {} /\ Claimers(r) = {}

(* A step that moves x, if it is a bitmap, and keeps everything.           *)
LEMMA StepKeeps ==
    ASSUME Inductive, Typed', NEW x,
           \A s \in Refs \ {x} : Dwindles(s) /\ (Claimers(s) = {} => Claimers(s)' = {}),
           x \in Refs => Sole(x)' /\ (x \in used' \/ Unclaimed(x)'),
           used \ {x} \subseteq used',
           \A u \in Threads : pc'[u] = "take" =>
             \/ /\ pc[u] = "take" /\ got'[u] = got[u] /\ got[u] # x
                /\ IF at'[u] = 0 THEN at[u] = 0 \/ Nowhere(got[u])'
                   ELSE at[u] # 0 /\ pool'[at'[u]] = pool[at[u]]
             \/ at'[u] # 0 /\ pool'[at'[u]] = got'[u],
           \A u \in Threads : pc'[u] = "look" \/ got'[u] \in Refs => u \in Getters
    PROVE  Inductive'
<1>1. SoleOwners' /\ Iterating'
  BY MovesOne DEF Inductive
<1>2. ASSUME NEW s \in Refs \ {x} PROVE (s \in used \/ Unclaimed(s))'
  <2>1. s \in used \/ Unclaimed(s)
    BY DEF Inductive, UsedCovers, Unclaimed
  <2>2. s \in used => s \in used'
    OBVIOUS
  <2>3. Unclaimed(s) => Unclaimed(s)'
    BY DEF Unclaimed, Dwindles, Fewer
  <2> QED
    BY <2>1, <2>2, <2>3
<1>3. UsedCovers'
  BY <1>2 DEF UsedCovers, Unclaimed
<1>4. GettersGet'
  BY DEF GettersGet
<1> QED
  BY <1>1, <1>3, <1>4 DEF Inductive

(* Only thread t moves.                                                    *)
Alone(t) == \A u \in Threads \ {t} :
    pc'[u] = pc[u] /\ got'[u] = got[u] /\ ref'[u] = ref[u]

Claims(t, r) ==
    \/ got[t] = r /\ pc[t] \in {"shrink", "recycle"}
    \/ ref[t] = r /\ pc[t] = "unuse"

(* A step in which a thread comes to carry and to claim nothing new makes  *)
(* no bitmap carried or claimed by more threads.                           *)
LEMMA CallsFewer ==
    ASSUME Typed, NEW t \in Threads, Alone(t), NEW s,
           Carries(t, s)' => Carries(t, s), Claims(t, s)' => Claims(t, s)
    PROVE  /\ Fewer(Carriers(s)', Carriers(s))
           /\ Claimers(s) = {} => Claimers(s)' = {}
<1>1. \A u \in Threads : Carries(u, s)' => Carries(u, s)
  BY DEF Alone, Carries
<1>2. Carriers(s)' \subseteq Carriers(s)
  BY <1>1 DEF Carriers, Carries
<1>3. \A u \in Threads : Claims(u, s)' => Claims(u, s)
  BY DEF Alone, Claims
<1>4. Claimers(s)' \subseteq Claimers(s)
  BY <1>3 DEF Claimers, Claims
<1> QED
  BY <1>2, <1>4, FewerSubset

(* A set is no larger than itself.                                         *)
LEMMA SameIsFewer == ASSUME NEW A PROVE Fewer(A, A)
BY DEF Fewer

(* Only a thread that may call getBitmap is in getBitmap, after a step of  *)
(* one thread that keeps to this.                                          *)
LEMMA GettersAlone ==
    ASSUME Inductive, NEW t \in Threads, Alone(t),
           pc'[t] = "look" \/ got'[t] \in Refs => t \in Getters
    PROVE  \A u \in Threads : pc'[u] = "look" \/ got'[u] \in Refs => u \in Getters
BY DEF Inductive, GettersGet, Alone

(* A step in which no bitmap moves.                                        *)
LEMMA QuietKeeps ==
    ASSUME Inductive, Typed', NEW t \in Threads, Alone(t),
           UNCHANGED <<held, tile, releasing, pool>>, used \subseteq used',
           \A s \in Refs : Carries(t, s)' => Carries(t, s),
           \A s \in Refs : Claims(t, s)' => Claims(t, s),
           \A u \in Threads \ {t} : at'[u] = at[u],
           pc'[t] = "take" => \/ pc[t] = "take" /\ got'[t] = got[t] /\ at'[t] = at[t]
                              \/ at'[t] # 0 /\ pool[at'[t]] = got'[t],
           pc'[t] = "look" \/ got'[t] \in Refs => t \in Getters
    PROVE  Inductive'
<1>1. Typed
  BY DEF Inductive
<1>2. ASSUME NEW s \in Refs \ {NoRef}
      PROVE  Dwindles(s) /\ (Claimers(s) = {} => Claimers(s)' = {})
  <2>1. /\ HeldBy(s)' = HeldBy(s) /\ TilesOf(s)' = TilesOf(s)
        /\ QueuedAt(s)' = QueuedAt(s) /\ PooledAt(s)' = PooledAt(s)
    BY DEF HeldBy, TilesOf, QueuedAt, PooledAt
  <2>2. Fewer(Carriers(s)', Carriers(s)) /\ (Claimers(s) = {} => Claimers(s)' = {})
    BY <1>1, CallsFewer
  <2> QED
    BY <2>1, <2>2, SameIsFewer DEF Dwindles
<1>3. \A u \in Threads : pc[u] = "take" => got[u] # NoRef
  BY <1>1, Stage, CallersAssumption
<1>4. ASSUME NEW u \in Threads, pc'[u] = "take"
      PROVE  \/ /\ pc[u] = "take" /\ got'[u] = got[u] /\ got[u] # NoRef
                /\ IF at'[u] = 0 THEN at[u] = 0 \/ Nowhere(got[u])'
                   ELSE at[u] # 0 /\ pool'[at'[u]] = pool[at[u]]
             \/ at'[u] # 0 /\ pool'[at'[u]] = got'[u]
  <2>1. CASE u = t
    BY <1>3, <1>4, <2>1
  <2>2. CASE u # t
    BY <1>3, <1>4, <2>2 DEF Alone
  <2> QED
    BY <2>1, <2>2
<1>5. \A u \in Threads : pc'[u] = "look" \/ got'[u] \in Refs => u \in Getters
  BY GettersAlone
<1> QED
  BY <1>2, <1>4, <1>5, StepKeeps, CallersAssumption

(* A bitmap with an owner other than the pool is in nobody's iterator.     *)
LEMMA NotTaken ==
    ASSUME Inductive, NEW x \in Refs,
           HeldBy(x) # {} \/ TilesOf(x) # {} \/ QueuedAt(x) # {} \/ Carriers(x) # {}
    PROVE  \A u \in Threads : pc[u] = "take" => got[u] # x
<1>1. ASSUME NEW u \in Threads, pc[u] = "take", got[u] = x PROVE FALSE
  <2>1. CASE at[u] = 0
    BY <1>1, <2>1 DEF Inductive, Iterating, Nowhere
  <2>2. CASE at[u] # 0
    <3>1. at[u] \in 1 .. Len(pool) /\ Len(pool) \in Nat /\ DOMAIN pool = 1 .. Len(pool)
      BY <2>2, Stage, LenProperties DEF Inductive, Typed, TypeOK
    <3>2. at[u] \in PooledAt(x)
      BY <1>1, <2>2, <3>1 DEF Inductive, Iterating, PooledAt
    <3> QED
      BY <3>2 DEF Inductive, SoleOwners, Sole, OneAmong
  <2> QED
    BY <2>1, <2>2
<1> QED
  BY <1>1

(* A step that moves x and leaves the pool, or adds to its end.            *)
LEMMA MoveKeeps ==
    ASSUME Inductive, Typed', NEW x,
           \A s \in Refs \ {x} : Dwindles(s) /\ (Claimers(s) = {} => Claimers(s)' = {}),
           x \in Refs => Sole(x)' /\ (x \in used' \/ Unclaimed(x)'),
           used \ {x} \subseteq used',
           \A i \in 1 .. Len(pool) : pool'[i] = pool[i],
           \A u \in Threads : pc'[u] = "take" =>
              pc[u] = "take" /\ got'[u] = got[u] /\ at'[u] = at[u],
           \A u \in Threads : pc[u] = "take" => got[u] # x,
           \A u \in Threads : pc'[u] = "look" \/ got'[u] \in Refs => u \in Getters
    PROVE  Inductive'
<1>1. ASSUME NEW u \in Threads, pc'[u] = "take"
      PROVE  /\ pc[u] = "take" /\ got'[u] = got[u] /\ got[u] # x
             /\ IF at'[u] = 0 THEN at[u] = 0 \/ Nowhere(got[u])'
                ELSE at[u] # 0 /\ pool'[at'[u]] = pool[at[u]]
  <2>1. at'[u] = at[u] /\ at[u] \in 0 .. Len(pool) /\ Len(pool) \in Nat
    BY <1>1, Stage, LenProperties DEF Inductive, Typed, TypeOK
  <2>2. at[u] # 0 => pool'[at[u]] = pool[at[u]]
    BY <2>1
  <2> QED
    BY <1>1, <2>1, <2>2
<1> QED
  BY <1>1, StepKeeps

(* A step that neither moves an iterator nor begins a removal leaves       *)
(* those who are about to remove as they were.                             *)
LEMMA SameTakers ==
    ASSUME NEW t \in Threads, Alone(t), pc'[t] # "take", at' = at
    PROVE  \A u \in Threads : pc'[u] = "take" =>
              pc[u] = "take" /\ got'[u] = got[u] /\ at'[u] = at[u]
BY DEF Alone

(* A thread about to remove an entry has one to remove.                    *)
LEMMA NoRefIsNotTaken ==
    ASSUME Inductive PROVE \A u \in Threads : pc[u] = "take" => got[u] # NoRef
BY Stage, CallersAssumption DEF Inductive

(* What thread t carries it is the only owner of.                          *)
LEMMA CarriedIsAlone ==
    ASSUME Inductive, NEW t \in Threads, NEW x \in Refs, Carries(t, x)
    PROVE  /\ Carriers(x) = {t} /\ HeldBy(x) = {} /\ TilesOf(x) = {}
           /\ QueuedAt(x) = {} /\ PooledAt(x) = {}
           /\ Claimers(x) \subseteq {t}
<1>1. t \in Carriers(x)
  BY DEF Carriers, Carries
<1>2. Sole(x)
  BY DEF Inductive, SoleOwners
<1>3. Claimers(x) \subseteq Carriers(x)
  BY DEF Claimers, Carriers
<1>4. Single(Carriers(x))
  BY <1>2 DEF Sole, OneAmong
<1>5. Carriers(x) = {t}
  BY <1>1, <1>4 DEF Single
<1> QED
  BY <1>1, <1>2, <1>3, <1>5 DEF Sole, OneAmong

(* After the step only t has x in a call, or nobody.                       *)
LEMMA CarriersNow ==
    ASSUME NEW t \in Threads, Alone(t), NEW x,
           Carriers(x) \subseteq {t}, Claimers(x) \subseteq {t}
    PROVE  /\ Carriers(x)' = IF Carries(t, x)' THEN {t} ELSE {}
           /\ ~Claims(t, x)' => Claimers(x)' = {}
<1>1. \A u \in Threads \ {t} : ~Carries(u, x) /\ ~Claims(u, x)
  BY DEF Carriers, Carries, Claimers, Claims
<1>2. \A u \in Threads \ {t} : ~Carries(u, x)' /\ ~Claims(u, x)'
  BY <1>1 DEF Alone, Carries, Claims
<1>3. Carriers(x)' = {u \in Threads : Carries(u, x)'}
  BY DEF Carriers, Carries
<1>4. Claimers(x)' = {u \in Threads : Claims(u, x)'}
  BY DEF Claimers, Claims
<1> QED
  BY <1>2, <1>3, <1>4

(* getBitmap hands x out: to a holder, to a tile, or to nobody.            *)
LEMMA ReturnKeeps ==
    ASSUME Inductive, Typed', NEW t \in Threads, NEW x \in Refs, got[t] = x,
           Carries(t, x), Return(t, x),
           UNCHANGED <<ref, pool, releasing, at>>, x \in used', used \subseteq used'
    PROVE  Inductive'
<1>1. Typed /\ x # NoRef
  BY CallersAssumption DEF Inductive
<1>2. /\ Alone(t) /\ pc'[t] = "idle" /\ got'[t] = NoRef
  BY <1>1 DEF Return, Goto, Alone, Typed, TypeOK
<1>3. /\ Carriers(x) = {t} /\ HeldBy(x) = {} /\ TilesOf(x) = {}
      /\ QueuedAt(x) = {} /\ PooledAt(x) = {} /\ Claimers(x) \subseteq {t}
  BY CarriedIsAlone
<1>4. \/ UNCHANGED <<held, tile>>
      \/ held' = [held EXCEPT ![t] = @ \cup {x}] /\ tile' = tile
      \/ /\ filling[t] \in Bitmaps /\ held' = held
         /\ tile' = [tile EXCEPT ![filling[t]] = x]
  BY <1>1, Stage DEF Return, Keep
<1>5. ASSUME NEW s \in Refs \ {x}
      PROVE  Dwindles(s) /\ (Claimers(s) = {} => Claimers(s)' = {})
  <2>0. ASSUME held' = [held EXCEPT ![t] = @ \cup {x}], NEW u \in Threads
        PROVE  s \in held'[u] <=> s \in held[u]
    <3>1. held \in [Threads -> SUBSET Refs]
      BY <1>1 DEF Typed, TypeOK
    <3>2. held'[u] = IF u = t THEN held[u] \cup {x} ELSE held[u]
      BY <2>0, <3>1
    <3> QED
      BY <3>2
  <2>1. HeldBy(s)' = HeldBy(s)
    BY <1>4, <2>0 DEF HeldBy
  <2>2. TilesOf(s)' \subseteq TilesOf(s)
    BY <1>1, <1>4 DEF TilesOf, Typed, TypeOK
  <2>3. QueuedAt(s)' = QueuedAt(s) /\ PooledAt(s)' = PooledAt(s)
    BY DEF QueuedAt, PooledAt
  <2>4. ~Carries(t, s)' /\ ~Claims(t, s)'
    BY <1>2 DEF Carries, Claims
  <2> QED
    BY <1>1, <1>2, <2>1, <2>2, <2>3, <2>4, CallsFewer, SameIsFewer, FewerSubset DEF Dwindles
<1>6. Sole(x)'
  <2>1. ~Carries(t, x)'
    BY <1>2 DEF Carries
  <2>2. Carriers(x)' = {} /\ QueuedAt(x)' = {} /\ PooledAt(x)' = {}
    BY <1>2, <1>3, <2>1, CarriersNow DEF QueuedAt, PooledAt
  <2>3. \/ HeldBy(x)' = {} /\ TilesOf(x)' = {}
        \/ HeldBy(x)' = {t} /\ TilesOf(x)' = {}
        \/ HeldBy(x)' = {} /\ Single(TilesOf(x)')
    <3>1. CASE UNCHANGED <<held, tile>>
      BY <1>3, <3>1 DEF HeldBy, TilesOf
    <3>2. CASE held' = [held EXCEPT ![t] = @ \cup {x}] /\ tile' = tile
      BY <1>1, <1>3, <3>2 DEF HeldBy, TilesOf, Typed, TypeOK
    <3>3. CASE /\ filling[t] \in Bitmaps /\ held' = held
               /\ tile' = [tile EXCEPT ![filling[t]] = x]
      <4>1. \A b \in TilesOf(x)' : b = filling[t]
        BY <1>1, <1>3, <3>3 DEF TilesOf, Typed, TypeOK
      <4>2. HeldBy(x)' = {}
        BY <1>3, <3>3 DEF HeldBy
      <4> QED
        BY <4>1, <4>2 DEF Single
    <3> QED
      BY <1>4, <3>1, <3>2, <3>3
  <2> QED
    BY <2>2, <2>3 DEF Sole, OneAmong, Single
<1>7. \A u \in Threads : pc[u] = "take" => got[u] # x
  BY <1>3, NotTaken
<1>8. \A u \in Threads : pc'[u] = "take" =>
         pc[u] = "take" /\ got'[u] = got[u] /\ at'[u] = at[u]
  BY <1>2, SameTakers
<1>9. \A u \in Threads : pc'[u] = "look" \/ got'[u] \in Refs => u \in Getters
  BY <1>2, GettersAlone, CallersAssumption
<1> QED
  BY <1>5, <1>6, <1>7, <1>8, <1>9, MoveKeeps

(* A bitmap that was not made yet is nowhere and nobody's.                 *)
LEMMA FreshIsNowhere ==
    ASSUME Inductive, NEW x \in Fresh
    PROVE  /\ x \in Refs /\ Nowhere(x) /\ Claimers(x) = {} /\ x \notin used
           /\ \A u \in Threads : got[u] # x /\ ref[u] # x
<1>1. /\ x \in Refs /\ x \notin used
      /\ x \notin Range(pool) /\ x \notin Range(releasing) /\ x \notin Range(tile)
      /\ x \notin Range(ref) /\ x \notin Range(got) /\ x \notin UNION Range(held)
  BY DEF Fresh
<1>2. /\ DOMAIN tile = Bitmaps /\ DOMAIN ref = Threads /\ DOMAIN got = Threads
      /\ DOMAIN held = Threads
  BY DEF Inductive, Typed, TypeOK
<1>3. \A u \in Threads : got[u] # x /\ ref[u] # x
  BY <1>1, <1>2 DEF Range
<1>4. HeldBy(x) = {}
  BY <1>1, <1>2 DEF HeldBy, Range
<1>5. TilesOf(x) = {}
  BY <1>1, <1>2 DEF TilesOf, Range
<1>6. QueuedAt(x) = {} /\ PooledAt(x) = {}
  BY <1>1 DEF QueuedAt, PooledAt, Range
<1>7. Carriers(x) = {} /\ Claimers(x) = {}
  BY <1>3 DEF Carriers, Claimers
<1> QED
  BY <1>1, <1>3, <1>4, <1>5, <1>6, <1>7 DEF Nowhere

(* A tile goes to the release queue.                                       *)
LEMMA TileQueued ==
    ASSUME Inductive, Typed', NEW b \in Bitmaps, NEW x \in Refs, tile[b] = x,
           tile' = Emptied(b), releasing' = Append(releasing, x),
           UNCHANGED <<held, pool, used>>,
           \A s \in Refs : /\ Fewer(Carriers(s)', Carriers(s))
                           /\ Claimers(s) = {} => Claimers(s)' = {},
           \A u \in Threads : pc'[u] = "take" =>
              pc[u] = "take" /\ got'[u] = got[u] /\ at'[u] = at[u],
           \A u \in Threads : pc'[u] = "look" \/ got'[u] \in Refs => u \in Getters
    PROVE  Inductive'
<1>1. Typed /\ x # NoRef /\ x \in Refs \cup Bitmaps
  BY CallersAssumption DEF Inductive
<1>2. \A s \in Refs : TilesOf(s)' = TilesOf(s) \ {b}
  BY <1>1, CallersAssumption DEF TilesOf, Emptied, Typed, TypeOK
<1>3. \A s \in Refs : HeldBy(s)' = HeldBy(s) /\ PooledAt(s)' = PooledAt(s)
  BY DEF HeldBy, PooledAt
<1>4. b \in TilesOf(x)
  BY DEF TilesOf
<1>5. Sole(x)
  BY DEF Inductive, SoleOwners
<1>6. /\ TilesOf(x) = {b} /\ HeldBy(x) = {} /\ QueuedAt(x) = {}
      /\ Carriers(x) = {} /\ PooledAt(x) = {}
  BY <1>4, <1>5 DEF Sole, OneAmong, Single
<1>7. ASSUME NEW s \in Refs \ {x}
      PROVE  Dwindles(s) /\ (Claimers(s) = {} => Claimers(s)' = {})
  <2>1. QueuedAt(s)' = QueuedAt(s)
    BY <1>1, QueueAppend
  <2> QED
    BY <2>1, <1>2, <1>3, SameIsFewer, FewerSubset DEF Dwindles
<1>8. Sole(x)'
  <2>1. QueuedAt(x)' = {Len(releasing) + 1}
    BY <1>1, <1>6, QueueAppend
  <2>2. Carriers(x)' = {}
    BY <1>6 DEF Fewer
  <2> QED
    BY <2>1, <2>2, <1>2, <1>3, <1>6 DEF Sole, OneAmong, Single
<1>9. x \in used'
  BY <1>4 DEF Inductive, UsedCovers
<1>10. \A u \in Threads : pc[u] = "take" => got[u] # x
  BY <1>4, NotTaken
<1> QED
  BY <1>7, <1>8, <1>9, <1>10, MoveKeeps

(* A new bitmap: getBitmap and addBitmap.                                  *)
LEMMA CreateKeeps ==
    ASSUME Inductive, Typed', NEW t \in Threads, Create(t)
    PROVE  Inductive'
<1>1. PICK x \in Fresh : PutInUse(x) /\ got' = [got EXCEPT ![t] = x]
  BY DEF Create
<1>2. /\ x \in Refs /\ Nowhere(x) /\ Claimers(x) = {} /\ x \notin used
      /\ \A u \in Threads : got[u] # x /\ ref[u] # x
  BY <1>1, FreshIsNowhere
<1>3. Typed
  BY DEF Inductive
<1>4. /\ Alone(t) /\ pc[t] = "look" /\ pc'[t] = "shrink" /\ got'[t] = x
      /\ UNCHANGED <<held, tile, releasing, pool, at>> /\ used' = used \cup {x}
  BY <1>1, <1>3 DEF Create, Goto, Alone, Typed, TypeOK, owners, PutInUse
<1>5. ASSUME NEW s \in Refs \ {x}
      PROVE  Dwindles(s) /\ (Claimers(s) = {} => Claimers(s)' = {})
  <2>1. ~Carries(t, s)' /\ ~Claims(t, s)'
    BY <1>4 DEF Carries, Claims
  <2>2. /\ HeldBy(s)' = HeldBy(s) /\ TilesOf(s)' = TilesOf(s)
        /\ QueuedAt(s)' = QueuedAt(s) /\ PooledAt(s)' = PooledAt(s)
    BY <1>4 DEF HeldBy, TilesOf, QueuedAt, PooledAt
  <2> QED
    BY <1>3, <1>4, <2>1, <2>2, CallsFewer, SameIsFewer DEF Dwindles
<1>6. Sole(x)'
  <2>1. /\ HeldBy(x)' = {} /\ TilesOf(x)' = {} /\ QueuedAt(x)' = {} /\ PooledAt(x)' = {}
    BY <1>2, <1>4 DEF Nowhere, HeldBy, TilesOf, QueuedAt, PooledAt
  <2>2. Carriers(x) = {}
    BY <1>2 DEF Nowhere
  <2>3. Single(Carriers(x)')
    BY <1>2, <1>4, <2>2, CarriersNow DEF Single
  <2> QED
    BY <2>1, <2>3 DEF Sole, OneAmong, Single
<1>7. \A u \in Threads : pc'[u] = "look" \/ got'[u] \in Refs => u \in Getters
  BY <1>4, GettersAlone DEF Inductive, GettersGet
<1>8. \A u \in Threads : pc'[u] = "take" =>
         pc[u] = "take" /\ got'[u] = got[u] /\ at'[u] = at[u]
  BY <1>4, SameTakers
<1>9. x \in used' /\ used \subseteq used'
  BY <1>4
<1> QED
  BY <1>2, <1>4, <1>5, <1>6, <1>7, <1>8, <1>9, MoveKeeps

(* A created bitmap is new, so that the caller is its only owner.          *)
LEMMA AddBitmapKeeps ==
    ASSUME Inductive, Typed', NEW t \in Threads, NEW h \in Heights, AddBitmap(t, h)
    PROVE  Inductive'
<1>1. PICK x \in Fresh : PutInUse(x) /\ held' = [held EXCEPT ![t] = @ \cup {x}]
  BY DEF AddBitmap
<1>2. /\ x \in Refs /\ Nowhere(x) /\ Claimers(x) = {} /\ x \notin used
      /\ \A u \in Threads : got[u] # x /\ ref[u] # x
  BY <1>1, FreshIsNowhere
<1>3. held \in [Threads -> SUBSET Refs]
  BY DEF Inductive, Typed, TypeOK
<1>4. /\ UNCHANGED <<pc, got, ref, at, tile, releasing, pool>> /\ used' = used \cup {x}
  BY <1>1 DEF AddBitmap, PutInUse, locals, getLocals
<1>0. \A u \in Threads : held'[u] = IF u = t THEN held[u] \cup {x} ELSE held[u]
  BY <1>1, <1>3
<1>5. ASSUME NEW s \in Refs
      PROVE  /\ HeldBy(s)' = IF s = x THEN HeldBy(s) \cup {t} ELSE HeldBy(s)
             /\ TilesOf(s)' = TilesOf(s) /\ QueuedAt(s)' = QueuedAt(s)
             /\ PooledAt(s)' = PooledAt(s) /\ Carriers(s)' = Carriers(s)
             /\ Claimers(s)' = Claimers(s)
  BY <1>0, <1>4 DEF HeldBy, TilesOf, QueuedAt, PooledAt, Carriers, Claimers
<1>6. \A s \in Refs \ {x} : Dwindles(s) /\ (Claimers(s) = {} => Claimers(s)' = {})
  BY <1>5, SameIsFewer DEF Dwindles
<1>7. Sole(x)'
  BY <1>2, <1>5 DEF Sole, Nowhere, OneAmong, Single
<1>8. x \in used' /\ used \subseteq used'
  BY <1>4
<1>9. \A u \in Threads : pc'[u] = "look" \/ got'[u] \in Refs => u \in Getters
  BY <1>4 DEF Inductive, GettersGet
<1> QED
  BY <1>2, <1>4, <1>6, <1>7, <1>8, <1>9, MoveKeeps

(* An entry leaves the pool to be recycled: RecycleOld and PollPool.       *)
LEMMA RemovalKeeps ==
    ASSUME Inductive, Typed', NEW t \in Threads, Alone(t), NEW i \in 0 .. Len(pool),
           Without(i), UNCHANGED <<held, tile, releasing, used>>, pc'[t] # "take",
           \A s \in Refs : Carries(t, s)' => Carries(t, s),
           \A s \in Refs : Claims(t, s)' => Claims(t, s),
           pc'[t] = "look" \/ got'[t] \in Refs => t \in Getters
    PROVE  Inductive'
<1>1. Typed
  BY DEF Inductive
<1>2. ASSUME NEW s \in Refs
      PROVE  /\ Dwindles(s) /\ (Claimers(s) = {} => Claimers(s)' = {})
             /\ HeldBy(s)' = HeldBy(s) /\ TilesOf(s)' = TilesOf(s)
             /\ QueuedAt(s)' = QueuedAt(s)
  <2>1. HeldBy(s)' = HeldBy(s) /\ TilesOf(s)' = TilesOf(s) /\ QueuedAt(s)' = QueuedAt(s)
    BY DEF HeldBy, TilesOf, QueuedAt
  <2> QED
    BY <1>1, <2>1, CallsFewer, PoolWithout, SameIsFewer DEF Dwindles
<1>3. ASSUME NEW u \in Threads, pc'[u] = "take"
      PROVE  /\ pc[u] = "take" /\ got'[u] = got[u] /\ got[u] # NoRef
             /\ IF at'[u] = 0 THEN at[u] = 0 \/ Nowhere(got[u])'
                ELSE at[u] # 0 /\ pool'[at'[u]] = pool[at[u]]
  <2>1. pc[u] = "take" /\ got'[u] = got[u]
    BY <1>3 DEF Alone
  <2>2. PICK s \in Refs : s = got[u]
    BY <1>1, <2>1, Stage
  <2>3. /\ PooledAt(s)' = {} \/ ~(i # 0 /\ s = pool[i] /\ Single(PooledAt(s)))
        /\ i # 0 /\ s = pool[i] => PooledAt(s) # {}
        /\ IF at'[u] = 0 THEN at[u] = 0 \/ at[u] = i
           ELSE at[u] # 0 /\ pool'[at'[u]] = pool[at[u]]
    BY <1>1, PoolWithout
  <2>4. ASSUME at'[u] = 0, at[u] # 0 PROVE Nowhere(s)'
    <3>1. i # 0 /\ s = pool[i]
      BY <2>1, <2>2, <2>3, <2>4 DEF Inductive, Iterating
    <3>2. Sole(s) /\ PooledAt(s) # {}
      BY <2>3, <3>1 DEF Inductive, SoleOwners
    <3>3. /\ HeldBy(s) = {} /\ TilesOf(s) = {} /\ QueuedAt(s) = {} /\ Carriers(s) = {}
          /\ PooledAt(s)' = {}
      BY <2>3, <3>1, <3>2 DEF Sole, OneAmong
    <3> QED
      BY <1>2, <3>3 DEF Nowhere, Dwindles, Fewer
  <2>5. Nowhere(s)' => Nowhere(got[u])'
    BY <2>1, <2>2, <1>3 DEF Nowhere, HeldBy, TilesOf, QueuedAt, Carriers, PooledAt
  <2>6. s # NoRef
    BY CallersAssumption
  <2> QED
    BY <2>1, <2>2, <2>3, <2>4, <2>5, <2>6
<1>4. \A u \in Threads : pc'[u] = "look" \/ got'[u] \in Refs => u \in Getters
  BY GettersAlone
<1> QED
  BY <1>2, <1>3, <1>4, StepKeeps, CallersAssumption

(* removeOldRefs takes an old entry out of the pool and recycles it:       *)
(* nobody has it.                                                          *)
LEMMA RecycleOldKeeps ==
    ASSUME Inductive, Typed', NEW t \in Threads, RecycleOld(t)
    PROVE  Inductive'
<1>1. Typed
  BY DEF Inductive
<1>2. /\ pc[t] = "recycleOld" /\ pc'[t] = "removeOld" /\ Alone(t) /\ got' = got
      /\ UNCHANGED <<held, tile, releasing, used>>
  BY <1>1 DEF RecycleOld, Recycle, Goto, Alone, Typed, TypeOK, owners, getLocals
<1>3. Without(at[t]) /\ at[t] \in 0 .. Len(pool)
  BY <1>1, Stage DEF RecycleOld
<1>4. PICK i \in 0 .. Len(pool) : i = at[t]
  BY <1>3
<1>5. Without(i)
  BY <1>3, <1>4
<1>6. \A s \in Refs : ~Carries(t, s)' /\ ~Claims(t, s)'
  BY <1>2 DEF Carries, Claims
<1>7. got[t] \notin Refs
  BY <1>1, <1>2, Stage DEF Getting
<1> QED
  BY <1>2, <1>5, <1>6, <1>7, RemovalKeeps

(* shrinkPool moves the first entry from the pool to the hand.             *)
LEMMA PollPoolKeeps ==
    ASSUME Inductive, Typed', NEW t \in Threads, PollPool(t)
    PROVE  Inductive'
<1>1. Typed
  BY DEF Inductive
<1>2. /\ pc[t] = "shrink" /\ pc'[t] = "recycle" /\ Alone(t) /\ got' = got
      /\ UNCHANGED <<held, tile, releasing, used>>
  BY <1>1 DEF PollPool, Goto, Alone, Typed, TypeOK, owners, getLocals
<1>3. Without(1) /\ 1 \in 0 .. Len(pool)
  <2>1. pool \in Seq(Refs) /\ pool # <<>>
    BY <1>1 DEF PollPool, Shrinking, Typed, TypeOK
  <2>2. Len(pool) \in Nat /\ Len(pool) # 0
    BY <2>1, LenProperties, EmptySeq
  <2> QED
    BY <2>2 DEF PollPool
<1>4. \A s \in Refs : Carries(t, s)' => Carries(t, s)
  BY <1>2 DEF Carries
<1>5. \A s \in Refs : Claims(t, s)' => Claims(t, s)
  BY <1>2 DEF Claims
<1>6. got[t] \in Refs => t \in Getters
  BY DEF Inductive, GettersGet
<1> QED
  BY <1>2, <1>3, <1>4, <1>5, <1>6, RemovalKeeps

(* The entry polled from the release queue moves from the queue to the     *)
(* hand.                                                                   *)
LEMMA PollRefKeeps ==
    ASSUME Inductive, Typed', NEW t \in Threads, PollRef(t)
    PROVE  Inductive'
<1>1. Typed
  BY DEF Inductive
<1>2. PICK x \in Refs : x = Head(releasing)
  BY DEF PollRef
<1>3. /\ pc[t] = "drain" /\ pc'[t] = "unuse" /\ Alone(t) /\ got' = got /\ ref'[t] = x
      /\ UNCHANGED <<held, tile, pool, used, at>>
      /\ releasing # <<>> /\ releasing' = Tail(releasing)
  BY <1>1, <1>2 DEF PollRef, Goto, Alone, Typed, TypeOK, owners, getLocals
<1>4. got[t] \notin Refs
  BY <1>1, <1>3, Stage DEF Getting
<1>5. \A s \in Refs : /\ HeldBy(s)' = HeldBy(s) /\ TilesOf(s)' = TilesOf(s)
                      /\ PooledAt(s)' = PooledAt(s)
  BY <1>3 DEF HeldBy, TilesOf, PooledAt
<1>6. ASSUME NEW s \in Refs \ {x}
      PROVE  Dwindles(s) /\ (Claimers(s) = {} => Claimers(s)' = {})
  <2>1. ~Carries(t, s)' /\ ~Claims(t, s)'
    BY <1>3 DEF Carries, Claims
  <2>2. Fewer(QueuedAt(s)', QueuedAt(s))
    BY <1>1, <1>3, QueueTail
  <2> QED
    BY <1>1, <1>3, <1>5, <2>1, <2>2, CallsFewer, SameIsFewer DEF Dwindles
<1>7. QueuedAt(x) # {} /\ (Single(QueuedAt(x)) => QueuedAt(x)' = {})
  BY <1>1, <1>2, <1>3, QueueTail
<1>8. Sole(x)
  BY DEF Inductive, SoleOwners
<1>9. /\ HeldBy(x) = {} /\ TilesOf(x) = {} /\ PooledAt(x) = {} /\ Carriers(x) = {}
      /\ QueuedAt(x)' = {}
  BY <1>7, <1>8 DEF Sole, OneAmong
<1>10. Sole(x)'
  <2>1. Claimers(x) = {}
    BY <1>9 DEF Claimers, Carriers
  <2>2. Single(Carriers(x)')
    BY <1>3, <1>9, <2>1, CarriersNow DEF Single
  <2> QED
    BY <1>5, <1>9, <2>2 DEF Sole, OneAmong, Single
<1>11. x \in used'
  BY <1>3, <1>7 DEF Inductive, UsedCovers
<1>12. \A u \in Threads : pc[u] = "take" => got[u] # x
  BY <1>7, NotTaken
<1>13. \A u \in Threads : pc'[u] = "take" =>
          pc[u] = "take" /\ got'[u] = got[u] /\ at'[u] = at[u]
  BY <1>3, SameTakers
<1>14. \A u \in Threads : pc'[u] = "look" \/ got'[u] \in Refs => u \in Getters
  BY <1>3, <1>4, GettersAlone
<1> QED
  BY <1>3, <1>6, <1>10, <1>11, <1>12, <1>13, <1>14, MoveKeeps

(* The tile of the polled Bitmaps moves from them to the hand.             *)
LEMMA PollBitmapsKeeps ==
    ASSUME Inductive, Typed', NEW t \in Threads, PollBitmaps(t)
    PROVE  Inductive'
<1>1. Typed
  BY DEF Inductive
<1>2. PICK b \in Bitmaps : b = Head(releasing)
  BY DEF PollBitmaps
<1>3. /\ pc[t] = "drain" /\ pc'[t] \in {"drain", "unuse"} /\ Alone(t) /\ got' = got
      /\ ref'[t] = tile[b] /\ tile' = Emptied(b)
      /\ pc'[t] = "unuse" <=> tile[b] # NoRef
      /\ UNCHANGED <<held, pool, used, at>>
      /\ releasing # <<>> /\ releasing' = Tail(releasing)
  BY <1>1, <1>2 DEF PollBitmaps, Goto, Alone, Typed, TypeOK, getLocals
<1>4. got[t] \notin Refs
  BY <1>1, <1>3, Stage DEF Getting
<1>5. PICK x : x = tile[b]
  OBVIOUS
<1>6. \A s \in Refs : HeldBy(s)' = HeldBy(s) /\ PooledAt(s)' = PooledAt(s)
  BY <1>3 DEF HeldBy, PooledAt
<1>7. \A s \in Refs : TilesOf(s)' = TilesOf(s) \ {b}
  BY <1>1, <1>3, CallersAssumption DEF TilesOf, Emptied, Typed, TypeOK
<1>8. \A s \in Refs : Fewer(QueuedAt(s)', QueuedAt(s))
  BY <1>1, <1>3, QueueTail
<1>9. ASSUME NEW s \in Refs \ {x}
      PROVE  Dwindles(s) /\ (Claimers(s) = {} => Claimers(s)' = {})
  <2>1. ~Carries(t, s)' /\ ~Claims(t, s)'
    BY <1>3, <1>4, <1>5 DEF Carries, Claims
  <2> QED
    BY <1>1, <1>3, <1>6, <1>7, <1>8, <2>1, CallsFewer, SameIsFewer, FewerSubset DEF Dwindles
<1>10. ASSUME x \in Refs PROVE Sole(x)' /\ x \in used' /\ TilesOf(x) # {}
  <2>1. b \in TilesOf(x) /\ Sole(x)
    BY <1>5, <1>10 DEF TilesOf, Inductive, SoleOwners
  <2>2. /\ TilesOf(x) = {b} /\ HeldBy(x) = {} /\ QueuedAt(x) = {} /\ PooledAt(x) = {}
        /\ Carriers(x) = {}
    BY <2>1 DEF Sole, OneAmong, Single
  <2>3. Claimers(x) = {}
    BY <2>2 DEF Claimers, Carriers
  <2>4. Single(Carriers(x)')
    BY <1>3, <2>2, <2>3, CarriersNow DEF Single
  <2>5. QueuedAt(x)' = {}
    BY <1>8, <1>10, <2>2 DEF Fewer
  <2>6. x \in used'
    BY <1>3, <1>10, <2>1 DEF Inductive, UsedCovers
  <2> QED
    BY <1>6, <1>7, <1>10, <2>1, <2>2, <2>4, <2>5, <2>6 DEF Sole, OneAmong, Single
<1>11. \A u \in Threads : pc[u] = "take" => got[u] # x
  <2>1. x \in Refs \/ x = NoRef
    BY <1>1, <1>5 DEF Typed, TypeOK
  <2> QED
    BY <2>1, <1>10, NotTaken, NoRefIsNotTaken
<1>12. \A u \in Threads : pc'[u] = "take" =>
          pc[u] = "take" /\ got'[u] = got[u] /\ at'[u] = at[u]
  BY <1>3, SameTakers
<1>13. \A u \in Threads : pc'[u] = "look" \/ got'[u] \in Refs => u \in Getters
  BY <1>3, <1>4, GettersAlone
<1> QED
  BY <1>3, <1>9, <1>10, <1>11, <1>12, <1>13, MoveKeeps

(* A released entry is in use no more, and the call still has it.          *)
LEMMA UnuseKeeps ==
    ASSUME Inductive, Typed', NEW t \in Threads, Unuse(t)
    PROVE  Inductive'
<1>1. Typed
  BY DEF Inductive
<1>2. ref[t] \in Refs /\ pc[t] = "unuse"
  BY <1>1, Stage DEF Unuse
<1>3. PICK x \in Refs : x = ref[t]
  BY <1>2
<1>4. /\ pc'[t] = "pool" /\ Alone(t) /\ got' = got /\ ref' = ref
      /\ UNCHANGED <<held, tile, releasing, pool, at>> /\ used' = used \ {x}
  BY <1>1, <1>3 DEF Unuse, Goto, Alone, Typed, TypeOK, owners, locals, getLocals
<1>5. Carries(t, x) /\ ~Claims(t, x)'
  BY <1>2, <1>3, <1>4 DEF Carries, Claims
<1>6. /\ Carriers(x) = {t} /\ HeldBy(x) = {} /\ TilesOf(x) = {}
      /\ QueuedAt(x) = {} /\ PooledAt(x) = {} /\ Claimers(x) \subseteq {t}
  BY <1>5, CarriedIsAlone
<1>7. ASSUME NEW s \in Refs
      PROVE  /\ Dwindles(s) /\ (Claimers(s) = {} => Claimers(s)' = {})
             /\ HeldBy(s)' = HeldBy(s) /\ TilesOf(s)' = TilesOf(s)
             /\ QueuedAt(s)' = QueuedAt(s)
  <2>1. Carries(t, s)' => Carries(t, s)
    BY <1>2, <1>4 DEF Carries
  <2>2. ~Claims(t, s)' \/ Claims(t, s)
    BY <1>2, <1>4 DEF Claims
  <2>3. /\ HeldBy(s)' = HeldBy(s) /\ TilesOf(s)' = TilesOf(s)
        /\ QueuedAt(s)' = QueuedAt(s) /\ PooledAt(s)' = PooledAt(s)
    BY <1>4 DEF HeldBy, TilesOf, QueuedAt, PooledAt
  <2> QED
    BY <1>1, <1>4, <2>1, <2>2, <2>3, CallsFewer, SameIsFewer DEF Dwindles
<1>8. Sole(x)'
  BY <1>7, DwindlesIsSole DEF Inductive, SoleOwners
<1>9. Unclaimed(x)'
  BY <1>4, <1>5, <1>6, <1>7, CarriersNow DEF Unclaimed
<1>10. \A u \in Threads : pc[u] = "take" => got[u] # x
  BY <1>6, NotTaken
<1>11. \A u \in Threads : pc'[u] = "take" =>
          pc[u] = "take" /\ got'[u] = got[u] /\ at'[u] = at[u]
  BY <1>4, SameTakers
<1>12. \A u \in Threads : pc'[u] = "look" \/ got'[u] \in Refs => u \in Getters
  BY <1>4, GettersAlone DEF Inductive, GettersGet
<1> QED
  BY <1>4, <1>7, <1>8, <1>9, <1>10, <1>11, <1>12, MoveKeeps

(* A released entry moves from the hand to the pool.                       *)
LEMMA AddToPoolKeeps ==
    ASSUME Inductive, Typed', NEW t \in Threads, AddToPool(t)
    PROVE  Inductive'
<1>1. Typed
  BY DEF Inductive
<1>2. ref[t] \in Refs /\ pc[t] = "pool"
  BY <1>1, Stage DEF AddToPool
<1>3. PICK x \in Refs : x = ref[t]
  BY <1>2
<1>4. /\ pc'[t] = "drain" /\ Alone(t) /\ got' = got
      /\ UNCHANGED <<held, tile, releasing, used, at>> /\ pool' = Append(pool, x)
  BY <1>1, <1>3 DEF AddToPool, Goto, Alone, Typed, TypeOK, owners, getLocals
<1>5. Carries(t, x)
  BY <1>2, <1>3 DEF Carries
<1>0. \A s \in Refs : ~Carries(t, s)' /\ ~Claims(t, s)'
  BY <1>4 DEF Carries, Claims
<1>6. /\ Carriers(x) = {t} /\ HeldBy(x) = {} /\ TilesOf(x) = {}
      /\ QueuedAt(x) = {} /\ PooledAt(x) = {} /\ Claimers(x) \subseteq {t}
  BY <1>5, CarriedIsAlone
<1>7. ASSUME NEW s \in Refs
      PROVE  /\ HeldBy(s)' = HeldBy(s) /\ TilesOf(s)' = TilesOf(s)
             /\ QueuedAt(s)' = QueuedAt(s)
             /\ PooledAt(s)' = IF s = x THEN PooledAt(s) \cup {Len(pool) + 1}
                               ELSE PooledAt(s)
             /\ Fewer(Carriers(s)', Carriers(s)) /\ (Claimers(s) = {} => Claimers(s)' = {})
  <2>1. HeldBy(s)' = HeldBy(s) /\ TilesOf(s)' = TilesOf(s) /\ QueuedAt(s)' = QueuedAt(s)
    BY <1>4 DEF HeldBy, TilesOf, QueuedAt
  <2>2. PooledAt(s)' = IF s = x THEN PooledAt(s) \cup {Len(pool) + 1} ELSE PooledAt(s)
    BY <1>1, <1>4, PoolAppend
  <2> QED
    BY <1>0, <1>1, <1>4, <2>1, <2>2, CallsFewer
<1>8. \A s \in Refs \ {x} : Dwindles(s) /\ (Claimers(s) = {} => Claimers(s)' = {})
  BY <1>7, SameIsFewer DEF Dwindles
<1>9. Carriers(x)' = {} /\ Claimers(x)' = {}
  BY <1>0, <1>4, <1>6, CarriersNow
<1>10. Sole(x)' /\ Unclaimed(x)'
  BY <1>6, <1>7, <1>9 DEF Sole, OneAmong, Single, Unclaimed
<1>11. \A u \in Threads : pc[u] = "take" => got[u] # x
  BY <1>6, NotTaken
<1>12. \A u \in Threads : pc'[u] = "take" =>
          pc[u] = "take" /\ got'[u] = got[u] /\ at'[u] = at[u]
  BY <1>4, SameTakers
<1>13. \A u \in Threads : pc'[u] = "look" \/ got'[u] \in Refs => u \in Getters
  BY <1>4, GettersAlone DEF Inductive, GettersGet
<1>14. \A i \in 1 .. Len(pool) : pool'[i] = pool[i]
  BY <1>1, <1>4, PoolAppend
<1> QED
  BY <1>4, <1>8, <1>10, <1>11, <1>12, <1>13, <1>14, MoveKeeps

(* The entry that getBitmap took becomes used and goes to the caller, who  *)
(* has it alone.                                                           *)
LEMMA EnterKeeps ==
    ASSUME Inductive, Typed', NEW t \in Threads, Enter(t)
    PROVE  Inductive'
<1>1. Typed
  BY DEF Inductive
<1>2. got[t] \in Refs /\ pc[t] = "enter"
  BY <1>1, Stage DEF Enter
<1>3. PICK x \in Refs : x = got[t]
  BY <1>2
<1>4. Return(t, x) /\ UNCHANGED <<ref, pool, releasing, at>> /\ used' = used \cup {x}
  BY <1>3 DEF Enter, PutInUse
<1>5. Carries(t, x)
  BY <1>2, <1>3 DEF Carries
<1> QED
  BY <1>3, <1>4, <1>5, ReturnKeeps

(* getBitmap hands its bitmap over to its caller, which holds it.          *)
LEMMA ShrunkKeeps ==
    ASSUME Inductive, Typed', NEW t \in Threads, Shrunk(t)
    PROVE  Inductive'
<1>1. Typed /\ pc[t] = "shrink" /\ UNCHANGED <<ref, pool, releasing, at, used>>
  BY DEF Inductive, Shrunk, poolVars
<1>2. CASE call[t] = "getBitmap" /\ Return(t, got[t])
  <2>1. got[t] \in Refs
    BY <1>1, <1>2, Stage DEF Getting
  <2>2. PICK x \in Refs : x = got[t]
    BY <2>1
  <2>3. Carries(t, x) /\ t \in Claimers(x)
    BY <1>1, <2>2 DEF Carries, Claimers
  <2>4. x \in used
    BY <2>3 DEF Inductive, UsedCovers
  <2>5. Return(t, x)
    BY <1>2, <2>2
  <2> QED
    BY <1>1, <2>2, <2>3, <2>4, <2>5, ReturnKeeps
<1>3. CASE call[t] # "getBitmap"
  <2>1. got[t] \notin Refs
    BY <1>1, <1>3, Stage DEF Getting
  <2>2. /\ pc'[t] \in {"shrink", "idle"} /\ Alone(t) /\ got' = got
        /\ UNCHANGED <<held, tile>>
    BY <1>1, <1>3 DEF Shrunk, Goto, Alone, Typed, TypeOK, owners, getLocals
  <2>3. \A s \in Refs : ~Carries(t, s)' /\ ~Claims(t, s)'
    BY <1>1, <2>1, <2>2 DEF Carries, Claims
  <2> QED
    BY <1>1, <2>1, <2>2, <2>3, QuietKeeps
<1> QED
  BY <1>2, <1>3 DEF Shrunk

(* The pooled bitmap a thread has found is in its hands.  Only here does   *)
(* it matter that no other thread can have found the same one.             *)
LEMMA TakeKeeps ==
    ASSUME Inductive, Typed', \A u, w \in Getters : u = w, NEW t \in Threads, Take(t)
    PROVE  Inductive'
<1>1. Typed
  BY DEF Inductive
<1>2. got[t] \in Refs /\ pc[t] = "take" /\ at[t] \in 0 .. Len(pool)
  BY <1>1, Stage DEF Take
<1>3. PICK x \in Refs : x = got[t]
  BY <1>2
<1>4. PICK i \in 0 .. Len(pool) : i = at[t]
  BY <1>2
<1>5. /\ pc'[t] = "enter" /\ Alone(t) /\ got' = got /\ ref' = ref
      /\ UNCHANGED <<held, tile, releasing, used>> /\ Without(i)
  BY <1>1, <1>4 DEF Take, Goto, Alone, Typed, TypeOK, owners, getLocals
<1>6. ref[t] \notin Refs
  BY <1>1, <1>2 DEF Typed, HasRef
<1>7. ASSUME NEW s \in Refs
      PROVE  /\ HeldBy(s)' = HeldBy(s) /\ TilesOf(s)' = TilesOf(s)
             /\ QueuedAt(s)' = QueuedAt(s) /\ Fewer(PooledAt(s)', PooledAt(s))
  BY <1>1, <1>5, PoolWithout DEF HeldBy, TilesOf, QueuedAt
<1>8. ASSUME NEW s \in Refs \ {x}
      PROVE  Dwindles(s) /\ (Claimers(s) = {} => Claimers(s)' = {})
  <2>1. ~Carries(t, s)' /\ ~Claims(t, s)'
    BY <1>3, <1>5 DEF Carries, Claims
  <2> QED
    BY <1>1, <1>5, <1>7, <2>1, CallsFewer, SameIsFewer DEF Dwindles
<1>9. /\ HeldBy(x) = {} /\ TilesOf(x) = {} /\ QueuedAt(x) = {} /\ Carriers(x) = {}
      /\ PooledAt(x)' = {}
  <2>1. CASE i = 0
    BY <1>2, <1>3, <1>4, <1>7, <2>1 DEF Inductive, Iterating, Nowhere, Fewer
  <2>2. CASE i # 0
    <3>1. x = pool[i]
      BY <1>2, <1>3, <1>4, <2>2 DEF Inductive, Iterating
    <3>2. PooledAt(x) # {} /\ (Single(PooledAt(x)) => PooledAt(x)' = {})
      BY <1>1, <1>5, <2>2, <3>1, PoolWithout
    <3> QED
      BY <3>2 DEF Inductive, SoleOwners, Sole, OneAmong
  <2> QED
    BY <2>1, <2>2
<1>10. Claimers(x) = {}
  BY <1>9 DEF Claimers, Carriers
<1>11. Sole(x)' /\ Unclaimed(x)'
  <2>1. Single(Carriers(x)')
    BY <1>5, <1>9, <1>10, CarriersNow DEF Single
  <2>2. ~Claims(t, x)'
    BY <1>5 DEF Claims
  <2>3. Claimers(x)' = {}
    BY <1>5, <1>9, <1>10, <2>2, CarriersNow
  <2> QED
    BY <1>7, <1>9, <2>1, <2>3 DEF Sole, OneAmong, Single, Unclaimed
<1>12. \A u \in Threads : pc'[u] # "take"
  <2>1. t \in Getters
    BY <1>2 DEF Inductive, GettersGet
  <2>2. ASSUME NEW u \in Threads \ {t}, pc[u] = "take" PROVE FALSE
    <3>1. u \in Getters
      BY <1>1, <2>2, Stage DEF Inductive, GettersGet
    <3> QED
      BY <2>1, <3>1
  <2> QED
    BY <1>5, <2>2 DEF Alone
<1>13. \A u \in Threads : pc'[u] = "look" \/ got'[u] \in Refs => u \in Getters
  BY <1>5, GettersAlone DEF Inductive, GettersGet
<1> QED
  BY <1>5, <1>8, <1>11, <1>12, <1>13, StepKeeps

(* A holder that gives its bitmap to the release queue has it no more.     *)
LEMMA ReleaseRefKeeps ==
    ASSUME Inductive, Typed', NEW t \in Threads, NEW x \in held[t], ReleaseRef(t, x)
    PROVE  Inductive'
<1>1. Typed /\ held \in [Threads -> SUBSET Refs] /\ x \in Refs /\ x \in Refs \cup Bitmaps
  BY DEF Inductive, Typed, TypeOK
<1>2. /\ UNCHANGED <<pc, got, ref, at, used, tile, pool>>
      /\ releasing' = Append(releasing, x) /\ held' = [held EXCEPT ![t] = @ \ {x}]
  BY DEF ReleaseRef, locals, getLocals
<1>3. \A u \in Threads : held'[u] = IF u = t THEN held[u] \ {x} ELSE held[u]
  BY <1>1, <1>2
<1>4. ASSUME NEW s \in Refs
      PROVE  /\ HeldBy(s)' = IF s = x THEN HeldBy(s) \ {t} ELSE HeldBy(s)
             /\ TilesOf(s)' = TilesOf(s) /\ PooledAt(s)' = PooledAt(s)
             /\ QueuedAt(s)' = IF s = x THEN QueuedAt(s) \cup {Len(releasing) + 1}
                               ELSE QueuedAt(s)
             /\ Carriers(s)' = Carriers(s) /\ Claimers(s)' = Claimers(s)
  <2>1. HeldBy(s)' = IF s = x THEN HeldBy(s) \ {t} ELSE HeldBy(s)
    BY <1>3 DEF HeldBy
  <2>2. QueuedAt(s)' = IF s = x THEN QueuedAt(s) \cup {Len(releasing) + 1}
                       ELSE QueuedAt(s)
    BY <1>1, <1>2, QueueAppend
  <2> QED
    BY <2>1, <2>2, <1>2 DEF TilesOf, PooledAt, Carriers, Claimers
<1>5. \A s \in Refs \ {x} : Dwindles(s) /\ (Claimers(s) = {} => Claimers(s)' = {})
  BY <1>4, SameIsFewer DEF Dwindles
<1>6. t \in HeldBy(x)
  BY DEF HeldBy
<1>7. Sole(x)'
  <2>1. Sole(x)
    BY <1>1 DEF Inductive, SoleOwners
  <2>2. /\ HeldBy(x) = {t} /\ TilesOf(x) = {} /\ QueuedAt(x) = {} /\ Carriers(x) = {}
        /\ PooledAt(x) = {}
    BY <1>6, <2>1 DEF Sole, OneAmong, Single
  <2> QED
    BY <1>1, <1>4, <2>2 DEF Sole, OneAmong, Single
<1>8. x \in used'
  BY <1>1, <1>2, <1>6 DEF Inductive, UsedCovers
<1>9. \A u \in Threads : pc[u] = "take" => got[u] # x
  BY <1>1, <1>6, NotTaken
<1>10. \A u \in Threads : pc'[u] = "look" \/ got'[u] \in Refs => u \in Getters
  BY <1>2 DEF Inductive, GettersGet
<1> QED
  BY <1>2, <1>5, <1>7, <1>8, <1>9, <1>10, MoveKeeps

(* Bitmaps wait for the decoder: no bitmap moves.                          *)
LEMMA NodeQueued ==
    ASSUME Inductive, Typed', NEW b \in Bitmaps, releasing' = Append(releasing, b),
           UNCHANGED <<pc, got, ref, at, used, tile, pool, held>>
    PROVE  Inductive'
<1>1. Typed /\ b \in Refs \cup Bitmaps /\ b \notin Refs
  BY CallersAssumption DEF Inductive
<1>2. ASSUME NEW s \in Refs \ {NoRef}
      PROVE  Dwindles(s) /\ (Claimers(s) = {} => Claimers(s)' = {})
  <2>1. QueuedAt(s)' = QueuedAt(s)
    BY <1>1, QueueAppend
  <2>2. /\ HeldBy(s)' = HeldBy(s) /\ TilesOf(s)' = TilesOf(s) /\ PooledAt(s)' = PooledAt(s)
        /\ Carriers(s)' = Carriers(s) /\ Claimers(s)' = Claimers(s)
    BY DEF HeldBy, TilesOf, PooledAt, Carriers, Claimers
  <2> QED
    BY <2>1, <2>2, SameIsFewer DEF Dwindles
<1>3. \A u \in Threads : pc'[u] = "look" \/ got'[u] \in Refs => u \in Getters
  BY DEF Inductive, GettersGet
<1> QED
  BY <1>2, <1>3, NoRefIsNotTaken, MoveKeeps, CallersAssumption

(* The finalizer of Bitmaps moves their tile to the release queue.         *)
LEMMA FinalizeBitmapsKeeps ==
    ASSUME Inductive, Typed', NEW b \in Bitmaps, FinalizeBitmaps(b)
    PROVE  Inductive'
<1>1. /\ UNCHANGED <<pc, got, ref, at, used, pool, held>>
      /\ tile[b] # NoRef /\ tile' = Emptied(b) /\ releasing' = Append(releasing, tile[b])
  BY DEF FinalizeBitmaps, locals, getLocals
<1>2. PICK x \in Refs : x = tile[b]
  BY <1>1 DEF Inductive, Typed, TypeOK
<1>3. \A s \in Refs : Carriers(s)' = Carriers(s) /\ Claimers(s)' = Claimers(s)
  BY <1>1 DEF Carriers, Claimers
<1>4. \A u \in Threads : pc'[u] = "look" \/ got'[u] \in Refs => u \in Getters
  BY <1>1 DEF Inductive, GettersGet
<1> QED
  BY <1>1, <1>2, <1>3, <1>4, SameIsFewer, TileQueued

(* A tile that was recycled moves from its Bitmaps to the release queue.   *)
LEMMA FillKeeps ==
    ASSUME Inductive, Typed', NEW t \in Threads, NEW b \in Bitmaps, Fill(t, b)
    PROVE  Inductive'
<1>1. /\ Typed /\ t \in Getters /\ pc[t] = "idle"
      /\ UNCHANGED <<used, pool, held, ref, at, got>>
  BY DEF Inductive, Fill
<1>2. got[t] \notin Refs
  BY <1>1, Stage DEF Getting
<1>3. CASE UNCHANGED <<releasing, tile, pc>>
  <2>1. Alone(t)
    BY <1>1, <1>3 DEF Alone
  <2>2. \A s \in Refs : ~Carries(t, s)' /\ ~Claims(t, s)'
    BY <1>1, <1>3 DEF Carries, Claims
  <2> QED
    BY <1>1, <1>2, <1>3, <2>1, <2>2, QuietKeeps
<1>4. CASE /\ Goto(t, "look") /\ tile' = Emptied(b)
           /\ releasing' = IF tile[b] = NoRef THEN releasing
                                              ELSE Append(releasing, tile[b])
  <2>1. Alone(t) /\ pc'[t] = "look"
    BY <1>1, <1>4 DEF Alone, Goto, Typed, TypeOK
  <2>2. \A s \in Refs : ~Carries(t, s)' /\ ~Claims(t, s)'
    BY <2>1 DEF Carries, Claims
  <2>3. \A s \in Refs : /\ Fewer(Carriers(s)', Carriers(s))
                        /\ Claimers(s) = {} => Claimers(s)' = {}
    BY <1>1, <2>1, <2>2, CallsFewer
  <2>4. \A u \in Threads : pc'[u] = "take" =>
           pc[u] = "take" /\ got'[u] = got[u] /\ at'[u] = at[u]
    BY <1>1, <2>1, SameTakers
  <2>5. \A u \in Threads : pc'[u] = "look" \/ got'[u] \in Refs => u \in Getters
    BY <1>1, <2>1, GettersAlone
  <2>6. CASE tile[b] = NoRef
    <3>1. UNCHANGED <<held, tile, releasing, pool>>
      BY <1>1, <1>4, <2>6 DEF Emptied, Typed, TypeOK
    <3> QED
      BY <1>1, <2>1, <2>2, <3>1, QuietKeeps
  <2>7. CASE tile[b] # NoRef
    <3>1. PICK x \in Refs : x = tile[b]
      BY <1>1, <2>7 DEF Typed, TypeOK
    <3> QED
      BY <1>1, <1>4, <2>3, <2>4, <2>5, <2>7, <3>1, TileQueued
  <2> QED
    BY <2>6, <2>7
<1> QED
  BY <1>3, <1>4 DEF Fill

(* A step that concerns neither bitmaps nor the places they are in.        *)
LEMMA StillKeeps ==
    ASSUME Inductive, Typed',
           UNCHANGED <<pc, got, ref, at, used, held, tile, releasing, pool>>
    PROVE  Inductive'
<1>1. \A s \in Refs : /\ HeldBy(s)' = HeldBy(s) /\ TilesOf(s)' = TilesOf(s)
                      /\ QueuedAt(s)' = QueuedAt(s) /\ PooledAt(s)' = PooledAt(s)
                      /\ Carriers(s)' = Carriers(s) /\ Claimers(s)' = Claimers(s)
  BY DEF HeldBy, TilesOf, QueuedAt, PooledAt, Carriers, Claimers
<1>2. SoleOwners'
  BY <1>1, SameIsFewer, DwindlesIsSole DEF Inductive, SoleOwners, Dwindles
<1>3. ASSUME NEW u \in Threads, pc[u] = "take", at[u] = 0 PROVE Nowhere(got[u])'
  <2>1. PICK s \in Refs : s = got[u]
    BY <1>3, Stage DEF Inductive
  <2>2. Nowhere(s)'
    BY <1>1, <1>3, <2>1 DEF Inductive, Iterating, Nowhere
  <2> QED
    BY <2>1, <2>2 DEF Nowhere, HeldBy, TilesOf, QueuedAt, Carriers, PooledAt
<1>4. Iterating'
  BY <1>3 DEF Inductive, Iterating
<1>5. GettersGet'
  BY DEF Inductive, GettersGet
<1>6. UsedCovers'
  BY <1>1 DEF Inductive, UsedCovers
<1> QED
  BY <1>2, <1>4, <1>5, <1>6 DEF Inductive

(* Steps of a thread that look at the pool or change what it holds of it.  *)
LEMMA LookKeeps ==
    ASSUME Inductive, Typed', NEW t \in Threads, Look(t)
    PROVE  Inductive'
<1>1. PICK i \in DOMAIN pool :
         at' = [at EXCEPT ![t] = i] /\ got' = [got EXCEPT ![t] = pool[i]]
  BY DEF Look
<1>2. Typed /\ i # 0
  <2>1. Typed /\ pool \in Seq(Refs)
    BY DEF Inductive, Typed, TypeOK
  <2>2. DOMAIN pool = 1 .. Len(pool) /\ Len(pool) \in Nat
    BY <2>1, LenProperties
  <2> QED
    BY <1>1, <2>1, <2>2
<1>3. /\ pc[t] = "look" /\ pc'[t] = "take" /\ Alone(t) /\ got'[t] = pool[i] /\ at'[t] = i
      /\ UNCHANGED <<held, tile, releasing, pool, used>>
      /\ \A u \in Threads \ {t} : at'[u] = at[u]
  BY <1>1, <1>2 DEF Look, Goto, Alone, Typed, TypeOK, owners, poolVars
<1>4. \A s \in Refs : ~Carries(t, s)' /\ ~Claims(t, s)'
  BY <1>3 DEF Carries, Claims
<1>5. t \in Getters
  BY <1>3 DEF Inductive, GettersGet
<1> QED
  BY <1>2, <1>3, <1>4, <1>5, QuietKeeps

(* removeOldRefs has the entry it found in hand, and still in the pool.    *)
LEMMA FindOldKeeps ==
    ASSUME Inductive, Typed', NEW t \in Threads, FindOld(t)
    PROVE  Inductive'
<1>1. PICK i \in DOMAIN pool :
         at' = [at EXCEPT ![t] = i] /\ ref' = [ref EXCEPT ![t] = pool[i]]
  BY DEF FindOld
<1>2. /\ pc[t] = "removeOld" /\ pc'[t] = "recycleOld" /\ Alone(t) /\ got' = got
      /\ UNCHANGED <<held, tile, releasing, pool, used>>
      /\ \A u \in Threads \ {t} : at'[u] = at[u]
  BY <1>1 DEF FindOld, Goto, Alone, Inductive, Typed, TypeOK, owners, poolVars, getLocals
<1>3. \A s \in Refs : ~Carries(t, s)' /\ ~Claims(t, s)'
  BY <1>2 DEF Carries, Claims
<1>4. got[t] \notin Refs
  BY <1>2, Stage DEF Inductive, Getting
<1> QED
  BY <1>2, <1>3, <1>4, QuietKeeps

(* A recycled entry is nobody's: the call has it no more.                  *)
LEMMA RecyclePolledKeeps ==
    ASSUME Inductive, Typed', NEW t \in Threads, RecyclePolled(t)
    PROVE  Inductive'
<1>1. /\ pc[t] = "recycle" /\ pc'[t] = "shrink" /\ Alone(t) /\ got' = got /\ ref'[t] = NoRef
      /\ UNCHANGED <<held, tile, releasing, pool, used, at>>
  BY DEF RecyclePolled, Recycle, Goto, Alone, Inductive, Typed, TypeOK, owners, getLocals
<1>2. \A s \in Refs : (Carries(t, s)' => Carries(t, s)) /\ (Claims(t, s)' => Claims(t, s))
  BY <1>1 DEF Carries, Claims
<1>3. got[t] \in Refs => t \in Getters
  BY DEF Inductive, GettersGet
<1> QED
  BY <1>1, <1>2, <1>3, QuietKeeps

(* Steps of a thread that has no bitmap, before and after.                 *)
LEMMA IdleKeeps ==
    ASSUME Inductive, Typed', NEW t \in Threads,
           UNCHANGED <<got, ref, at, used, held, tile, releasing, pool>>,
           pc' = [pc EXCEPT ![t] = pc'[t]], got[t] \notin Refs,
           pc'[t] \in {"look", "removeOld", "drain", "shrink"},
           pc'[t] = "look" => t \in Getters
    PROVE  Inductive'
<1>1. Alone(t)
  BY DEF Alone, Inductive, Typed, TypeOK
<1>2. \A s \in Refs : ~Carries(t, s)' /\ ~Claims(t, s)'
  BY DEF Carries, Claims
<1> QED
  BY <1>1, <1>2, QuietKeeps

(* What they leave alone, and where they go.                               *)
Silent(t) ==
    /\ UNCHANGED <<got, ref, at, used, held, tile, releasing, pool>>
    /\ pc[t] \in {"idle", "removeOld", "drain"}
    /\ pc' = [pc EXCEPT ![t] = pc'[t]]
    /\ pc'[t] \in {"look", "removeOld", "drain", "shrink"}
    /\ pc'[t] = "look" => t \in Getters

(* The steps that only move a thread along its call.                       *)
LEMMA SilentActions ==
    ASSUME Typed, NEW t \in Threads,
           \/ \E h \in Heights : GetBitmap(t, h)
           \/ Release(t) \/ Clear(t) \/ NoOld(t) \/ Drained(t)
    PROVE  Silent(t)
<1>0. pc = [u \in Threads |-> pc[u]]
  BY DEF Typed, TypeOK
<1>1. ASSUME NEW h \in Heights, GetBitmap(t, h) PROVE Silent(t)
  BY <1>0, <1>1 DEF GetBitmap, Goto, poolVars, owners, Silent
<1>2. CASE Release(t)
  BY <1>0, <1>2 DEF Release, Advance, Goto, poolVars, owners, getLocals, Silent
<1>3. CASE Clear(t)
  BY <1>0, <1>3 DEF Clear, Advance, Goto, poolVars, owners, getLocals, Silent
<1>4. CASE NoOld(t)
  BY <1>0, <1>4 DEF NoOld, Advance, Goto, poolVars, owners, getLocals, Silent
<1>5. CASE Drained(t)
  BY <1>0, <1>5 DEF Drained, Goto, poolVars, owners, locals, getLocals, Silent
<1> QED
  BY <1>1, <1>2, <1>3, <1>4, <1>5

(* Steps that only move a thread along its call keep the invariant.        *)
LEMMA QuietActionsKeep ==
    ASSUME Inductive, Typed', NEW t \in Threads,
           \/ \E h \in Heights : GetBitmap(t, h)
           \/ Release(t) \/ Clear(t) \/ NoOld(t) \/ Drained(t)
    PROVE  Inductive'
<1>1. Silent(t)
  BY SilentActions DEF Inductive
<1>2. got[t] \notin Refs
  BY <1>1, Stage DEF Inductive, Getting, Silent
<1> QED
  BY <1>1, <1>2, IdleKeeps DEF Silent

-----------------------------------------------------------------------------
(* The theorems about owners                                               *)

(* At the start there is no bitmap.                                        *)
LEMMA InductiveInit == Init => Inductive
<1> SUFFICES ASSUME Init PROVE Inductive
  OBVIOUS
<1>1. Typed
  BY TypedInit
<1>2. /\ \A u \in Threads : held[u] = {} /\ pc[u] = "idle" /\ got[u] = NoRef
      /\ \A b \in Bitmaps : tile[b] = NoRef
      /\ releasing = <<>> /\ pool = <<>>
  BY DEF Init
<1>3. ASSUME NEW s \in Refs
      PROVE  /\ HeldBy(s) = {} /\ TilesOf(s) = {} /\ QueuedAt(s) = {}
             /\ PooledAt(s) = {} /\ Carriers(s) = {} /\ Claimers(s) = {}
  BY <1>2, CallersAssumption DEF HeldBy, TilesOf, QueuedAt, PooledAt, Carriers, Claimers
<1>4. SoleOwners /\ UsedCovers
  BY <1>3 DEF SoleOwners, Sole, OneAmong, Single, UsedCovers
<1>5. Iterating /\ GettersGet
  BY <1>2, CallersAssumption DEF Iterating, GettersGet
<1> QED
  BY <1>1, <1>4, <1>5 DEF Inductive

(* Each step keeps the invariant, if one thread at most calls getBitmap.   *)
LEMMA InductiveStep ==
    ASSUME \A u, w \in Getters : u = w, Inductive, [Next]_vars PROVE Inductive'
<1>1. Typed'
  BY TypedStep DEF Inductive
<1>2. CASE UNCHANGED vars
  BY <1>1, <1>2, StillKeeps DEF vars, poolVars, owners, locals, getLocals
<1>3. ASSUME NEW t \in Threads, Manager(t) PROVE Inductive'
  <2>1. CASE Drained(t) \/ NoOld(t)
    BY <1>1, <2>1, QuietActionsKeep
  <2> QED
    BY <1>1, <1>3, <2>1, LookKeeps, TakeKeeps, EnterKeeps, CreateKeeps, FindOldKeeps,
       RecycleOldKeeps, PollRefKeeps, PollBitmapsKeeps, UnuseKeeps,
       AddToPoolKeeps, PollPoolKeeps, RecyclePolledKeeps, ShrunkKeeps DEF Manager
<1>4. ASSUME NEW t \in Threads, NEW h \in Heights, GetBitmap(t, h) \/ AddBitmap(t, h)
      PROVE  Inductive'
  BY <1>1, <1>4, AddBitmapKeeps, QuietActionsKeep
<1>5. ASSUME NEW t \in Threads, Release(t) \/ Clear(t) PROVE Inductive'
  BY <1>1, <1>5, QuietActionsKeep
<1>6. ASSUME NEW t \in Threads, NEW r \in held[t], ReleaseRef(t, r) PROVE Inductive'
  BY <1>1, <1>6, ReleaseRefKeeps
<1>7. ASSUME NEW t \in Threads, NEW b \in Bitmaps, Fill(t, b) PROVE Inductive'
  BY <1>1, <1>7, FillKeeps
<1>8. ASSUME NEW b \in Bitmaps, SetBitmap(b) \/ Collect(b) PROVE Inductive'
  BY <1>1, <1>8, StillKeeps DEF SetBitmap, Collect, poolVars, locals, getLocals
<1>9. ASSUME NEW b \in Bitmaps, RecycleHolder(b) \/ FinalizeNode(b) PROVE Inductive'
  BY <1>1, <1>9, NodeQueued DEF RecycleHolder, FinalizeNode, locals, getLocals
<1>10. ASSUME NEW b \in Bitmaps, FinalizeBitmaps(b) PROVE Inductive'
  BY <1>1, <1>10, FinalizeBitmapsKeeps
<1> QED
  BY <1>2, <1>3, <1>4, <1>5, <1>6, <1>7, <1>8, <1>9, <1>10 DEF Next, Clients

(* The invariant holds, if one thread at most calls getBitmap.             *)
LEMMA InductiveHolds ==
    ASSUME \A u, w \in Getters : u = w PROVE Spec => []Inductive
<1>1. Inductive /\ [Next]_vars => Inductive'
  BY InductiveStep
<1> QED
  BY <1>1, InductiveInit, PTL DEF Spec

(* Where one thread gets bitmaps, the decoder's, each bitmap has one owner,*)
(* whoever gives bitmaps back, empties the queue or shrinks the pool.      *)
THEOREM BitmapHasOneOwner ==
    ASSUME \A u, w \in Getters : u = w PROVE Spec => []OneOwner
<1>1. ASSUME Inductive PROVE OneOwner
  <2>1. ASSUME NEW r \in Refs, NEW p \in PlacesOf(r), NEW q \in PlacesOf(r) PROVE p = q
    <3>1. Sole(r)
      BY <1>1 DEF Inductive, SoleOwners
    <3>2. PlacesOf(r) = ({"holder"} \X HeldBy(r)) \cup ({"tile"} \X TilesOf(r))
                          \cup ({"queue"} \X QueuedAt(r)) \cup ({"call"} \X Carriers(r))
                          \cup ({"pool"} \X PooledAt(r))
      BY DEF PlacesOf, ClientsOf, HeldBy, TilesOf, QueuedAt, PooledAt
    <3> QED
      BY <3>1, <3>2 DEF Sole, OneAmong, Single
  <2> QED
    BY <2>1 DEF OneOwner
<1> QED
  BY <1>1, InductiveHolds, PTL

(* Then releaseImpl also finds every bitmap it releases among the used.    *)
THEOREM ReleasedIsFound ==
    ASSUME \A u, w \in Getters : u = w PROVE Spec => []ReleasedWasUsed
<1>1. ASSUME Inductive PROVE ReleasedWasUsed
  <2>1. ASSUME NEW t \in Threads, pc[t] = "unuse" PROVE ref[t] \in used
    <3>1. ref[t] \in Refs
      BY <1>1, <2>1, Stage DEF Inductive
    <3>2. t \in Claimers(ref[t])
      BY <2>1 DEF Claimers
    <3> QED
      BY <1>1, <3>1, <3>2 DEF Inductive, UsedCovers
  <2> QED
    BY <2>1 DEF ReleasedWasUsed
<1> QED
  BY <1>1, InductiveHolds, PTL

-----------------------------------------------------------------------------
(* The limit *)

(* Nobody is in the part of a call that ends in shrinkPool.                *)
Calm == \A t \in Threads : pc[t] \in {"idle", "look", "take", "enter"}

(* getBitmap moves a bitmap from the pool to those in use and need not     *)
(* shrink the pool; whatever else changes the sum does.                    *)
Below == Adders = {} /\ Calm => pool = <<>> \/ memoryUsed + memoryPooled <= Limit

(* A step that leaves memory and pool alone.                               *)
LEMMA BelowSame ==
    ASSUME Below, pool' = pool, memory' = memory, Calm' => Calm
    PROVE  Below'
BY DEF Below, memory

(* A thread moves on in the part of a call that ends in shrinkPool.        *)
LEMMA BelowBusy ==
    ASSUME Typed, NEW t \in Threads, NEW label, Goto(t, label),
           label \notin {"idle", "look", "take", "enter"}
    PROVE  Below'
<1>1. pc'[t] = label
  BY DEF Goto, Typed, TypeOK
<1> QED
  BY <1>1 DEF Below, Calm

(* Removing an entry for getBitmap does not change what is counted.        *)
LEMMA TakeBelow ==
    ASSUME Typed, Below, NEW t \in Threads, Take(t)
    PROVE  Below'
<1>1. Calm' => Calm
  <2>1. /\ pc[t] = "take"
        /\ \A u \in Threads \ {t} : pc'[u] = pc[u]
    BY DEF Take, Goto, Typed, TypeOK
  <2> QED
    BY <2>1 DEF Calm
<1>2. pool = <<>> => pool' = <<>>
  <2>1. at[t] \in 0 .. Len(pool) /\ Without(at[t]) /\ TypeOK
    BY Stage DEF Take, Typed
  <2>2. pool = <<>> => at[t] = 0
    BY <2>1
  <2> QED
    BY <2>1, <2>2, WithoutEffect
<1>3. memoryUsed' = memoryUsed /\ memoryPooled' = memoryPooled
  BY DEF Take, memory
<1> QED
  BY <1>1, <1>2, <1>3 DEF Below

(* What getBitmap adds to the memory in use it takes from the memory       *)
(* pooled.                                                                 *)
LEMMA EnterBelow ==
    ASSUME Typed, Below, NEW t \in Threads, Enter(t)
    PROVE  Below'
<1>1. Calm' => Calm
  <2>1. /\ pc[t] = "enter"
        /\ \A u \in Threads \ {t} : pc'[u] = pc[u]
    BY DEF Enter, Return, Goto, Typed, TypeOK
  <2> QED
    BY <2>1 DEF Calm
<1>2. pool' = pool
  BY DEF Enter
<1>3. memoryUsed' + memoryPooled' = memoryUsed + memoryPooled
  <2>1. height[got[t]] \in Int /\ memoryUsed \in Int /\ memoryPooled \in Int
    <3>1. pc[t] = "enter"
      BY DEF Enter
    <3>2. got[t] \in Refs
      BY <3>1, Stage
    <3> QED
      BY <3>2 DEF Typed, TypeOK
  <2>2. /\ memoryPooled' = memoryPooled - height[got[t]]
        /\ memoryUsed' = memoryUsed + height[got[t]]
    BY DEF Enter
  <2> QED
    BY <2>1, <2>2
<1> QED
  BY <1>1, <1>2, <1>3 DEF Below

(* A call ends when the pool is empty or the limit kept.                   *)
LEMMA ShrunkBelow ==
    ASSUME Typed, NEW t \in Threads, Shrunk(t)
    PROVE  Below'
<1>1. memoryUsed \in Int /\ memoryPooled \in Int /\ Limit \in Nat
  BY SizesAssumption DEF Typed, TypeOK
<1>2. pool' = pool /\ memoryUsed' = memoryUsed /\ memoryPooled' = memoryPooled
  BY DEF Shrunk, poolVars, memory
<1>3. pool = <<>> \/ memoryPooled + memoryUsed <= Limit
  BY <1>1 DEF Shrunk, Shrinking, OverLimit
<1> QED
  BY <1>1, <1>2, <1>3 DEF Below

(* Each step keeps the limit, as it stands between calls and while         *)
(* getBitmap looks for an entry.                                           *)
LEMMA BelowStep == Typed /\ Below /\ [Next]_vars => Below'
<1> SUFFICES ASSUME Typed, Below, [Next]_vars PROVE Below'
  OBVIOUS
<1>1. CASE UNCHANGED vars
  <2>1. pool' = pool /\ memory' = memory /\ pc' = pc
    BY <1>1 DEF vars, poolVars, memory
  <2> QED
    BY <2>1, BelowSame DEF Calm
<1>2. ASSUME NEW t \in Threads, Manager(t) PROVE Below'
  <2>1. CASE Look(t)
    <3>1. pool' = pool /\ memory' = memory /\ pc[t] = "look"
      BY <2>1 DEF Look, poolVars
    <3>2. \A u \in Threads \ {t} : pc'[u] = pc[u]
      BY <2>1 DEF Look, Goto, Typed, TypeOK
    <3> QED
      BY <3>1, <3>2, BelowSame DEF Calm
  <2>2. CASE Create(t)
    BY <2>2, BelowBusy DEF Create
  <2>3. CASE FindOld(t)
    BY <2>3, BelowBusy DEF FindOld
  <2>4. CASE RecycleOld(t)
    BY <2>4, BelowBusy DEF RecycleOld
  <2>5. CASE NoOld(t)
    BY <2>5, BelowBusy DEF NoOld, Advance
  <2>6. CASE PollRef(t)
    BY <2>6, BelowBusy DEF PollRef
  <2>7. CASE PollBitmaps(t)
    BY <2>7, BelowBusy DEF PollBitmaps
  <2>8. CASE Unuse(t)
    BY <2>8, BelowBusy DEF Unuse
  <2>9. CASE AddToPool(t)
    BY <2>9, BelowBusy DEF AddToPool
  <2>10. CASE Drained(t)
    BY <2>10, BelowBusy DEF Drained
  <2>11. CASE PollPool(t)
    BY <2>11, BelowBusy DEF PollPool
  <2>12. CASE RecyclePolled(t)
    BY <2>12, BelowBusy DEF RecyclePolled
  <2> QED
    BY <1>2, <2>1, <2>2, <2>3, <2>4, <2>5, <2>6, <2>7, <2>8, <2>9, <2>10, <2>11, <2>12,
       TakeBelow, EnterBelow, ShrunkBelow DEF Manager
<1>3. ASSUME NEW t \in Threads, Release(t) \/ Clear(t) PROVE Below'
  BY <1>3, BelowBusy DEF Release, Clear, Advance
<1>4. ASSUME NEW t \in Threads, NEW h \in Heights, GetBitmap(t, h) PROVE Below'
  <2>1. /\ pool' = pool /\ memory' = memory /\ pc[t] = "idle"
        /\ \A u \in Threads \ {t} : pc'[u] = pc[u]
    BY <1>4 DEF GetBitmap, Goto, poolVars, Typed, TypeOK
  <2> QED
    BY <2>1, BelowSame DEF Calm
<1>5. ASSUME NEW t \in Threads, NEW h \in Heights, AddBitmap(t, h) PROVE Below'
  BY <1>5 DEF AddBitmap, Below
<1>6. ASSUME NEW t \in Threads, NEW r \in held[t], ReleaseRef(t, r) PROVE Below'
  BY <1>6, BelowSame DEF ReleaseRef, Calm
<1>7. ASSUME NEW t \in Threads, NEW b \in Bitmaps, Fill(t, b) PROVE Below'
  <2>1. /\ pool' = pool /\ memory' = memory /\ pc[t] = "idle"
        /\ \A u \in Threads \ {t} : pc'[u] = pc[u]
    BY <1>7 DEF Fill, Goto, Typed, TypeOK
  <2> QED
    BY <2>1, BelowSame DEF Calm
<1>8. ASSUME NEW b \in Bitmaps,
             \/ SetBitmap(b) \/ RecycleHolder(b) \/ FinalizeNode(b)
             \/ FinalizeBitmaps(b) \/ Collect(b)
      PROVE  Below'
  <2>1. pool' = pool /\ memory' = memory /\ pc' = pc
    BY <1>8 DEF SetBitmap, RecycleHolder, FinalizeNode, FinalizeBitmaps, Collect, poolVars
  <2> QED
    BY <2>1, BelowSame DEF Calm
<1> QED
  BY <1>1, <1>2, <1>3, <1>4, <1>5, <1>6, <1>7, <1>8 DEF Next, Clients

(* Between two calls nothing is pooled beyond the limit, whichever threads *)
(* ask, release and clear at a time: the last of them shrinks the pool.    *)
THEOREM LimitIsKept == Spec => []LimitKept
<1>1. Init => Below
  BY DEF Init, Below
<1>2. Below => LimitKept
  BY DEF Below, Calm, LimitKept, Quiet
<1> QED
  BY <1>1, <1>2, TypedInit, TypedStep, BelowStep, PTL DEF Spec

-----------------------------------------------------------------------------
(* One caller *)

Callers == Getters \cup Adders \cup Drainers \cup Cleaners

(* Scroll reading, while the document is open and memory is not low: the   *)
(* decoder alone calls the manager.  Other threads give bitmaps to the     *)
(* release queue.                                                          *)
OneCaller == \A u, w \in Callers : u = w

CallersCall == \A t \in Threads : pc[t] # "idle" => t \in Callers

(* What the caller has in hand.  The entry it is about to remove is still  *)
(* there, a bitmap that it has polled to recycle is neither used nor       *)
(* pooled, one that it found to fit has its pixels, and the Bitmaps that   *)
(* it fills have no tile.                                                  *)
HandOK(t) ==
    /\ pc[t] = "take" => at[t] # 0 /\ pool[at[t]] = got[t]
    /\ pc[t] = "recycleOld" => at[t] # 0 /\ pool[at[t]] = ref[t]
    /\ pc[t] = "recycle" => ref[t] \notin used /\ PooledAt(ref[t]) = {}
    /\ pc[t] \in {"take", "enter"} => live[got[t]]
    /\ filling[t] # NoBitmaps => t \in Getters /\ tile[filling[t]] = NoRef

Hands == \A t \in Threads : HandOK(t)

(* Somebody has r: a holder, a tile, the release queue, or a call.         *)
Owned(r) ==
    \/ HeldBy(r) # {} \/ TilesOf(r) # {} \/ QueuedAt(r) # {}
    \/ \E t \in Threads : Claims(t, r)

UsedOwned == \A r \in used : Owned(r)

(* A bitmap that has left the pool is counted as pooled until it is in use *)
(* or recycled.                                                            *)
Owes(t, r) ==
    \/ got[t] = r /\ pc[t] = "enter"
    \/ ref[t] = r /\ pc[t] = "recycle"

Owed == {r \in Refs : PooledAt(r) # {} \/ \E t \in Threads : Owes(t, r)}

Counted ==
    /\ IsFiniteSet(used) /\ memoryUsed = SumFunctionOnSet(height, used)
    /\ IsFiniteSet(Owed) /\ memoryPooled = SumFunctionOnSet(height, Owed)

CallerInv ==
    /\ Inductive /\ CallersCall /\ Hands
    /\ UsedOwned /\ UsedIsLive /\ Counted

(* Thread t makes a step of its call.                                      *)
Steps(t) ==
    /\ t \in Callers
    /\ \A u \in Threads \ {t} : /\ pc'[u] = pc[u] /\ got'[u] = got[u]
                                /\ ref'[u] = ref[u] /\ filling'[u] = filling[u]

(* The other threads are idle.                                             *)
LEMMA OthersIdle ==
    ASSUME OneCaller, CallerInv, NEW t \in Callers
    PROVE  \A u \in Threads \ {t} : pc[u] = "idle" /\ filling[u] = NoBitmaps
<1>1. ASSUME NEW u \in Threads \ {t} PROVE u \notin Callers
  BY <1>1 DEF OneCaller
<1>2. ASSUME NEW u \in Threads \ {t} PROVE pc[u] = "idle"
  BY <1>1, <1>2 DEF CallerInv, CallersCall
<1>3. ASSUME NEW u \in Threads \ {t} PROVE filling[u] = NoBitmaps
  <2>1. u \notin Getters
    BY <1>1 DEF Callers
  <2> QED
    BY <2>1, <1>3 DEF CallerInv, Hands, HandOK
<1> QED
  BY <1>2, <1>3

(* It is enough to look at the caller.                                     *)
LEMMA CallerKeeps ==
    ASSUME OneCaller, CallerInv, Inductive', NEW t \in Threads, Steps(t), HandOK(t)',
           \A r \in used' : Owned(r)' /\ live'[r], Counted'
    PROVE  CallerInv'
<1>1. \A u \in Threads \ {t} : pc'[u] = "idle" /\ filling'[u] = NoBitmaps
  BY OthersIdle DEF Steps
<1>2. CallersCall'
  BY <1>1 DEF CallersCall, Steps
<1>3. ASSUME NEW u \in Threads \ {t} PROVE HandOK(u)'
  <2>1. pc'[u] = "idle" /\ filling'[u] = NoBitmaps
    BY <1>1
  <2> QED
    BY <2>1 DEF HandOK
<1>4. Hands'
  BY <1>3 DEF Hands
<1>5. UsedOwned' /\ UsedIsLive'
  BY DEF UsedOwned, UsedIsLive
<1> QED
  BY <1>2, <1>4, <1>5 DEF CallerInv

(* What changes who has a bitmap is what t claims.                         *)
LEMMA OwnedSame ==
    ASSUME UNCHANGED <<held, tile, releasing>>, NEW t \in Threads, Steps(t), NEW r,
           Owned(r), Claims(t, r) => Claims(t, r)'
    PROVE  Owned(r)'
<1>1. ASSUME NEW u \in Threads, Claims(u, r) PROVE Claims(u, r)'
  BY <1>1 DEF Claims, Steps
<1>2. /\ HeldBy(r)' = HeldBy(r) /\ TilesOf(r)' = TilesOf(r)
      /\ QueuedAt(r)' = QueuedAt(r)
  BY DEF HeldBy, TilesOf, QueuedAt
<1> QED
  BY <1>1, <1>2 DEF Owned

(* What the counters count is the same.                                    *)
LEMMA CountedSame ==
    ASSUME Counted, height' = height, used' = used, memory' = memory,
           \A r \in Refs : r \in Owed' <=> r \in Owed
    PROVE  Counted'
<1>1. Owed' = Owed
  BY DEF Owed
<1> HIDE DEF Owed
<1>2. memoryUsed' = memoryUsed /\ memoryPooled' = memoryPooled
  BY DEF memory
<1> QED
  BY <1>1, <1>2 DEF Counted

(* What t owes, and what is in the pool, makes the difference.             *)
LEMMA OwedMeans ==
    ASSUME OneCaller, CallerInv, NEW t \in Threads, Steps(t), NEW r \in Refs
    PROVE  /\ r \in Owed <=> PooledAt(r) # {} \/ Owes(t, r)
           /\ r \in Owed' <=> PooledAt(r)' # {} \/ Owes(t, r)'
<1>1. t \in Callers
  BY DEF Steps
<1>2. \A u \in Threads \ {t} : pc[u] = "idle" /\ pc'[u] = "idle"
  BY <1>1, OthersIdle DEF Steps
<1>3. \A u \in Threads \ {t} : ~Owes(u, r) /\ ~Owes(u, r)'
  BY <1>2 DEF Owes
<1> QED
  BY <1>3 DEF Owed

(* A step in which no bitmap moves and nothing is counted.                 *)
LEMMA StayKeeps ==
    ASSUME OneCaller, CallerInv, Inductive', NEW t \in Threads, Steps(t),
           UNCHANGED <<used, live, height, memory, held, tile, releasing, pool>>,
           HandOK(t)', \A r \in Refs : Claims(t, r) => Claims(t, r)',
           \A r \in Refs : Owes(t, r)' <=> Owes(t, r)
    PROVE  CallerInv'
<1>1. used \subseteq Refs
  BY DEF CallerInv, Inductive, Typed, TypeOK
<1>2. ASSUME NEW r \in used' PROVE Owned(r)' /\ live'[r]
  <2>1. r \in used /\ r \in Refs
    BY <1>1, <1>2
  <2>2. Owned(r) /\ live[r]
    BY <2>1 DEF CallerInv, UsedOwned, UsedIsLive
  <2> QED
    BY <2>1, <2>2, OwnedSame
<1>3. ASSUME NEW r \in Refs PROVE r \in Owed' <=> r \in Owed
  <2>1. PooledAt(r)' = PooledAt(r)
    BY DEF PooledAt
  <2> QED
    BY <2>1, OwedMeans
<1>4. Counted'
  BY <1>3, CountedSame DEF CallerInv
<1> QED
  BY <1>2, <1>4, CallerKeeps

(* A thread in a call is the caller, and nobody else moves.                *)
LEMMA ManagerSteps ==
    ASSUME CallerInv, NEW t \in Threads, Manager(t)
    PROVE  Steps(t) /\ pc[t] # "idle"
<1>1. Typed
  BY DEF CallerInv, Inductive
<1>2. pc[t] # "idle"
  BY DEF Manager, Look, Take, Enter, Create, FindOld, RecycleOld, NoOld, PollRef, PollBitmaps,
         Unuse, AddToPool, Drained, PollPool, RecyclePolled, Shrunk
<1>3. t \in Callers
  BY <1>2 DEF CallerInv, CallersCall
<1>4. \A u \in Threads \ {t} : pc'[u] = pc[u]
  BY <1>1 DEF Typed, TypeOK, Goto, Return, Advance, owners,
         Manager, Look, Take, Enter, Create, FindOld, RecycleOld, NoOld, PollRef, PollBitmaps,
         Unuse, AddToPool, Drained, PollPool, RecyclePolled, Shrunk
<1>5. \A u \in Threads \ {t} : got'[u] = got[u] /\ filling'[u] = filling[u]
  BY <1>1 DEF Typed, TypeOK, Return, locals, getLocals, Recycle,
         Manager, Look, Take, Enter, Create, FindOld, RecycleOld, NoOld, PollRef, PollBitmaps,
         Unuse, AddToPool, Drained, PollPool, RecyclePolled, Shrunk
<1>6. \A u \in Threads \ {t} : ref'[u] = ref[u]
  BY <1>1 DEF Typed, TypeOK, locals, Recycle,
         Manager, Look, Take, Enter, Create, FindOld, RecycleOld, NoOld, PollRef, PollBitmaps,
         Unuse, AddToPool, Drained, PollPool, RecyclePolled, Shrunk
<1> QED
  BY <1>2, <1>3, <1>4, <1>5, <1>6 DEF Steps

(* A bitmap that is pooled, or on its way into or out of the pool, is not  *)
(* in use.                                                                 *)
LEMMA PooledIsUnused ==
    ASSUME CallerInv, NEW r \in Refs, PooledAt(r) # {}
    PROVE  r \notin used /\ \A t \in Threads : ~Carries(t, r)
<1>1. /\ HeldBy(r) = {} /\ TilesOf(r) = {} /\ QueuedAt(r) = {} /\ Carriers(r) = {}
  BY DEF CallerInv, Inductive, SoleOwners, Sole, OneAmong
<1>2. \A t \in Threads : ~Carries(t, r)
  BY <1>1 DEF Carriers, Carries
<1>3. \A t \in Threads : ~Claims(t, r)
  BY <1>2 DEF Carries, Claims
<1> QED
  BY <1>1, <1>2, <1>3 DEF CallerInv, UsedOwned, Owned

(* What the only caller carries and has not claimed is neither in use nor  *)
(* pooled.                                                                 *)
LEMMA CarriedIsUnused ==
    ASSUME OneCaller, CallerInv, NEW t \in Callers, t \in Threads, NEW r \in Refs,
           Carries(t, r), ~Claims(t, r)
    PROVE  r \notin used /\ PooledAt(r) = {}
<1>1. t \in Carriers(r)
  BY DEF Carriers, Carries
<1>2. /\ HeldBy(r) = {} /\ TilesOf(r) = {} /\ QueuedAt(r) = {} /\ PooledAt(r) = {}
  BY <1>1 DEF CallerInv, Inductive, SoleOwners, Sole, OneAmong
<1>3. \A u \in Threads \ {t} : ~Claims(u, r)
  BY OthersIdle DEF Claims
<1> QED
  BY <1>2, <1>3 DEF CallerInv, UsedOwned, Owned

(* Where a thread goes that has nothing special in hand then.              *)
LEMMA PlainHand ==
    ASSUME CallerInv, NEW t \in Threads,
           pc'[t] \notin {"take", "recycleOld", "recycle", "enter"},
           filling'[t] = filling[t],
           \A b \in Bitmaps : tile'[b] = tile[b] \/ tile'[b] = NoRef
    PROVE  HandOK(t)'
<1>1. filling[t] \in Bitmaps \cup {NoBitmaps}
  BY DEF CallerInv, Inductive, Typed, TypeOK
<1>2. filling[t] # NoBitmaps => t \in Getters /\ tile[filling[t]] = NoRef
  BY DEF CallerInv, Hands, HandOK
<1>3. filling'[t] # NoBitmaps => t \in Getters /\ tile'[filling'[t]] = NoRef
  BY <1>1, <1>2
<1> QED
  BY <1>3 DEF HandOK

(* The steps that only look, or begin a part of a call.                    *)
LEMMA LookCalls ==
    ASSUME OneCaller, CallerInv, Inductive', NEW t \in Threads, Look(t)
    PROVE  CallerInv'
<1>1. Steps(t) /\ Typed
  BY ManagerSteps DEF Manager, CallerInv, Inductive
<1>2. PICK i \in DOMAIN pool :
         /\ Fits(t, pool[i])
         /\ at' = [at EXCEPT ![t] = i] /\ got' = [got EXCEPT ![t] = pool[i]]
  BY DEF Look
<1>3. /\ UNCHANGED <<used, live, height, memory, held, tile, releasing, pool, ref, filling>>
      /\ pc[t] = "look" /\ pc'[t] = "take" /\ at'[t] = i /\ got'[t] = pool[i]
  BY <1>1, <1>2 DEF Look, Goto, Typed, TypeOK, refVars, poolVars, owners
<1>4. i # 0
  <2>1. pool \in Seq(Refs)
    BY <1>1 DEF Typed, TypeOK
  <2>2. DOMAIN pool = 1 .. Len(pool) /\ Len(pool) \in Nat
    BY <2>1, LenProperties
  <2> QED
    BY <2>2
<1>5. HandOK(t)'
  <2>1. filling'[t] # NoBitmaps => t \in Getters /\ tile'[filling'[t]] = NoRef
    BY <1>3 DEF CallerInv, Hands, HandOK
  <2>2. live'[got'[t]]
    BY <1>2, <1>3 DEF Fits
  <2> QED
    BY <1>3, <1>4, <2>1, <2>2 DEF HandOK
<1>6. \A r \in Refs : (Claims(t, r) => Claims(t, r)') /\ (Owes(t, r)' <=> Owes(t, r))
  BY <1>3 DEF Claims, Owes
<1> QED
  BY <1>1, <1>3, <1>5, <1>6, StayKeeps

(* removeOldRefs finds its next old entry and counts nothing.              *)
LEMMA FindOldCalls ==
    ASSUME OneCaller, CallerInv, Inductive', NEW t \in Threads, FindOld(t)
    PROVE  CallerInv'
<1>1. Steps(t) /\ Typed
  BY ManagerSteps DEF Manager, CallerInv, Inductive
<1>2. PICK i \in DOMAIN pool :
         at' = [at EXCEPT ![t] = i] /\ ref' = [ref EXCEPT ![t] = pool[i]]
  BY DEF FindOld
<1>3. /\ UNCHANGED <<used, live, height, memory, held, tile, releasing, pool, got, filling>>
      /\ pc[t] = "removeOld" /\ pc'[t] = "recycleOld" /\ at'[t] = i /\ ref'[t] = pool[i]
  BY <1>1, <1>2 DEF FindOld, Goto, Typed, TypeOK, refVars, poolVars, owners, getLocals
<1>4. i # 0
  <2>1. pool \in Seq(Refs)
    BY <1>1 DEF Typed, TypeOK
  <2>2. DOMAIN pool = 1 .. Len(pool) /\ Len(pool) \in Nat
    BY <2>1, LenProperties
  <2> QED
    BY <2>2
<1>5. HandOK(t)'
  <2>1. filling'[t] # NoBitmaps => t \in Getters /\ tile'[filling'[t]] = NoRef
    BY <1>3 DEF CallerInv, Hands, HandOK
  <2> QED
    BY <1>3, <1>4, <2>1 DEF HandOK
<1>6. \A r \in Refs : (Claims(t, r) => Claims(t, r)') /\ (Owes(t, r)' <=> Owes(t, r))
  BY <1>3 DEF Claims, Owes
<1> QED
  BY <1>1, <1>3, <1>5, <1>6, StayKeeps

(* What a thread without bitmaps does before it has one, see Silent.       *)
LEMMA SilentCalls ==
    ASSUME OneCaller, CallerInv, Inductive', NEW t \in Threads, Steps(t), Silent(t),
           UNCHANGED <<live, height, memory, filling>>
    PROVE  CallerInv'
<1>1. got[t] \notin Refs
  BY Stage DEF Silent, Getting, CallerInv, Inductive
<1>2. HandOK(t)'
  BY PlainHand DEF Silent
<1>3. \A r \in Refs : (Claims(t, r) => Claims(t, r)') /\ (Owes(t, r)' <=> Owes(t, r))
  BY <1>1 DEF Silent, Claims, Owes
<1> QED
  BY <1>2, <1>3, StayKeeps DEF Silent

(* An entry leaves the pool, and the others stay.                          *)
LEMMA PoolOthers ==
    ASSUME Typed, NEW i \in 1 .. Len(pool), Without(i), NEW s, s # pool[i],
           PooledAt(s) # {}
    PROVE  PooledAt(s)' # {}
<1> DEFINE n == Len(pool)
<1>1. pool \in Seq(Refs) /\ n \in Nat /\ DOMAIN pool = 1 .. n /\ i \in 0 .. n /\ i # 0
  BY LenProperties DEF Typed, TypeOK
<1>2. /\ pool' \in Seq(Refs) /\ Len(pool') = n - 1
      /\ \A j \in 1 .. n - 1 : pool'[j] = IF j < i THEN pool[j] ELSE pool[j + 1]
  BY <1>1, WithoutEffect DEF Typed
<1>3. DOMAIN pool' = 1 .. n - 1
  BY <1>2, LenProperties
<1>4. PICK j \in 1 .. n : pool[j] = s
  BY <1>1 DEF PooledAt
<1> HIDE DEF n
<1>5. j # i /\ i \in 1 .. n
  BY <1>1, <1>4
<1>6. CASE j < i
  <2>1. j \in 1 .. n - 1 /\ pool'[j] = s
    BY <1>1, <1>2, <1>4, <1>5, <1>6
  <2> QED
    BY <2>1, <1>3 DEF PooledAt
<1>7. CASE ~(j < i)
  <2>1. j - 1 \in 1 .. n - 1 /\ ~(j - 1 < i) /\ (j - 1) + 1 = j
    BY <1>1, <1>5, <1>7
  <2>2. pool'[j - 1] = s
    BY <2>1, <1>2, <1>4
  <2> QED
    BY <2>1, <2>2, <1>3 DEF PooledAt
<1> QED
  BY <1>6, <1>7

(* An entry of the pool has one place there, so that removing it leaves    *)
(* all others and none of it.                                              *)
LEMMA PoolLeaves ==
    ASSUME Inductive, NEW i \in 1 .. Len(pool), Without(i), NEW x, x = pool[i]
    PROVE  /\ x \in Refs
           /\ PooledAt(x) # {} /\ PooledAt(x)' = {}
           /\ \A s : s # x => (PooledAt(s)' # {} <=> PooledAt(s) # {})
<1>1. /\ Typed /\ pool \in Seq(Refs) /\ Len(pool) \in Nat /\ i \in 0 .. Len(pool) /\ i # 0
      /\ x \in Refs
  <2>1. Typed /\ pool \in Seq(Refs)
    BY DEF Inductive, Typed, TypeOK
  <2>2. Len(pool) \in Nat
    BY <2>1, LenProperties
  <2>3. pool[i] \in Refs
    BY <2>1, ElementOfSeq
  <2> QED
    BY <2>1, <2>2, <2>3
<1>2. Single(PooledAt(x))
  BY <1>1 DEF Inductive, SoleOwners, Sole, OneAmong
<1>3. PooledAt(x) # {} /\ PooledAt(x)' = {}
  BY <1>1, <1>2, PoolWithout
<1>4. ASSUME NEW s, s # x PROVE PooledAt(s)' # {} <=> PooledAt(s) # {}
  <2>1. PooledAt(s)' # {} => PooledAt(s) # {}
    BY <1>1, PoolWithout DEF Fewer
  <2>2. PooledAt(s) # {} => PooledAt(s)' # {}
    BY <1>1, <1>4, PoolOthers
  <2> QED
    BY <2>1, <2>2
<1> QED
  BY <1>1, <1>3, <1>4

(* The head leaves the release queue, and the others stay.                 *)
LEMMA QueueOthers ==
    ASSUME Typed, releasing # <<>>, releasing' = Tail(releasing), NEW s,
           s # Head(releasing), QueuedAt(s) # {}
    PROVE  QueuedAt(s)' # {}
<1> DEFINE n == Len(releasing)
<1>1. releasing \in Seq(Refs \cup Bitmaps) /\ n \in Nat \ {0} /\ DOMAIN releasing = 1 .. n
  BY LenProperties, EmptySeq DEF Typed, TypeOK
<1>2. /\ releasing' \in Seq(Refs \cup Bitmaps) /\ Len(releasing') = n - 1
      /\ \A i \in 1 .. n - 1 : releasing'[i] = releasing[i + 1]
  BY <1>1, HeadTailProperties
<1>3. DOMAIN releasing' = 1 .. n - 1
  BY <1>2, LenProperties
<1>4. PICK i \in 1 .. n : releasing[i] = s
  BY <1>1 DEF QueuedAt
<1>5. i # 1
  BY <1>1, <1>4
<1> HIDE DEF n
<1>6. i - 1 \in 1 .. n - 1 /\ (i - 1) + 1 = i
  BY <1>1, <1>5
<1>7. releasing'[i - 1] = s
  BY <1>2, <1>4, <1>6
<1> QED
  BY <1>3, <1>6, <1>7 DEF QueuedAt

-----------------------------------------------------------------------------
(* The counters *)

(* A set whose bitmaps have a height, and one bitmap less or more.         *)
LEMMA HeightsSum ==
    ASSUME TypeOK, NEW S \in SUBSET Refs, IsFiniteSet(S), NEW x \in Refs
    PROVE  /\ SumFunctionOnSet(height, S) \in Int /\ height[x] \in Int
           /\ IsFiniteSet(S \cup {x}) /\ IsFiniteSet(S \ {x})
           /\ x \notin S => SumFunctionOnSet(height, S \cup {x})
                              = SumFunctionOnSet(height, S) + height[x]
           /\ x \in S => SumFunctionOnSet(height, S \ {x})
                              = SumFunctionOnSet(height, S) - height[x]
<1>1. \A r \in Refs : height[r] \in Int /\ height[r] \in Nat
  BY DEF TypeOK
<1>2. \A r \in S : height[r] \in Int /\ height[r] \in Nat
  BY <1>1
<1>3. SumFunctionOnSet(height, S) \in Int
  <2>1. SumFunctionOnSet(height, S) \in Nat
    BY <1>2, SumOfNaturals
  <2> QED
    BY <2>1
<1>4. IsFiniteSet(S \cup {x}) /\ IsFiniteSet(S \ {x})
  BY FS_AddElement, FS_RemoveElement
<1>5. ASSUME x \notin S
      PROVE  SumFunctionOnSet(height, S \cup {x}) = SumFunctionOnSet(height, S) + height[x]
  BY <1>1, <1>2, <1>5, SumAdd
<1>6. ASSUME x \in S
      PROVE  SumFunctionOnSet(height, S \ {x}) = SumFunctionOnSet(height, S) - height[x]
  <2>1. /\ SumFunctionOnSet(height, S \ {x}) \in Int
        /\ SumFunctionOnSet(height, S) = height[x] + SumFunctionOnSet(height, S \ {x})
    BY <1>2, <1>6, SumRemove
  <2> QED
    BY <2>1, <1>1, <1>3
<1> QED
  BY <1>1, <1>3, <1>4, <1>5, <1>6

(* What is counted as pooled without one bitmap.                           *)
LEMMA OwedLess ==
    ASSUME NEW x, \A r \in Refs : r \in Owed' <=> r \in Owed /\ r # x
    PROVE  Owed' = Owed \ {x}
<1>1. Owed \subseteq Refs /\ Owed' \subseteq Refs
  BY DEF Owed
<1> QED
  BY <1>1

(* A bitmap that is recycled.                                              *)
LEMMA CountedRecycled ==
    ASSUME TypeOK, Counted, NEW x \in Owed, height' = height, used' = used,
           memoryUsed' = memoryUsed, memoryPooled' = memoryPooled - height[x],
           \A r \in Refs : r \in Owed' <=> r \in Owed /\ r # x
    PROVE  Counted'
<1>1. Owed' = Owed \ {x}
  BY OwedLess
<1>2. Owed \in SUBSET Refs /\ x \in Refs
  BY DEF Owed
<1>3. /\ IsFiniteSet(Owed \ {x})
      /\ SumFunctionOnSet(height, Owed \ {x}) = SumFunctionOnSet(height, Owed) - height[x]
  BY <1>2, HeightsSum DEF Counted
<1> HIDE DEF Owed
<1> QED
  BY <1>1, <1>3 DEF Counted

(* A pooled bitmap that is in use again.                                   *)
LEMMA CountedEntered ==
    ASSUME TypeOK, Counted, NEW x \in Owed, x \notin used, height' = height,
           used' = used \cup {x}, memoryUsed' = memoryUsed + height[x],
           memoryPooled' = memoryPooled - height[x],
           \A r \in Refs : r \in Owed' <=> r \in Owed /\ r # x
    PROVE  Counted'
<1>1. Owed' = Owed \ {x}
  BY OwedLess
<1>2. Owed \in SUBSET Refs /\ x \in Refs /\ used \in SUBSET Refs
  BY DEF Owed, TypeOK
<1>3. /\ IsFiniteSet(Owed \ {x})
      /\ SumFunctionOnSet(height, Owed \ {x}) = SumFunctionOnSet(height, Owed) - height[x]
  BY <1>2, HeightsSum DEF Counted
<1>4. /\ IsFiniteSet(used \cup {x})
      /\ SumFunctionOnSet(height, used \cup {x})
           = SumFunctionOnSet(height, used) + height[x]
  BY <1>2, HeightsSum DEF Counted
<1> HIDE DEF Owed
<1> QED
  BY <1>1, <1>3, <1>4 DEF Counted

(* A bitmap that is no longer in use.                                      *)
LEMMA CountedUnused ==
    ASSUME TypeOK, Counted, NEW x \in used, height' = height, used' = used \ {x},
           memoryUsed' = memoryUsed - height[x], memoryPooled' = memoryPooled,
           \A r \in Refs : r \in Owed' <=> r \in Owed
    PROVE  Counted'
<1>1. Owed' = Owed
  BY DEF Owed
<1>2. x \in Refs /\ used \in SUBSET Refs
  BY DEF TypeOK
<1>3. /\ IsFiniteSet(used \ {x})
      /\ SumFunctionOnSet(height, used \ {x}) = SumFunctionOnSet(height, used) - height[x]
  BY <1>2, HeightsSum DEF Counted
<1> HIDE DEF Owed
<1> QED
  BY <1>1, <1>3 DEF Counted

(* A bitmap that is pooled.                                                *)
LEMMA CountedPooled ==
    ASSUME TypeOK, Counted, NEW x \in Refs \ Owed, height' = height, used' = used,
           memoryUsed' = memoryUsed, memoryPooled' = memoryPooled + height[x],
           \A r \in Refs : r \in Owed' <=> r \in Owed \/ r = x
    PROVE  Counted'
<1>1. Owed \in SUBSET Refs /\ Owed' \in SUBSET Refs
  BY DEF Owed
<1> HIDE DEF Owed
<1>2. Owed' = Owed \cup {x}
  BY <1>1
<1>3. /\ IsFiniteSet(Owed \cup {x})
      /\ SumFunctionOnSet(height, Owed \cup {x})
           = SumFunctionOnSet(height, Owed) + height[x]
  BY <1>1, HeightsSum DEF Counted
<1> QED
  BY <1>2, <1>3 DEF Counted

(* A new bitmap: its height is not counted yet.                            *)
LEMMA CountedNew ==
    ASSUME TypeOK, Counted, NEW x \in Refs, x \notin Owed, x \notin used,
           NEW h \in Nat, height' = [height EXCEPT ![x] = h], used' = used \cup {x},
           memoryUsed' = memoryUsed + h, memoryPooled' = memoryPooled,
           \A r \in Refs : r \in Owed' <=> r \in Owed
    PROVE  Counted'
<1>1. Owed \in SUBSET Refs /\ Owed' \in SUBSET Refs /\ used \in SUBSET Refs
  BY DEF Owed, TypeOK
<1> HIDE DEF Owed
<1>2. Owed' = Owed
  BY <1>1
<1>3. \A r \in Refs : height[r] \in Int /\ height'[r] \in Int
                      /\ (r # x => height'[r] = height[r])
  BY DEF TypeOK
<1>4. height'[x] = h
  BY DEF TypeOK
<1>5. SumFunctionOnSet(height', Owed) = SumFunctionOnSet(height, Owed)
  <2>1. IsFiniteSet(Owed) /\ \A r \in Owed : height'[r] \in Int /\ height'[r] = height[r]
    BY <1>1, <1>3 DEF Counted
  <2> QED
    BY <2>1, SumSame
<1>6. SumFunctionOnSet(height', used) = SumFunctionOnSet(height, used)
  <2>1. IsFiniteSet(used) /\ \A r \in used : height'[r] \in Int /\ height'[r] = height[r]
    BY <1>1, <1>3 DEF Counted
  <2> QED
    BY <2>1, SumSame
<1>7. IsFiniteSet(used \cup {x})
  BY FS_AddElement DEF Counted
<1>8. SumFunctionOnSet(height', used \cup {x}) = SumFunctionOnSet(height', used) + height'[x]
  <2>1. IsFiniteSet(used) /\ \A r \in used : height'[r] \in Int
    BY <1>1, <1>3 DEF Counted
  <2>2. height'[x] \in Int
    BY <1>3
  <2> QED
    BY <2>1, <2>2, SumAdd
<1> QED
  BY <1>2, <1>4, <1>5, <1>6, <1>7, <1>8 DEF Counted

-----------------------------------------------------------------------------
(* What leaves the pool *)

(* Whether r is used is as before, and whether it has its pixels.          *)
LEMMA UsedKeeps ==
    ASSUME CallerInv, UNCHANGED <<used, held, tile, releasing>>, NEW t \in Threads, Steps(t),
           \A r \in Refs : Claims(t, r) => Claims(t, r)',
           \A r \in used : live'[r] = live[r]
    PROVE  \A r \in used' : Owned(r)' /\ live'[r]
<1>1. used \subseteq Refs
  BY DEF CallerInv, Inductive, Typed, TypeOK
<1>2. ASSUME NEW r \in used' PROVE Owned(r)' /\ live'[r]
  <2>1. r \in used /\ r \in Refs
    BY <1>1, <1>2
  <2>2. Owned(r) /\ live[r] /\ live'[r] = live[r] /\ (Claims(t, r) => Claims(t, r)')
    BY <2>1 DEF CallerInv, UsedOwned, UsedIsLive
  <2>3. Owned(r)'
    BY <2>2, OwnedSame
  <2> QED
    BY <2>2, <2>3
<1> QED
  BY <1>2

(* The entry that getBitmap took out of the pool is still counted as       *)
(* pooled.                                                                 *)
LEMMA TakeCalls ==
    ASSUME OneCaller, CallerInv, Inductive', NEW t \in Threads, Take(t)
    PROVE  CallerInv'
<1>1. Steps(t) /\ Typed /\ HandOK(t) /\ pc[t] = "take"
  BY ManagerSteps DEF Manager, CallerInv, Inductive, Hands, Take
<1>2. PICK i \in 1 .. Len(pool) : i = at[t]
  BY <1>1, Stage DEF HandOK
<1>3. /\ UNCHANGED <<used, live, height, memory, held, tile, releasing, got, filling>>
      /\ pc'[t] = "enter" /\ Without(i)
  BY <1>1, <1>2 DEF Take, Goto, Typed, TypeOK, refVars, owners, getLocals
<1>4. PICK x \in Refs : x = got[t]
  BY <1>1, Stage
<1>5. x = pool[i] /\ live[x]
  BY <1>1, <1>2, <1>4 DEF HandOK
<1>6. /\ PooledAt(x) # {} /\ PooledAt(x)' = {}
      /\ \A s : s # x => (PooledAt(s)' # {} <=> PooledAt(s) # {})
  BY <1>3, <1>5, PoolLeaves DEF CallerInv
<1>7. HandOK(t)'
  BY <1>1, <1>3, <1>4, <1>5 DEF HandOK
<1>8. \A r \in used' : Owned(r)' /\ live'[r]
  <2>1. \A r \in Refs : ~Claims(t, r)
    BY <1>1 DEF Claims
  <2> QED
    BY <1>1, <1>3, <2>1, UsedKeeps
<1>9. ASSUME NEW r \in Refs PROVE r \in Owed' <=> r \in Owed
  <2>1. ~Owes(t, r) /\ (Owes(t, r)' <=> r = x)
    BY <1>1, <1>3, <1>4 DEF Owes
  <2> QED
    BY <1>1, <1>6, <2>1, OwedMeans
<1>10. Counted'
  BY <1>3, <1>9, CountedSame DEF CallerInv
<1> QED
  BY <1>1, <1>7, <1>8, <1>10, CallerKeeps

(* The entry that shrinkPool polled is still counted as pooled.            *)
LEMMA PollPoolCalls ==
    ASSUME OneCaller, CallerInv, Inductive', NEW t \in Threads, PollPool(t)
    PROVE  CallerInv'
<1>1. /\ Steps(t) /\ Typed /\ HandOK(t) /\ pc[t] = "shrink"
      /\ pool \in Seq(Refs) /\ pool # <<>>
  BY ManagerSteps DEF Manager, CallerInv, Inductive, Hands, PollPool, Shrinking, Typed, TypeOK
<1>2. PICK i \in 1 .. Len(pool) : i = 1
  BY <1>1, LenProperties, EmptySeq
<1>3. PICK x \in Refs : x = Head(pool)
  BY <1>1, HeadTailProperties
<1>4. x = pool[i]
  BY <1>1, <1>2, <1>3, HeadTailProperties
<1>5. /\ UNCHANGED <<used, live, height, memory, held, tile, releasing, got, filling>>
      /\ pc'[t] = "recycle" /\ Without(i) /\ ref'[t] = x
  BY <1>1, <1>2, <1>3 DEF PollPool, Goto, Typed, TypeOK, refVars, owners, getLocals
<1>6. /\ PooledAt(x) # {} /\ PooledAt(x)' = {}
      /\ \A s : s # x => (PooledAt(s)' # {} <=> PooledAt(s) # {})
  BY <1>4, <1>5, PoolLeaves DEF CallerInv
<1>7. HandOK(t)'
  <2>1. x \notin used
    BY <1>6, PooledIsUnused
  <2>2. PooledAt(ref[t])' = {}
    BY <1>5, <1>6 DEF PooledAt
  <2> QED
    BY <1>1, <1>5, <2>1, <2>2 DEF HandOK
<1>8. \A r \in used' : Owned(r)' /\ live'[r]
  <2>1. \A r \in Refs : Claims(t, r) => Claims(t, r)'
    BY <1>1, <1>5 DEF Claims
  <2> QED
    BY <1>1, <1>5, <2>1, UsedKeeps
<1>9. ASSUME NEW r \in Refs PROVE r \in Owed' <=> r \in Owed
  <2>1. ~Owes(t, r) /\ (Owes(t, r)' <=> r = x)
    BY <1>1, <1>5 DEF Owes
  <2> QED
    BY <1>1, <1>6, <2>1, OwedMeans
<1>10. Counted'
  BY <1>5, <1>9, CountedSame DEF CallerInv
<1> QED
  BY <1>1, <1>7, <1>8, <1>10, CallerKeeps

(* removeOldRefs recycles an old entry and takes its height off the        *)
(* memory pooled.                                                          *)
LEMMA RecycleOldCalls ==
    ASSUME OneCaller, CallerInv, Inductive', NEW t \in Threads, RecycleOld(t)
    PROVE  CallerInv'
<1>1. Steps(t) /\ Typed /\ TypeOK /\ HandOK(t) /\ pc[t] = "recycleOld"
  BY ManagerSteps DEF Manager, CallerInv, Inductive, Hands, RecycleOld, Typed
<1>2. PICK i \in 1 .. Len(pool) : i = at[t]
  BY <1>1, Stage DEF HandOK
<1>3. PICK x \in Refs : x = ref[t]
  BY <1>1, Stage
<1>4. x = pool[i]
  BY <1>1, <1>2, <1>3 DEF HandOK
<1>5. /\ UNCHANGED <<used, height, memoryUsed, held, tile, releasing, got, filling>>
      /\ pc'[t] = "removeOld" /\ Without(i) /\ live' = [live EXCEPT ![x] = FALSE]
      /\ memoryPooled' = memoryPooled - height[x]
  BY <1>1, <1>2, <1>3 DEF RecycleOld, Recycle, Goto, TypeOK, owners, getLocals
<1>6. /\ PooledAt(x) # {} /\ PooledAt(x)' = {}
      /\ \A s : s # x => (PooledAt(s)' # {} <=> PooledAt(s) # {})
  BY <1>4, <1>5, PoolLeaves DEF CallerInv
<1>7. HandOK(t)'
  BY <1>5, PlainHand
<1>8. \A r \in used' : Owned(r)' /\ live'[r]
  <2>1. \A r \in Refs : ~Claims(t, r)
    BY <1>1 DEF Claims
  <2>2. x \notin used
    BY <1>6, PooledIsUnused
  <2>3. \A r \in used : live'[r] = live[r]
    BY <1>1, <1>5, <2>2 DEF TypeOK
  <2> QED
    BY <1>1, <1>5, <2>1, <2>3, UsedKeeps
<1>9. ASSUME NEW r \in Refs PROVE r \in Owed <=> PooledAt(r) # {}
  BY <1>1, OwedMeans DEF Owes
<1>10. ASSUME NEW r \in Refs PROVE r \in Owed' <=> r \in Owed /\ r # x
  <2>1. ~Owes(t, r)'
    BY <1>5 DEF Owes
  <2> QED
    BY <1>1, <1>6, <1>9, <2>1, OwedMeans
<1>11. Counted'
  <2>1. x \in Owed
    BY <1>6, <1>9
  <2> QED
    BY <1>1, <1>5, <1>10, <2>1, CountedRecycled DEF CallerInv
<1> QED
  BY <1>1, <1>7, <1>8, <1>11, CallerKeeps

(* A polled entry is recycled and its height taken off the memory pooled:  *)
(* it was counted once.                                                    *)
LEMMA RecyclePolledCalls ==
    ASSUME OneCaller, CallerInv, Inductive', NEW t \in Threads, RecyclePolled(t)
    PROVE  CallerInv'
<1>1. Steps(t) /\ Typed /\ TypeOK /\ HandOK(t) /\ pc[t] = "recycle"
  BY ManagerSteps DEF Manager, CallerInv, Inductive, Hands, RecyclePolled, Typed
<1>2. PICK x \in Refs : x = ref[t]
  BY <1>1, Stage
<1>3. x \notin used /\ PooledAt(x) = {}
  BY <1>1, <1>2 DEF HandOK, PooledAt
<1>4. /\ UNCHANGED <<used, height, memoryUsed, held, tile, releasing, pool, got, filling>>
      /\ pc'[t] = "shrink" /\ live' = [live EXCEPT ![x] = FALSE]
      /\ memoryPooled' = memoryPooled - height[x] /\ ref'[t] = NoRef
  BY <1>1, <1>2 DEF RecyclePolled, Recycle, Goto, TypeOK, owners, getLocals
<1>5. HandOK(t)'
  BY <1>4, PlainHand
<1>6. \A r \in used' : Owned(r)' /\ live'[r]
  <2>1. \A r \in Refs : Claims(t, r) => Claims(t, r)'
    BY <1>1, <1>4 DEF Claims
  <2>2. \A r \in used : live'[r] = live[r]
    BY <1>1, <1>3, <1>4 DEF TypeOK
  <2> QED
    BY <1>1, <1>4, <2>1, <2>2, UsedKeeps
<1>7. ASSUME NEW r \in Refs
      PROVE  /\ r \in Owed <=> PooledAt(r) # {} \/ r = x
             /\ r \in Owed' <=> PooledAt(r) # {}
  <2>1. PooledAt(r)' = PooledAt(r)
    BY <1>4 DEF PooledAt
  <2>2. ~Owes(t, r)' /\ (Owes(t, r) <=> r = x)
    BY <1>1, <1>2, <1>4 DEF Owes
  <2> QED
    BY <1>1, <2>1, <2>2, OwedMeans
<1>8. \A r \in Refs : r \in Owed' <=> r \in Owed /\ r # x
  BY <1>3, <1>7
<1>9. Counted'
  <2>1. x \in Owed
    BY <1>7
  <2> QED
    BY <1>1, <1>4, <1>8, <2>1, CountedRecycled DEF CallerInv
<1> QED
  BY <1>1, <1>5, <1>6, <1>9, CallerKeeps

-----------------------------------------------------------------------------
(* What getBitmap and addBitmap hand out *)

(* The client has the bitmap then: its pixels are there, so nothing throws. *)
LEMMA ReturnOwned ==
    ASSUME CallerInv, NEW t \in Threads, Steps(t), NEW x \in Refs, got[t] = x, live[x],
           Return(t, x), releasing' = releasing, pc[t] \in {"enter", "shrink"}
    PROVE  /\ HandOK(t)' /\ pc'[t] = "idle"
           /\ Owned(x)' /\ \A r \in Refs : Owned(r) => Owned(r)'
<1>1. Typed
  BY DEF CallerInv, Inductive
<1>2. pc'[t] = "idle" /\ filling'[t] = NoBitmaps
  BY <1>1 DEF Return, Goto, Typed, TypeOK
<1>3. HandOK(t)'
  BY <1>2 DEF HandOK
<1>4. filling[t] # NoBitmaps => filling[t] \in Bitmaps /\ tile[filling[t]] = NoRef
  BY <1>1, Stage DEF CallerInv, Hands, HandOK
<1>5. Keep(t, x)
  BY DEF Return, Lost
<1>6. \A r : QueuedAt(r)' = QueuedAt(r)
  BY DEF QueuedAt
<1>7. \A r : r # x => ~Claims(t, r)
  BY DEF Claims
<1>8. ASSUME NEW r, NEW u \in Threads \ {t}, Claims(u, r) PROVE Claims(u, r)'
  BY <1>8 DEF Claims, Steps
<1>9. (HeldBy(x)' # {} \/ TilesOf(x)' # {})
      /\ \A r : HeldBy(r) \subseteq HeldBy(r)'
                /\ (r \in Refs => TilesOf(r) \subseteq TilesOf(r)')
  <2>1. CASE filling[t] = NoBitmaps
    <3>1. tile' = tile /\ held' = [held EXCEPT ![t] = @ \cup {x}]
      BY <1>5, <2>1 DEF Keep
    <3>2. t \in HeldBy(x)'
      BY <1>1, <3>1 DEF HeldBy, Typed, TypeOK
    <3>3. \A r : HeldBy(r) \subseteq HeldBy(r)' /\ TilesOf(r)' = TilesOf(r)
      BY <1>1, <3>1 DEF HeldBy, TilesOf, Typed, TypeOK
    <3> QED
      BY <3>2, <3>3
  <2>2. CASE filling[t] # NoBitmaps
    <3>1. PICK b \in Bitmaps : b = filling[t] /\ tile[b] = NoRef
      BY <1>4, <2>2
    <3>2. held' = held /\ tile' = [tile EXCEPT ![b] = x]
      BY <1>5, <2>2, <3>1 DEF Keep
    <3>3. b \in TilesOf(x)'
      BY <1>1, <3>2 DEF TilesOf, Typed, TypeOK
    <3>4. \A r : HeldBy(r)' = HeldBy(r)
      BY <3>2 DEF HeldBy
    <3>5. \A r \in Refs : TilesOf(r) \subseteq TilesOf(r)'
      BY <1>1, <3>1, <3>2, CallersAssumption DEF TilesOf, Typed, TypeOK
    <3> QED
      BY <3>3, <3>4, <3>5
  <2> QED
    BY <2>1, <2>2
<1>10. Owned(x)'
  BY <1>9 DEF Owned
<1>11. ASSUME NEW r \in Refs, Owned(r) PROVE Owned(r)'
  BY <1>6, <1>7, <1>8, <1>9, <1>10, <1>11 DEF Owned
<1> QED
  BY <1>2, <1>3, <1>10, <1>11

(* The height of the entry moves from the memory pooled to the memory in   *)
(* use, and the caller gets a bitmap with its pixels.                      *)
LEMMA EnterCalls ==
    ASSUME OneCaller, CallerInv, Inductive', NEW t \in Threads, Enter(t)
    PROVE  CallerInv'
<1>1. /\ Steps(t) /\ Typed /\ TypeOK /\ HandOK(t) /\ pc[t] = "enter"
      /\ t \in Callers /\ used \subseteq Refs
  BY ManagerSteps DEF Manager, CallerInv, Inductive, Hands, Enter, Typed, TypeOK, Steps
<1>2. PICK x \in Refs : x = got[t]
  BY <1>1, Stage
<1>3. live[x] /\ Carries(t, x) /\ ~Claims(t, x)
  BY <1>1, <1>2 DEF HandOK, Carries, Claims
<1>4. x \notin used /\ PooledAt(x) = {}
  BY <1>1, <1>3, CarriedIsUnused
<1>5. /\ UNCHANGED <<height, live, pool, releasing, ref, at>>
      /\ used' = used \cup {x} /\ Return(t, x)
      /\ memoryPooled' = memoryPooled - height[x]
      /\ memoryUsed' = memoryUsed + height[x]
  BY <1>2 DEF Enter, PutInUse
<1>6. /\ HandOK(t)' /\ pc'[t] = "idle"
      /\ Owned(x)' /\ \A r \in Refs : Owned(r) => Owned(r)'
  BY <1>1, <1>2, <1>3, <1>5, ReturnOwned
<1>7. ASSUME NEW r \in used' PROVE Owned(r)' /\ live'[r]
  <2>1. CASE r = x
    BY <1>3, <1>5, <1>6, <2>1
  <2>2. CASE r # x
    <3>1. r \in used /\ r \in Refs
      BY <1>1, <1>5, <2>2
    <3>2. Owned(r) /\ live[r]
      BY <3>1 DEF CallerInv, UsedOwned, UsedIsLive
    <3> QED
      BY <1>5, <1>6, <3>1, <3>2
  <2> QED
    BY <2>1, <2>2
<1>8. ASSUME NEW r \in Refs
      PROVE  /\ r \in Owed <=> PooledAt(r) # {} \/ r = x
             /\ r \in Owed' <=> PooledAt(r) # {}
  <2>1. PooledAt(r)' = PooledAt(r)
    BY <1>5 DEF PooledAt
  <2>2. ~Owes(t, r)' /\ (Owes(t, r) <=> r = x)
    BY <1>1, <1>2, <1>6 DEF Owes
  <2> QED
    BY <1>1, <2>1, <2>2, OwedMeans
<1>9. \A r \in Refs : r \in Owed' <=> r \in Owed /\ r # x
  BY <1>4, <1>8
<1>10. Counted'
  <2>1. x \in Owed
    BY <1>8
  <2> QED
    BY <1>1, <1>4, <1>5, <1>9, <2>1, CountedEntered DEF CallerInv
<1> QED
  BY <1>1, <1>6, <1>7, <1>10, CallerKeeps

(* The new bitmap goes to the caller of getBitmap: it stays owned.         *)
LEMMA ShrunkCalls ==
    ASSUME OneCaller, CallerInv, Inductive', NEW t \in Threads, Shrunk(t)
    PROVE  CallerInv'
<1>1. /\ Steps(t) /\ Typed /\ pc[t] = "shrink" /\ used \subseteq Refs
      /\ UNCHANGED <<refVars, poolVars, ref, at>>
  BY ManagerSteps DEF Manager, CallerInv, Inductive, Shrunk, Typed, TypeOK
<1>2. UNCHANGED <<height, live, used, pool, releasing, memory>>
  BY <1>1 DEF refVars, poolVars
<1>3. CASE call[t] = "getBitmap" /\ Return(t, got[t])
  <2>1. PICK x \in Refs : x = got[t]
    BY <1>1, <1>3, Stage DEF Getting
  <2>2. t \in Claimers(x)
    BY <1>1, <2>1 DEF Claimers
  <2>3. live[x]
    BY <2>2 DEF CallerInv, Inductive, UsedCovers, UsedIsLive
  <2>4. Return(t, x)
    BY <1>3, <2>1
  <2>5. /\ HandOK(t)' /\ pc'[t] = "idle"
        /\ \A r \in Refs : Owned(r) => Owned(r)'
    BY <1>1, <1>2, <2>1, <2>3, <2>4, ReturnOwned
  <2>6. ASSUME NEW r \in used' PROVE Owned(r)' /\ live'[r]
    <3>1. r \in used /\ r \in Refs
      BY <1>1, <1>2, <2>6
    <3>2. Owned(r) /\ live[r]
      BY <3>1 DEF CallerInv, UsedOwned, UsedIsLive
    <3> QED
      BY <1>2, <2>5, <3>1, <3>2
  <2>7. ASSUME NEW r \in Refs PROVE r \in Owed' <=> r \in Owed
    <3>1. PooledAt(r)' = PooledAt(r)
      BY <1>2 DEF PooledAt
    <3>2. ~Owes(t, r)' /\ ~Owes(t, r)
      BY <1>1, <2>5 DEF Owes
    <3> QED
      BY <1>1, <3>1, <3>2, OwedMeans
  <2>8. Counted'
    BY <1>2, <2>7, CountedSame DEF CallerInv
  <2> QED
    BY <1>1, <2>5, <2>6, <2>8, CallerKeeps
<1>4. CASE call[t] # "getBitmap"
  <2>1. got[t] \notin Refs
    BY <1>1, <1>4, Stage DEF Getting
  <2>2. /\ pc'[t] \in {"shrink", "idle"} /\ got' = got
        /\ UNCHANGED <<held, tile, filling>>
    BY <1>1, <1>4 DEF Shrunk, Goto, Typed, TypeOK, owners, getLocals
  <2>3. HandOK(t)'
    BY <2>2, PlainHand
  <2>4. \A r \in Refs : ~Claims(t, r) /\ ~Owes(t, r) /\ ~Owes(t, r)'
    BY <1>1, <2>1, <2>2 DEF Claims, Owes
  <2> QED
    BY <1>1, <1>2, <2>2, <2>3, <2>4, StayKeeps
<1> QED
  BY <1>3, <1>4 DEF Shrunk

(* A new bitmap is in use, and the thread that made it has it.             *)
LEMMA NewCalls ==
    ASSUME OneCaller, CallerInv, Inductive', NEW t \in Threads, Steps(t), HandOK(t)',
           NEW x \in Fresh, NEW h \in Nat, height' = [height EXCEPT ![x] = h],
           live' = [live EXCEPT ![x] = TRUE], used' = used \cup {x},
           memoryUsed' = memoryUsed + h, UNCHANGED <<memoryPooled, pool>>,
           Owned(x)', \A r \in Refs : Owned(r) => Owned(r)',
           \A r \in Refs : ~Owes(t, r) /\ ~Owes(t, r)'
    PROVE  CallerInv'
<1>1. TypeOK /\ used \subseteq Refs
  BY DEF CallerInv, Inductive, Typed, TypeOK
<1>2. x \in Refs /\ Nowhere(x) /\ x \notin used
  BY FreshIsNowhere DEF CallerInv
<1>3. ASSUME NEW r \in used' PROVE Owned(r)' /\ live'[r]
  <2>1. CASE r = x
    BY <1>1, <1>2, <2>1 DEF TypeOK
  <2>2. CASE r # x
    <3>1. r \in used /\ r \in Refs
      BY <1>1, <2>2
    <3>2. Owned(r) /\ live[r]
      BY <3>1 DEF CallerInv, UsedOwned, UsedIsLive
    <3>3. live'[r] = live[r]
      BY <1>1, <2>2, <3>1 DEF TypeOK
    <3> QED
      BY <3>1, <3>2, <3>3
  <2> QED
    BY <2>1, <2>2
<1>4. ASSUME NEW r \in Refs
      PROVE  (r \in Owed <=> PooledAt(r) # {}) /\ (r \in Owed' <=> PooledAt(r) # {})
  <2>1. PooledAt(r)' = PooledAt(r)
    BY DEF PooledAt
  <2> QED
    BY <2>1, OwedMeans
<1>5. x \notin Owed
  BY <1>2, <1>4 DEF Nowhere
<1>6. Counted'
  BY <1>1, <1>2, <1>4, <1>5, CountedNew DEF CallerInv
<1> QED
  BY <1>3, <1>6, CallerKeeps

(* getBitmap makes a bitmap, which is in use, has its pixels and adds its  *)
(* height.                                                                 *)
LEMMA CreateCalls ==
    ASSUME OneCaller, CallerInv, Inductive', NEW t \in Threads, Create(t)
    PROVE  CallerInv'
<1>1. Steps(t) /\ Typed /\ pc[t] = "look" /\ asked[t] \in Nat
  BY ManagerSteps DEF Manager, CallerInv, Inductive, Create, Typed, TypeOK
<1>2. PICK x \in Fresh :
          /\ height' = [height EXCEPT ![x] = asked[t]]
          /\ live' = [live EXCEPT ![x] = TRUE]
          /\ PutInUse(x)
          /\ got' = [got EXCEPT ![t] = x]
  BY DEF Create
<1>3. /\ memoryUsed' = memoryUsed + asked[t] /\ used' = used \cup {x}
      /\ UNCHANGED <<memoryPooled, pool, held, tile, releasing, ref, filling>>
      /\ pc'[t] = "shrink" /\ got'[t] = x
  BY <1>1, <1>2 DEF Create, PutInUse, Goto, Typed, TypeOK, owners
<1>4. HandOK(t)'
  BY <1>3, PlainHand
<1>5. Owned(x)'
  <2>1. Claims(t, x)'
    BY <1>3 DEF Claims
  <2> QED
    BY <2>1 DEF Owned
<1>6. ASSUME NEW r \in Refs, Owned(r) PROVE Owned(r)'
  <2>1. ~Claims(t, r)
    BY <1>1 DEF Claims
  <2> QED
    BY <1>1, <1>3, <1>6, <2>1, OwnedSame
<1>7. \A r \in Refs : ~Owes(t, r) /\ ~Owes(t, r)'
  BY <1>1, <1>3 DEF Owes
<1> QED
  BY <1>1, <1>2, <1>3, <1>4, <1>5, <1>6, <1>7, NewCalls

(* A thumbnail's bitmap is in use, has its pixels and adds its height.     *)
LEMMA AddBitmapCalls ==
    ASSUME OneCaller, CallerInv, Inductive', NEW t \in Threads, NEW h \in Heights,
           AddBitmap(t, h)
    PROVE  CallerInv'
<1>1. Typed /\ pc[t] = "idle" /\ h \in Nat /\ t \in Callers
  BY SizesAssumption DEF CallerInv, Inductive, AddBitmap, Callers
<1>2. PICK x \in Fresh :
          /\ height' = [height EXCEPT ![x] = h]
          /\ live' = [live EXCEPT ![x] = TRUE]
          /\ PutInUse(x)
          /\ held' = [held EXCEPT ![t] = @ \cup {x}]
  BY DEF AddBitmap
<1>3. /\ memoryUsed' = memoryUsed + h /\ used' = used \cup {x}
      /\ UNCHANGED <<memoryPooled, pool, tile, releasing, pc, ref, got, filling>>
  BY <1>2 DEF AddBitmap, PutInUse, locals, getLocals
<1>4. Steps(t)
  BY <1>1, <1>3 DEF Steps
<1>5. HandOK(t)'
  BY <1>1, <1>3, PlainHand
<1>6. \A r : HeldBy(r) \subseteq HeldBy(r)' /\ TilesOf(r)' = TilesOf(r)
             /\ QueuedAt(r)' = QueuedAt(r)
  BY <1>1, <1>2, <1>3 DEF HeldBy, TilesOf, QueuedAt, Typed, TypeOK
<1>7. Owned(x)'
  <2>1. t \in HeldBy(x)'
    BY <1>1, <1>2 DEF HeldBy, Typed, TypeOK
  <2> QED
    BY <2>1 DEF Owned
<1>8. ASSUME NEW r \in Refs, Owned(r) PROVE Owned(r)'
  <2>1. \A u \in Threads : Claims(u, r)' <=> Claims(u, r)
    BY <1>3 DEF Claims
  <2> QED
    BY <1>6, <1>8, <2>1 DEF Owned
<1>9. \A r \in Refs : ~Owes(t, r) /\ ~Owes(t, r)'
  BY <1>1, <1>3 DEF Owes
<1> QED
  BY <1>1, <1>2, <1>3, <1>4, <1>5, <1>7, <1>8, <1>9, NewCalls

-----------------------------------------------------------------------------
(* What the release queue gives back *)

(* A step in which bitmaps change hands and nothing is counted.            *)
LEMMA HandsChange ==
    ASSUME OneCaller, CallerInv, Inductive', NEW t \in Threads, Steps(t), HandOK(t)',
           UNCHANGED <<used, live, height, memory, pool>>,
           \A r \in Refs : Owned(r) => Owned(r)',
           \A r \in Refs : ~Owes(t, r) /\ ~Owes(t, r)'
    PROVE  CallerInv'
<1>1. used \subseteq Refs
  BY DEF CallerInv, Inductive, Typed, TypeOK
<1>2. ASSUME NEW r \in used' PROVE Owned(r)' /\ live'[r]
  <2>1. r \in used /\ r \in Refs
    BY <1>1, <1>2
  <2>2. Owned(r) /\ live[r]
    BY <2>1 DEF CallerInv, UsedOwned, UsedIsLive
  <2> QED
    BY <2>1, <2>2
<1>3. ASSUME NEW r \in Refs PROVE r \in Owed' <=> r \in Owed
  <2>1. PooledAt(r)' = PooledAt(r)
    BY DEF PooledAt
  <2> QED
    BY <2>1, OwedMeans
<1>4. Counted'
  BY <1>3, CountedSame DEF CallerInv
<1> QED
  BY <1>2, <1>4, CallerKeeps

(* The entry polled from the release queue is claimed by the call: it      *)
(* stays owned.                                                            *)
LEMMA PollRefCalls ==
    ASSUME OneCaller, CallerInv, Inductive', NEW t \in Threads, PollRef(t)
    PROVE  CallerInv'
<1>1. Steps(t) /\ Typed /\ pc[t] = "drain"
  BY ManagerSteps DEF Manager, CallerInv, Inductive, PollRef
<1>2. PICK x \in Refs : x = Head(releasing)
  BY DEF PollRef
<1>3. /\ UNCHANGED <<used, live, height, memory, pool, held, tile, got, filling>>
      /\ releasing # <<>> /\ releasing' = Tail(releasing)
      /\ pc'[t] = "unuse" /\ ref'[t] = x
  BY <1>1, <1>2 DEF PollRef, Goto, Typed, TypeOK, refVars, owners, getLocals
<1>4. HandOK(t)'
  BY <1>3, PlainHand
<1>5. ASSUME NEW r \in Refs, Owned(r) PROVE Owned(r)'
  <2>1. CASE r = x
    <3>1. Claims(t, r)'
      BY <1>3, <2>1 DEF Claims
    <3> QED
      BY <3>1 DEF Owned
  <2>2. CASE r # x
    <3>1. HeldBy(r)' = HeldBy(r) /\ TilesOf(r)' = TilesOf(r)
      BY <1>3 DEF HeldBy, TilesOf
    <3>2. QueuedAt(r) # {} => QueuedAt(r)' # {}
      BY <1>1, <1>2, <1>3, <2>2, QueueOthers
    <3>3. ~Claims(t, r)
      BY <1>1 DEF Claims
    <3>4. \A u \in Threads \ {t} : Claims(u, r) => Claims(u, r)'
      BY <1>1 DEF Claims, Steps
    <3> QED
      BY <1>5, <3>1, <3>2, <3>3, <3>4 DEF Owned
  <2> QED
    BY <2>1, <2>2
<1>6. \A r \in Refs : ~Owes(t, r) /\ ~Owes(t, r)'
  BY <1>1, <1>3 DEF Owes
<1> QED
  BY <1>1, <1>3, <1>4, <1>5, <1>6, HandsChange

(* The tile of the polled Bitmaps is claimed by the call: it stays owned.  *)
LEMMA PollBitmapsCalls ==
    ASSUME OneCaller, CallerInv, Inductive', NEW t \in Threads, PollBitmaps(t)
    PROVE  CallerInv'
<1>1. Steps(t) /\ Typed /\ pc[t] = "drain"
  BY ManagerSteps DEF Manager, CallerInv, Inductive, PollBitmaps
<1>2. PICK b \in Bitmaps : b = Head(releasing)
  BY DEF PollBitmaps
<1>3. /\ UNCHANGED <<used, live, height, memory, pool, held, got, filling>>
      /\ releasing # <<>> /\ releasing' = Tail(releasing) /\ tile' = Emptied(b)
      /\ pc'[t] = (IF tile[b] = NoRef THEN "drain" ELSE "unuse") /\ ref'[t] = tile[b]
  BY <1>1, <1>2 DEF PollBitmaps, Goto, Typed, TypeOK, refVars, getLocals
<1>4. \A c \in Bitmaps : tile'[c] = IF c = b THEN NoRef ELSE tile[c]
  BY <1>1, <1>3 DEF Emptied, Typed, TypeOK
<1>5. HandOK(t)'
  BY <1>3, <1>4, PlainHand
<1>6. ASSUME NEW r \in Refs, Owned(r) PROVE Owned(r)'
  <2>1. CASE r = tile[b]
    <3>1. Claims(t, r)'
      BY <1>3, <2>1, CallersAssumption DEF Claims
    <3> QED
      BY <3>1 DEF Owned
  <2>2. CASE r # tile[b]
    <3>1. HeldBy(r)' = HeldBy(r) /\ TilesOf(r)' = TilesOf(r)
      BY <1>3, <1>4, <2>2, CallersAssumption DEF HeldBy, TilesOf
    <3>2. r # Head(releasing)
      BY <1>2, CallersAssumption
    <3>3. QueuedAt(r) # {} => QueuedAt(r)' # {}
      BY <1>1, <1>3, <3>2, QueueOthers
    <3>4. ~Claims(t, r)
      BY <1>1 DEF Claims
    <3>5. \A u \in Threads \ {t} : Claims(u, r) => Claims(u, r)'
      BY <1>1 DEF Claims, Steps
    <3> QED
      BY <1>6, <3>1, <3>3, <3>4, <3>5 DEF Owned
  <2> QED
    BY <2>1, <2>2
<1>7. \A r \in Refs : ~Owes(t, r) /\ ~Owes(t, r)'
  BY <1>1, <1>3 DEF Owes
<1> QED
  BY <1>1, <1>3, <1>5, <1>6, <1>7, HandsChange

(* The height of the released entry leaves the memory in use.              *)
LEMMA UnuseCalls ==
    ASSUME OneCaller, CallerInv, Inductive', NEW t \in Threads, Unuse(t)
    PROVE  CallerInv'
<1>1. /\ Steps(t) /\ Typed /\ TypeOK /\ pc[t] = "unuse" /\ used \subseteq Refs
  BY ManagerSteps DEF Manager, CallerInv, Inductive, Unuse, Typed, TypeOK
<1>2. PICK x \in Refs : x = ref[t]
  BY <1>1, Stage
<1>3. x \in used
  <2>1. t \in Claimers(x)
    BY <1>1, <1>2 DEF Claimers
  <2> QED
    BY <2>1 DEF CallerInv, Inductive, UsedCovers
<1>4. /\ UNCHANGED <<live, height, pool, held, tile, releasing, ref, got, filling>>
      /\ used' = used \ {x} /\ pc'[t] = "pool"
      /\ memoryUsed' = memoryUsed - height[x] /\ memoryPooled' = memoryPooled
  BY <1>1, <1>2, <1>3 DEF Unuse, Goto, TypeOK, refVars, owners, locals, getLocals
<1>5. HandOK(t)'
  BY <1>4, PlainHand
<1>6. ASSUME NEW r \in used' PROVE Owned(r)' /\ live'[r]
  <2>1. r \in used /\ r \in Refs /\ r # x
    BY <1>1, <1>4, <1>6
  <2>2. Owned(r) /\ live[r]
    BY <2>1 DEF CallerInv, UsedOwned, UsedIsLive
  <2>3. ~Claims(t, r)
    BY <1>1, <1>2, <2>1 DEF Claims
  <2> QED
    BY <1>1, <1>4, <2>1, <2>2, <2>3, OwnedSame
<1>7. ASSUME NEW r \in Refs PROVE r \in Owed' <=> r \in Owed
  <2>1. PooledAt(r)' = PooledAt(r)
    BY <1>4 DEF PooledAt
  <2>2. ~Owes(t, r) /\ ~Owes(t, r)'
    BY <1>1, <1>4 DEF Owes
  <2> QED
    BY <1>1, <2>1, <2>2, OwedMeans
<1>8. Counted'
  BY <1>1, <1>3, <1>4, <1>7, CountedUnused DEF CallerInv
<1> QED
  BY <1>1, <1>5, <1>6, <1>8, CallerKeeps

(* The height of the released entry is added to the memory pooled.         *)
LEMMA AddToPoolCalls ==
    ASSUME OneCaller, CallerInv, Inductive', NEW t \in Threads, AddToPool(t)
    PROVE  CallerInv'
<1>1. Steps(t) /\ Typed /\ TypeOK /\ pc[t] = "pool" /\ t \in Callers
  BY ManagerSteps DEF Manager, CallerInv, Inductive, AddToPool, Typed, Steps
<1>2. PICK x \in Refs : x = ref[t]
  BY <1>1, Stage
<1>3. Carries(t, x) /\ \A r : ~Claims(t, r)
  BY <1>1, <1>2 DEF Carries, Claims
<1>4. PooledAt(x) = {}
  BY <1>1, <1>3, CarriedIsUnused
<1>5. /\ UNCHANGED <<used, live, height, memoryUsed, held, tile, releasing, got, filling>>
      /\ pool' = Append(pool, x) /\ pc'[t] = "drain" /\ ref'[t] = NoRef
      /\ memoryPooled' = memoryPooled + height[x]
  BY <1>1, <1>2 DEF AddToPool, Goto, TypeOK, refVars, owners, getLocals
<1>6. HandOK(t)'
  BY <1>5, PlainHand
<1>7. \A r \in used' : Owned(r)' /\ live'[r]
  BY <1>1, <1>3, <1>5, UsedKeeps
<1>8. ASSUME NEW r \in Refs
      PROVE  /\ r \in Owed <=> PooledAt(r) # {}
             /\ r \in Owed' <=> PooledAt(r) # {} \/ r = x
  <2>1. PooledAt(r)' = IF r = x THEN PooledAt(r) \cup {Len(pool) + 1} ELSE PooledAt(r)
    BY <1>1, <1>5, PoolAppend
  <2>2. PooledAt(r)' # {} <=> PooledAt(r) # {} \/ r = x
    BY <2>1
  <2>3. ~Owes(t, r) /\ ~Owes(t, r)'
    BY <1>1, <1>5 DEF Owes
  <2> QED
    BY <1>1, <2>2, <2>3, OwedMeans
<1>9. x \in Refs \ Owed /\ \A r \in Refs : r \in Owed' <=> r \in Owed \/ r = x
  BY <1>4, <1>8
<1>10. Counted'
  BY <1>1, <1>5, <1>9, CountedPooled DEF CallerInv
<1> QED
  BY <1>1, <1>6, <1>7, <1>10, CallerKeeps

-----------------------------------------------------------------------------
(* What the clients do beside a call *)

(* One more in the release queue.                                          *)
LEMMA OwnedQueued ==
    ASSUME Typed, NEW e \in Refs \cup Bitmaps, releasing' = Append(releasing, e),
           NEW r \in Refs, Owned(r),
           HeldBy(r) # {} => HeldBy(r)' # {} \/ r = e,
           TilesOf(r) # {} => TilesOf(r)' # {} \/ r = e,
           \A u \in Threads : Claims(u, r) => Claims(u, r)'
    PROVE  Owned(r)'
<1>1. QueuedAt(r)' = IF r = e THEN QueuedAt(r) \cup {Len(releasing) + 1} ELSE QueuedAt(r)
  BY QueueAppend
<1>2. (QueuedAt(r) # {} => QueuedAt(r)' # {}) /\ (r = e => QueuedAt(r)' # {})
  BY <1>1
<1> QED
  BY <1>2 DEF Owned

(* A step in which no thread moves and the manager changes nothing.        *)
LEMMA AsideKeeps ==
    ASSUME CallerInv, Inductive',
           UNCHANGED <<pc, got, ref, at, filling, pool, live, height, used, memory>>,
           \A b \in Bitmaps : tile'[b] = tile[b] \/ tile'[b] = NoRef,
           \A r \in Refs : Owned(r) => Owned(r)'
    PROVE  CallerInv'
<1>1. Typed /\ used \subseteq Refs /\ \A r : PooledAt(r)' = PooledAt(r)
  BY DEF CallerInv, Inductive, Typed, TypeOK, PooledAt
<1>2. CallersCall'
  BY DEF CallerInv, CallersCall
<1>3. ASSUME NEW t \in Threads PROVE HandOK(t)'
  <2>1. HandOK(t) /\ (filling[t] # NoBitmaps => filling[t] \in Bitmaps)
    BY <1>1, Stage DEF CallerInv, Hands
  <2>2. filling'[t] # NoBitmaps => t \in Getters /\ tile'[filling'[t]] = NoRef
    BY <2>1 DEF HandOK
  <2>3. PooledAt(ref[t])' = PooledAt(ref[t])
    BY DEF PooledAt
  <2> QED
    BY <2>1, <2>2, <2>3 DEF HandOK
<1>4. UsedOwned' /\ UsedIsLive'
  BY <1>1 DEF CallerInv, UsedOwned, UsedIsLive
<1>5. ASSUME NEW r \in Refs PROVE r \in Owed' <=> r \in Owed
  <2>1. \A t \in Threads : Owes(t, r)' <=> Owes(t, r)
    BY DEF Owes
  <2> QED
    BY <1>1, <2>1 DEF Owed
<1>6. Counted'
  BY <1>5, CountedSame DEF CallerInv
<1> QED
  BY <1>2, <1>3, <1>4, <1>6 DEF CallerInv, Hands

(* A bitmap given to the release queue stays owned, by the queue.          *)
LEMMA ReleaseRefCalls ==
    ASSUME CallerInv, Inductive', NEW t \in Threads, NEW x \in held[t], ReleaseRef(t, x)
    PROVE  CallerInv'
<1>1. Typed /\ x \in Refs
  BY DEF CallerInv, Inductive, Typed, TypeOK
<1>2. /\ UNCHANGED <<pc, got, ref, at, filling, pool, live, height, used, memory, tile>>
      /\ releasing' = Append(releasing, x) /\ held' = [held EXCEPT ![t] = @ \ {x}]
  BY DEF ReleaseRef, refVars, locals, getLocals
<1>3. ASSUME NEW r \in Refs, Owned(r) PROVE Owned(r)'
  <2>1. HeldBy(r) # {} => HeldBy(r)' # {} \/ r = x
    BY <1>1, <1>2 DEF HeldBy, Typed, TypeOK
  <2>2. TilesOf(r)' = TilesOf(r) /\ \A u \in Threads : Claims(u, r) => Claims(u, r)'
    BY <1>2 DEF TilesOf, Claims
  <2> QED
    BY <1>1, <1>2, <1>3, <2>1, <2>2, OwnedQueued
<1> QED
  BY <1>2, <1>3, AsideKeeps

(* A node that gives its Bitmaps up leaves them their tile.                *)
LEMMA NodeCalls ==
    ASSUME CallerInv, Inductive', NEW b \in Bitmaps, RecycleHolder(b) \/ FinalizeNode(b)
    PROVE  CallerInv'
<1>1. Typed
  BY DEF CallerInv, Inductive
<1>2. /\ UNCHANGED <<pc, got, ref, at, filling, pool, live, height, used, memory, tile, held>>
      /\ releasing' = Append(releasing, b)
  BY DEF RecycleHolder, FinalizeNode, refVars, locals, getLocals
<1>3. ASSUME NEW r \in Refs, Owned(r) PROVE Owned(r)'
  <2>1. /\ HeldBy(r)' = HeldBy(r) /\ TilesOf(r)' = TilesOf(r)
        /\ \A u \in Threads : Claims(u, r) => Claims(u, r)'
    BY <1>2 DEF HeldBy, TilesOf, Claims
  <2> QED
    BY <1>1, <1>2, <1>3, <2>1, OwnedQueued
<1> QED
  BY <1>2, <1>3, AsideKeeps

(* A tile goes to the release queue.                                       *)
LEMMA OwnedEmptied ==
    ASSUME Typed, NEW b \in Bitmaps, tile[b] # NoRef, tile' = Emptied(b), held' = held,
           releasing' = Append(releasing, tile[b]), NEW r \in Refs, Owned(r),
           \A u \in Threads : Claims(u, r) => Claims(u, r)'
    PROVE  Owned(r)'
<1>1. PICK x \in Refs : x = tile[b]
  BY DEF Typed, TypeOK
<1>2. \A c \in Bitmaps : tile'[c] = IF c = b THEN NoRef ELSE tile[c]
  BY DEF Emptied, Typed, TypeOK
<1>3. TilesOf(r) # {} => TilesOf(r)' # {} \/ r = x
  BY <1>1, <1>2 DEF TilesOf
<1>4. HeldBy(r)' = HeldBy(r)
  BY DEF HeldBy
<1> QED
  BY <1>1, <1>3, <1>4, OwnedQueued

(* The tile of finalized Bitmaps stays owned, by the queue.                *)
LEMMA FinalizeBitmapsCalls ==
    ASSUME CallerInv, Inductive', NEW b \in Bitmaps, FinalizeBitmaps(b)
    PROVE  CallerInv'
<1>1. Typed
  BY DEF CallerInv, Inductive
<1>2. /\ UNCHANGED <<pc, got, ref, at, filling, pool, live, height, used, memory, held>>
      /\ tile[b] # NoRef /\ tile' = Emptied(b) /\ releasing' = Append(releasing, tile[b])
  BY DEF FinalizeBitmaps, refVars, locals, getLocals
<1>3. \A c \in Bitmaps : tile'[c] = tile[c] \/ tile'[c] = NoRef
  BY <1>1, <1>2 DEF Emptied, Typed, TypeOK
<1>4. ASSUME NEW r \in Refs, Owned(r) PROVE Owned(r)'
  <2>1. \A u \in Threads : Claims(u, r) => Claims(u, r)'
    BY <1>2 DEF Claims
  <2> QED
    BY <1>1, <1>2, <1>4, <2>1, OwnedEmptied
<1> QED
  BY <1>2, <1>3, <1>4, AsideKeeps

(* A tile that is kept, or one that is given back and asked for again.     *)
LEMMA FillCalls ==
    ASSUME OneCaller, CallerInv, Inductive', NEW t \in Threads, NEW b \in Bitmaps, Fill(t, b)
    PROVE  CallerInv'
<1>1. Typed /\ t \in Getters /\ t \in Callers /\ pc[t] = "idle"
  BY DEF CallerInv, Inductive, Fill, Callers
<1>2. UNCHANGED <<height, live, used, pool, memory, held, ref, at, got>>
  BY DEF Fill, refVars
<1>3. \A u \in Threads, r \in Refs : pc[u] # "idle" \/ ~Claims(u, r)
  BY DEF Claims
<1>4. CASE UNCHANGED <<releasing, tile, call, pc, asked, filling>>
  <2>1. ASSUME NEW r \in Refs, Owned(r) PROVE Owned(r)'
    BY <1>2, <1>4, <2>1 DEF Owned, HeldBy, TilesOf, QueuedAt, Claims
  <2> QED
    BY <1>2, <1>4, <2>1, AsideKeeps
<1>5. CASE /\ releasing' = IF tile[b] = NoRef THEN releasing
                                              ELSE Append(releasing, tile[b])
           /\ tile' = Emptied(b)
           /\ filling' = [filling EXCEPT ![t] = b]
           /\ Goto(t, "look")
  <2>1. pc'[t] = "look" /\ filling'[t] = b
    BY <1>1, <1>5 DEF Goto, Typed, TypeOK
  <2>2. Steps(t)
    BY <1>1, <1>2, <1>5 DEF Steps, Goto, Typed, TypeOK
  <2>3. HandOK(t)'
    BY <1>1, <1>5, <2>1 DEF HandOK, Emptied, Typed, TypeOK
  <2>4. \A u \in Threads, r \in Refs : Claims(u, r) => Claims(u, r)'
    BY <1>1, <1>3, <2>2 DEF Claims, Steps
  <2>5. ASSUME NEW r \in Refs, Owned(r) PROVE Owned(r)'
    <3>1. CASE tile[b] = NoRef
      <4>1. tile' = tile /\ releasing' = releasing
        BY <1>1, <1>5, <3>1 DEF Emptied, Typed, TypeOK
      <4>2. /\ HeldBy(r)' = HeldBy(r) /\ TilesOf(r)' = TilesOf(r)
            /\ QueuedAt(r)' = QueuedAt(r)
        BY <1>2, <4>1 DEF HeldBy, TilesOf, QueuedAt
      <4> QED
        BY <2>4, <2>5, <4>2 DEF Owned
    <3>2. CASE tile[b] # NoRef
      BY <1>1, <1>2, <1>5, <2>4, <2>5, <3>2, OwnedEmptied
    <3> QED
      BY <3>1, <3>2
  <2>6. \A r \in Refs : ~Owes(t, r) /\ ~Owes(t, r)'
    BY <1>1, <2>1 DEF Owes
  <2> QED
    BY <1>2, <2>2, <2>3, <2>5, <2>6, HandsChange
<1> QED
  BY <1>4, <1>5 DEF Fill

(* Steps that only move the caller along its call change no count.         *)
LEMMA SilentActionsCall ==
    ASSUME OneCaller, CallerInv, Inductive', NEW t \in Threads,
           \/ \E h \in Heights : GetBitmap(t, h)
           \/ Release(t) \/ Clear(t) \/ NoOld(t) \/ Drained(t)
    PROVE  CallerInv'
<1>1. Typed
  BY DEF CallerInv, Inductive
<1>2. Silent(t)
  BY <1>1, SilentActions
<1>3. UNCHANGED <<live, height, memory, filling>>
  BY DEF GetBitmap, Release, Clear, NoOld, Drained, refVars, poolVars, locals, getLocals
<1>4. t \in Callers
  BY DEF GetBitmap, Release, Clear, NoOld, Drained, Callers, CallerInv, CallersCall
<1>5. Steps(t)
  BY <1>1, <1>2, <1>3, <1>4 DEF Silent, Steps, Typed, TypeOK
<1> QED
  BY <1>2, <1>3, <1>5, SilentCalls

-----------------------------------------------------------------------------
(* The theorems about one caller *)

(* At the start nothing is counted.                                        *)
LEMMA CallerInvInit == Init => CallerInv
<1> SUFFICES ASSUME Init PROVE CallerInv
  OBVIOUS
<1>1. Inductive
  BY InductiveInit
<1>2. /\ \A t \in Threads : pc[t] = "idle" /\ filling[t] = NoBitmaps
      /\ used = {} /\ pool = <<>> /\ memoryUsed = 0 /\ memoryPooled = 0
  BY DEF Init
<1>3. CallersCall /\ Hands
  BY <1>2 DEF CallersCall, Hands, HandOK
<1>4. UsedOwned /\ UsedIsLive
  BY <1>2 DEF UsedOwned, UsedIsLive
<1>5. Owed = {}
  BY <1>2 DEF Owed, Owes, PooledAt
<1>6. Counted
  BY <1>2, <1>5, SumEmpty, FS_EmptySet DEF Counted
<1> QED
  BY <1>1, <1>3, <1>4, <1>6 DEF CallerInv

(* Each step keeps the invariant of the only caller.                       *)
LEMMA CallerInvStep ==
    ASSUME OneCaller, CallerInv, [Next]_vars PROVE CallerInv'
<1>1. Inductive'
  <2>1. \A u, w \in Getters : u = w
    BY DEF OneCaller, Callers
  <2> QED
    BY <2>1, InductiveStep DEF CallerInv
<1>2. CASE UNCHANGED <<pc, got, ref, at, filling, pool, live, height, used, memory,
                       held, tile, releasing>>
  <2>1. \A r \in Refs : Owned(r) => Owned(r)'
    BY <1>2 DEF Owned, HeldBy, TilesOf, QueuedAt, Claims
  <2> QED
    BY <1>1, <1>2, <2>1, AsideKeeps
<1>3. ASSUME NEW t \in Threads, Manager(t) PROVE CallerInv'
  <2>1. CASE Drained(t) \/ NoOld(t)
    BY <1>1, <2>1, SilentActionsCall
  <2> QED
    BY <1>1, <1>3, <2>1, LookCalls, TakeCalls, EnterCalls, CreateCalls, FindOldCalls,
       RecycleOldCalls, PollRefCalls, PollBitmapsCalls, UnuseCalls,
       AddToPoolCalls, PollPoolCalls, RecyclePolledCalls, ShrunkCalls DEF Manager
<1>4. ASSUME NEW t \in Threads, NEW h \in Heights, GetBitmap(t, h) \/ AddBitmap(t, h)
      PROVE  CallerInv'
  BY <1>1, <1>4, AddBitmapCalls, SilentActionsCall
<1>5. ASSUME NEW t \in Threads, Release(t) \/ Clear(t) PROVE CallerInv'
  BY <1>1, <1>5, SilentActionsCall
<1>6. ASSUME NEW t \in Threads, NEW r \in held[t], ReleaseRef(t, r) PROVE CallerInv'
  BY <1>1, <1>6, ReleaseRefCalls
<1>7. ASSUME NEW t \in Threads, NEW b \in Bitmaps, Fill(t, b) PROVE CallerInv'
  BY <1>1, <1>7, FillCalls
<1>8. ASSUME NEW b \in Bitmaps, SetBitmap(b) \/ Collect(b) PROVE CallerInv'
  BY <1>2, <1>8 DEF SetBitmap, Collect, refVars, poolVars, locals, getLocals
<1>9. ASSUME NEW b \in Bitmaps, RecycleHolder(b) \/ FinalizeNode(b) PROVE CallerInv'
  BY <1>1, <1>9, NodeCalls
<1>10. ASSUME NEW b \in Bitmaps, FinalizeBitmaps(b) PROVE CallerInv'
  BY <1>1, <1>10, FinalizeBitmapsCalls
<1>11. CASE UNCHANGED vars
  BY <1>2, <1>11 DEF vars, refVars, poolVars, owners, locals, getLocals
<1> QED
  BY <1>3, <1>4, <1>5, <1>6, <1>7, <1>8, <1>9, <1>10, <1>11 DEF Next, Clients

(* The invariant of the only caller holds.                                 *)
LEMMA CallerInvHolds == ASSUME OneCaller PROVE Spec => []CallerInv
<1>1. CallerInv /\ [Next]_vars => CallerInv'
  BY CallerInvStep
<1> QED
  BY <1>1, CallerInvInit, PTL DEF Spec

(* Places of one kind.                                                     *)
LEMMA KindedIsEmpty == ASSUME NEW k, NEW A PROVE {k} \X A = {} <=> A = {}
<1>1. ASSUME NEW p \in {k} \X A PROVE A # {}
  <2>1. p[2] \in A
    OBVIOUS
  <2> QED
    BY <2>1
<1>2. ASSUME NEW a \in A PROVE {k} \X A # {}
  <2>1. <<k, a>> \in {k} \X A
    OBVIOUS
  <2> QED
    BY <2>1
<1> QED
  BY <1>1, <1>2

(* Where one thread calls the manager, as in scroll reading, `used' holds  *)
(* the bitmaps that a client, the release queue or a call has, and no      *)
(* other: none leaks on its way through getBitmap, reuse and releaseImpl.  *)
THEOREM UsedIsExact == ASSUME OneCaller PROVE Spec => []UsedIsOwned
<1>1. ASSUME CallerInv PROVE UsedIsOwned
  <2>1. used \subseteq Refs /\ UsedCovers /\ UsedOwned
    BY <1>1 DEF CallerInv, Inductive, Typed, TypeOK
  <2>2. ASSUME NEW r \in Refs
        PROVE  r \in used <=>
                 \/ ClientsOf(r) # {}
                 \/ \E t \in Threads : got[t] = r /\ pc[t] \in {"shrink", "recycle"}
                 \/ \E t \in Threads : ref[t] = r /\ pc[t] = "unuse"
    <3>1. ClientsOf(r) # {} <=> HeldBy(r) # {} \/ TilesOf(r) # {} \/ QueuedAt(r) # {}
      <4>1. ClientsOf(r) = ({"holder"} \X HeldBy(r)) \cup ({"tile"} \X TilesOf(r))
                             \cup ({"queue"} \X QueuedAt(r))
        BY DEF ClientsOf, HeldBy, TilesOf, QueuedAt
      <4>2. /\ {"holder"} \X HeldBy(r) = {} <=> HeldBy(r) = {}
            /\ {"tile"} \X TilesOf(r) = {} <=> TilesOf(r) = {}
            /\ {"queue"} \X QueuedAt(r) = {} <=> QueuedAt(r) = {}
        BY KindedIsEmpty
      <4>3. \A A, B, C : A \cup B \cup C # {} <=> A # {} \/ B # {} \/ C # {}
        BY Zenon
      <4>4. ClientsOf(r) # {} <=> \/ {"holder"} \X HeldBy(r) # {}
                                 \/ {"tile"} \X TilesOf(r) # {}
                                 \/ {"queue"} \X QueuedAt(r) # {}
        BY <4>1, <4>3
      <4> QED
        BY <4>2, <4>4
    <3>2. (\E t \in Threads : Claims(t, r)) <=> Claimers(r) # {}
      BY DEF Claims, Claimers
    <3>3. r \in used <=> Owned(r)
      BY <2>1, <3>2 DEF UsedCovers, UsedOwned, Owned
    <3> QED
      BY <3>1, <3>3 DEF Owned, Claims
  <2> QED
    BY <2>1, <2>2 DEF UsedIsOwned
<1> QED
  BY <1>1, CallerInvHolds, PTL

(* Where one thread calls the manager, a bitmap in use has its pixels: what *)
(* removeOldRefs and shrinkPool recycle is pooled, and nobody has it.      *)
THEOREM UsedHasPixels == ASSUME OneCaller PROVE Spec => []UsedIsLive
<1>1. CallerInv => UsedIsLive
  BY DEF CallerInv
<1> QED
  BY <1>1, CallerInvHolds, PTL

(* Where one thread calls the manager, memoryUsed and memoryPooled say     *)
(* between two calls what the used and the pooled bitmaps take.            *)
THEOREM CountersAgree == ASSUME OneCaller PROVE Spec => []CountersMatch
<1>1. ASSUME CallerInv PROVE CountersMatch
  <2> SUFFICES ASSUME Quiet
               PROVE  /\ memoryUsed = SumFunctionOnSet(height, used)
                      /\ memoryPooled = SumFunction([i \in DOMAIN pool |-> height[pool[i]]])
    BY DEF CountersMatch
  <2> DEFINE f == [i \in DOMAIN pool |-> height[pool[i]]]
  <2>1. pool \in Seq(Refs) /\ SoleOwners /\ Counted /\ \A r \in Refs : height[r] \in Int
    BY <1>1 DEF CallerInv, Inductive, Typed, TypeOK
  <2>2. DOMAIN pool = 1 .. Len(pool) /\ Len(pool) \in Nat
    BY <2>1, LenProperties
  <2>3. \A i \in DOMAIN pool : pool[i] \in Refs
    BY <2>1, <2>2, ElementOfSeq
  <2>4. \A r \in Refs : r \in Owed <=> PooledAt(r) # {}
    BY DEF Owed, Owes, Quiet
  <2>5. \A i \in DOMAIN pool : pool[i] \in Owed
    BY <2>3, <2>4 DEF PooledAt
  <2>6. \A r \in Owed : \E i \in DOMAIN pool : pool[i] = r
    BY <2>4 DEF PooledAt, Owed
  <2>7. \A i, j \in DOMAIN pool : pool[i] = pool[j] => i = j
    <3>1. ASSUME NEW i \in DOMAIN pool, NEW j \in DOMAIN pool, NEW r \in Refs,
                 r = pool[i], r = pool[j]
          PROVE  i = j
      <4>1. i \in PooledAt(r) /\ j \in PooledAt(r)
        BY <3>1 DEF PooledAt
      <4> QED
        BY <2>1, <4>1 DEF SoleOwners, Sole, OneAmong, Single
    <3> QED
      BY <2>3, <3>1
  <2>8. \A i \in DOMAIN pool : f[i] = height[pool[i]] /\ f[i] \in Int
    BY <2>1, <2>3
  <2>9. IsFiniteSet(DOMAIN pool) /\ DOMAIN f = DOMAIN pool
    BY <2>2, FS_Interval
  <2> HIDE DEF f, Owed
  <2>10. SumFunctionOnSet(f, DOMAIN pool) = SumFunctionOnSet(height, Owed)
    BY <2>5, <2>6, <2>7, <2>8, <2>9, SumReindexed
  <2>11. SumFunction(f) = SumFunctionOnSet(height, Owed)
    BY <2>9, <2>10 DEF SumFunction
  <2> QED
    BY <2>1, <2>11 DEF Counted, f
<1> QED
  BY <1>1, CallerInvHolds, PTL
=============================================================================
