------------------------------ MODULE BitmapPool ------------------------------
(***************************************************************************)
(* BitmapManager: bitmaps in use, bitmaps pooled for a second use, and the *)
(* queue of bitmaps to give back.  None of its methods takes a lock; the   *)
(* decoder thread, the UI thread, the drawing thread of the page curlers   *)
(* and the finalizer thread call them.  Its clients are holders of single  *)
(* bitmaps (the decoded page, the curler images) and the Bitmaps of page   *)
(* nodes, which are tiles under a lock of their own.                       *)
(***************************************************************************)
EXTENDS Integers, FiniteSets, FiniteSetsExt, SequencesExt

CONSTANTS
    Threads,    \* threads that call the pool
    Getters,    \* those that ask it for bitmaps
    Adders,     \* those that bring bitmaps: the one that makes a thumbnail
    Drainers,   \* those that call release(): the decoder, a closing document
    Cleaners,   \* those that call clear(): on low memory
    Refs,       \* BitmapRef objects; one nobody refers to stands for a new one
    NoRef,
    Bitmaps,    \* the tiles of a node; one tile stands for the array
    NoBitmaps,
    Heights,    \* heights asked for, of one width; the size of a bitmap
    TileHeight, \* partSize
    Limit,      \* BITMAP_MEMORY_LIMIT
    Threshold,  \* GENERATION_THRESHOLD
    MaxHeld,    \* bound: single bitmaps a thread keeps
    MaxQueue,   \* bound: length of the release queue when clients add to it
    MaxDrift    \* bound: calls stop once memoryPooled is this far below zero

ASSUME CallersAssumption ==
    /\ Getters \cup Adders \cup Drainers \cup Cleaners \subseteq Threads
    /\ NoRef \notin Refs
    /\ NoBitmaps \notin Bitmaps
    /\ Refs \cap Bitmaps = {}

ASSUME SizesAssumption ==
    /\ Heights \subseteq Nat \ {0}
    /\ TileHeight \in Nat \ {0}
    /\ {Limit, MaxHeld, MaxQueue, MaxDrift} \subseteq Nat
    /\ Threshold \in Nat \ {0}

VARIABLES
    height,     \* BitmapRef.height
    live,       \* BitmapRef.bitmap # null
    age,        \* generation - BitmapRef.gen, up to Threshold + 1
    used,       \* keys of BitmapManager.used
    pool,       \* BitmapManager.pool
    releasing,  \* BitmapManager.releasing
    memoryUsed,
    memoryPooled,
    held,       \* the single bitmaps each thread has got and not given back
    tile,       \* Bitmaps.bitmaps
    posted,     \* Bitmaps filled, whose setBitmap waits for the UI thread
    shown,      \* Bitmaps a BitmapHolder refers to
    doomed,     \* Bitmaps of a dropped node, which the collector finalizes
    call,       \* the call a thread is in
    pc,         \* where it is in that call
    ref,        \* its local variable ref
    at,         \* where its iterator is in the pool, 0 once that entry is gone
    old,        \* the bitmaps older than its local variable gen allows
    asked,      \* the height it asks for
    got,        \* the bitmap getBitmap is going to return
    filling     \* the Bitmaps it fills, whose write lock it holds

refVars    == <<height, live, age>>
memory     == <<memoryUsed, memoryPooled>>
owners     == <<held, tile, posted, shown, doomed>>
poolVars   == <<used, pool, releasing, memory>>
getLocals  == <<asked, got, filling>>
locals     == <<call, ref, at, old, getLocals>>
vars       == <<refVars, poolVars, owners, pc, locals>>

Init ==
    /\ height = [r \in Refs |-> 1]
    /\ live = [r \in Refs |-> FALSE]
    /\ age = [r \in Refs |-> 0]
    /\ used = {} /\ pool = <<>> /\ releasing = <<>>
    /\ memoryUsed = 0 /\ memoryPooled = 0
    /\ held = [t \in Threads |-> {}]
    /\ tile = [b \in Bitmaps |-> NoRef]
    /\ posted = {} /\ shown = {} /\ doomed = {}
    /\ call = [t \in Threads |-> "none"]
    /\ pc = [t \in Threads |-> "idle"]
    /\ ref = [t \in Threads |-> NoRef]
    /\ at = [t \in Threads |-> 0]
    /\ old = [t \in Threads |-> {}]
    /\ asked = [t \in Threads |-> 0]
    /\ got = [t \in Threads |-> NoRef]
    /\ filling = [t \in Threads |-> NoBitmaps]

Goto(t, label) == pc' = [pc EXCEPT ![t] = label]

(* References no variable of the program holds: `new BitmapRef` makes one. *)
Fresh ==
    Refs \ (used \cup Range(pool) \cup Range(releasing) \cup Range(tile)
              \cup Range(ref) \cup Range(got) \cup UNION Range(held))

Locked(b) == \E t \in Threads : filling[t] = b

\* A variant whose iterators are positions, as those of an array list.
WithoutMoving(i) ==
    /\ pool' = IF i = 0 THEN pool ELSE RemoveAt(pool, i)
    /\ UNCHANGED at

\* A variant that leaves the entry where it is.
WithoutRemoval(i) == UNCHANGED <<pool, at>>

(***************************************************************************)
(* An entry leaves the pool: entries behind it move up, and the iterators  *)
(* of other threads stay at their entry.  Iterator.remove of an entry that *)
(* is gone already does nothing.                                           *)
(***************************************************************************)
Without(i) ==
    /\ pool' = IF i = 0 THEN pool ELSE RemoveAt(pool, i)
    /\ at' = [t \in Threads |->
                IF i = 0 \/ at[t] < i THEN at[t]
                ELSE IF at[t] = i THEN 0 ELSE at[t] - 1]

----------------------------------------------------------------------------
(* getBitmap                                                               *)

\* A variant that does not register the bitmap.
PutInUseNot(r) == UNCHANGED used

PutInUse(r) == used' = used \cup {r}

(* A thread may ask for a bitmap while the bound on Refs leaves a new one. *)
Spare == Cardinality(Fresh) > Quantify(Threads, LAMBDA t : pc[t] = "look")

GetBitmap(t, h) ==
    /\ t \in Getters /\ pc[t] = "idle"
    /\ Cardinality(held[t]) < MaxHeld /\ Spare
    /\ call' = [call EXCEPT ![t] = "getBitmap"]
    /\ asked' = [asked EXCEPT ![t] = h]
    /\ Goto(t, "look")
    /\ UNCHANGED <<refVars, poolVars, owners, ref, at, old, got, filling>>

Fits(t, r) == live[r] /\ height[r] >= asked[t]

(* it.next returns the first bitmap that fits.                             *)
Look(t) ==
    /\ pc[t] = "look"
    /\ \E i \in DOMAIN pool :
          /\ Fits(t, pool[i])
          /\ \A j \in 1 .. i - 1 : ~Fits(t, pool[j])
          /\ at' = [at EXCEPT ![t] = i]
          /\ got' = [got EXCEPT ![t] = pool[i]]
    /\ Goto(t, "take")
    /\ UNCHANGED <<refVars, poolVars, owners, call, ref, old, asked, filling>>

(* it.remove                                                               *)
Take(t) ==
    /\ pc[t] = "take"
    /\ Without(at[t])
    /\ Goto(t, "enter")
    /\ UNCHANGED <<refVars, used, releasing, memory, owners, call, ref, old, getLocals>>

(***************************************************************************)
(* getBitmap returns to a holder of a single bitmap, or to Bitmaps, which  *)
(* then have their tile and post setBitmap.  If the bitmap was recycled in *)
(* the meantime the client throws: reuse keeps the tile, the constructor   *)
(* and some holders lose it.                                               *)
(***************************************************************************)
Known(b) == b \in shown \cup Range(releasing)

Lost(t, r) == ~live[r] /\ (filling[t] = NoBitmaps \/ ~Known(filling[t]))

Keep(t, r) ==
    IF filling[t] = NoBitmaps
      THEN held' = [held EXCEPT ![t] = @ \cup {r}] /\ UNCHANGED <<tile, posted>>
      ELSE /\ tile' = [tile EXCEPT ![filling[t]] = r]
           /\ posted' = IF live[r] THEN posted \cup {filling[t]} ELSE posted
           /\ UNCHANGED held

Return(t, r) ==
    /\ \/ Lost(t, r) /\ UNCHANGED <<held, tile, posted>>
       \/ ~(Lost(t, r) /\ filling[t] # NoBitmaps) /\ Keep(t, r)
    /\ filling' = [filling EXCEPT ![t] = NoBitmaps]
    /\ got' = [got EXCEPT ![t] = NoRef]
    /\ asked' = [asked EXCEPT ![t] = 0]
    /\ call' = [call EXCEPT ![t] = "none"]
    /\ Goto(t, "idle")
    /\ UNCHANGED <<shown, doomed>>

(* The pooled bitmap is in use again.                                      *)
Enter(t) ==
    /\ pc[t] = "enter"
    /\ age' = [age EXCEPT ![got[t]] = 0]
    /\ old' = [u \in Threads |-> old[u] \ {got[t]}]
    /\ PutInUse(got[t])
    /\ memoryPooled' = memoryPooled - height[got[t]]
    /\ memoryUsed' = memoryUsed + height[got[t]]
    /\ Return(t, got[t])
    /\ UNCHANGED <<height, live, pool, releasing, ref, at>>

(* No pooled bitmap fits: a new one, then shrinkPool.                      *)
Create(t) ==
    /\ pc[t] = "look"
    /\ \A i \in DOMAIN pool : ~Fits(t, pool[i])
    /\ \E r \in Fresh :
          /\ height' = [height EXCEPT ![r] = asked[t]]
          /\ live' = [live EXCEPT ![r] = TRUE]
          /\ age' = [age EXCEPT ![r] = 0]
          /\ PutInUse(r)
          /\ got' = [got EXCEPT ![t] = r]
    /\ memoryUsed' = memoryUsed + asked[t]
    /\ Goto(t, "shrink")
    /\ UNCHANGED <<pool, releasing, memoryPooled, owners, call, ref, at, old, asked, filling>>

(* addBitmap, of a thumbnail the document brings along                     *)
AddBitmap(t, h) ==
    /\ t \in Adders /\ pc[t] = "idle"
    /\ Cardinality(held[t]) < MaxHeld /\ Spare
    /\ \E r \in Fresh :
          /\ height' = [height EXCEPT ![r] = h]
          /\ live' = [live EXCEPT ![r] = TRUE]
          /\ age' = [age EXCEPT ![r] = 0]
          /\ PutInUse(r)
          /\ held' = [held EXCEPT ![t] = @ \cup {r}]
    /\ memoryUsed' = memoryUsed + h
    /\ UNCHANGED <<pool, releasing, memoryPooled, tile, posted, shown, doomed, pc, locals>>

----------------------------------------------------------------------------
(* release() and clear()                                                   *)

(* The generation advances, and removeOldRefs reads it.                    *)
Advance(t, n) ==
    /\ old' = [old EXCEPT ![t] = {r \in Refs : age[r] + n > Threshold}]
    /\ age' = [r \in Refs |-> IF age[r] + n > Threshold THEN Threshold + 1
                              ELSE age[r] + n]
    /\ Goto(t, "removeOld")

Release(t) ==
    /\ t \in Drainers /\ pc[t] = "idle" /\ memoryPooled >= -MaxDrift
    /\ call' = [call EXCEPT ![t] = "release"]
    /\ Advance(t, 1)
    /\ UNCHANGED <<height, live, poolVars, owners, ref, at, getLocals>>

Clear(t) ==
    /\ t \in Cleaners /\ pc[t] = "idle" /\ memoryPooled >= -MaxDrift
    /\ call' = [call EXCEPT ![t] = "clear"]
    /\ Advance(t, 2 * Threshold)
    /\ UNCHANGED <<height, live, poolVars, owners, ref, at, getLocals>>

(* it.next returns the first bitmap that is too old.                       *)
FindOld(t) ==
    /\ pc[t] = "removeOld"
    /\ \E i \in DOMAIN pool :
          /\ pool[i] \in old[t]
          /\ \A j \in 1 .. i - 1 : pool[j] \notin old[t]
          /\ at' = [at EXCEPT ![t] = i]
          /\ ref' = [ref EXCEPT ![t] = pool[i]]
    /\ Goto(t, "recycleOld")
    /\ UNCHANGED <<refVars, poolVars, owners, call, old, getLocals>>

\* A variant that forgets the counter.
RecycleUncounted(t) ==
    /\ live' = [live EXCEPT ![ref[t]] = FALSE]
    /\ ref' = [ref EXCEPT ![t] = NoRef]
    /\ UNCHANGED memoryPooled

(* BitmapRef.recycle of what removeOldRefs or shrinkPool has taken out     *)
Recycle(t) ==
    /\ live' = [live EXCEPT ![ref[t]] = FALSE]
    /\ memoryPooled' = memoryPooled - height[ref[t]]
    /\ ref' = [ref EXCEPT ![t] = NoRef]

RecycleOld(t) ==
    /\ pc[t] = "recycleOld"
    /\ Without(at[t])
    /\ Recycle(t)
    /\ Goto(t, "removeOld")
    /\ UNCHANGED <<height, age, used, releasing, memoryUsed, owners, call, old, getLocals>>

(* removeOldRefs ends; clear goes on with release.                         *)
NoOld(t) ==
    /\ pc[t] = "removeOld"
    /\ \A i \in DOMAIN pool : pool[i] \notin old[t]
    /\ IF call[t] = "clear"
         THEN /\ call' = [call EXCEPT ![t] = "clearRelease"]
              /\ Advance(t, 1)
         ELSE /\ old' = [old EXCEPT ![t] = {}]
              /\ Goto(t, "drain")
              /\ UNCHANGED <<age, call>>
    /\ UNCHANGED <<height, live, poolVars, owners, ref, at, getLocals>>

(* releasing.poll returns a bitmap, or Bitmaps to clear under their lock.  *)
PollRef(t) ==
    /\ pc[t] = "drain" /\ releasing # <<>> /\ Head(releasing) \in Refs
    /\ ref' = [ref EXCEPT ![t] = Head(releasing)]
    /\ releasing' = Tail(releasing)
    /\ Goto(t, "unuse")
    /\ UNCHANGED <<refVars, used, pool, memory, owners, call, at, old, getLocals>>

\* A variant of Bitmaps.clear that keeps the array it returns.
EmptiedNot(b) == tile

Emptied(b) == [tile EXCEPT ![b] = NoRef]

\* A variant that looks at the head of the queue and leaves it there.
PeekBitmaps(t) ==
    /\ pc[t] = "drain" /\ releasing # <<>> /\ Head(releasing) \in Bitmaps
    /\ ~Locked(Head(releasing))
    /\ tile' = Emptied(Head(releasing))
    /\ ref' = [ref EXCEPT ![t] = tile[Head(releasing)]]
    /\ Goto(t, IF tile[Head(releasing)] = NoRef THEN "drain" ELSE "unuse")
    /\ UNCHANGED <<refVars, poolVars, held, posted, shown, doomed, call, at, old, getLocals>>

PollBitmaps(t) ==
    /\ pc[t] = "drain" /\ releasing # <<>> /\ Head(releasing) \in Bitmaps
    /\ ~Locked(Head(releasing))
    /\ tile' = Emptied(Head(releasing))
    /\ releasing' = Tail(releasing)
    /\ ref' = [ref EXCEPT ![t] = tile[Head(releasing)]]
    /\ Goto(t, IF tile[Head(releasing)] = NoRef THEN "drain" ELSE "unuse")
    /\ UNCHANGED <<refVars, used, pool, memory, held, posted, shown, doomed,
                   call, at, old, getLocals>>

\* A variant that never takes a bitmap out of `used`.
UnuseNot(t) ==
    /\ pc[t] = "unuse"
    /\ memoryUsed' = memoryUsed - height[ref[t]]
    /\ Goto(t, "pool")
    /\ UNCHANGED <<refVars, used, pool, releasing, memoryPooled, owners, locals>>

(* releaseImpl: the bitmap leaves `used`, if it is there, and is pooled.   *)
Unuse(t) ==
    /\ pc[t] = "unuse"
    /\ used' = used \ {ref[t]}
    /\ memoryUsed' = IF ref[t] \in used THEN memoryUsed - height[ref[t]] ELSE memoryUsed
    /\ Goto(t, "pool")
    /\ UNCHANGED <<refVars, pool, releasing, memoryPooled, owners, locals>>

AddToPool(t) ==
    /\ pc[t] = "pool"
    /\ pool' = Append(pool, ref[t])
    /\ memoryPooled' = memoryPooled + height[ref[t]]
    /\ ref' = [ref EXCEPT ![t] = NoRef]
    /\ Goto(t, "drain")
    /\ UNCHANGED <<refVars, used, releasing, memoryUsed, owners, call, at, old, getLocals>>

Drained(t) ==
    /\ pc[t] = "drain" /\ releasing = <<>>
    /\ Goto(t, "shrink")
    /\ UNCHANGED <<refVars, poolVars, owners, locals>>

----------------------------------------------------------------------------
(* shrinkPool, called by getBitmap, release and clear                      *)

\* A variant that counts what is pooled only.
OverLimitPooled(t) == memoryPooled > (IF call[t] = "clearShrink" THEN 0 ELSE Limit)

OverLimit(t) ==
    memoryPooled + memoryUsed > (IF call[t] = "clearShrink" THEN 0 ELSE Limit)

Shrinking(t) == OverLimit(t) /\ pool # <<>>

PollPool(t) ==
    /\ pc[t] = "shrink" /\ Shrinking(t)
    /\ ref' = [ref EXCEPT ![t] = Head(pool)]
    /\ Without(1)
    /\ Goto(t, "recycle")
    /\ UNCHANGED <<refVars, used, releasing, memory, owners, call, old, getLocals>>

RecyclePolled(t) ==
    /\ pc[t] = "recycle"
    /\ Recycle(t)
    /\ Goto(t, "shrink")
    /\ UNCHANGED <<height, age, used, pool, releasing, memoryUsed, owners,
                   call, at, old, getLocals>>

Shrunk(t) ==
    /\ pc[t] = "shrink" /\ ~Shrinking(t)
    /\ \/ call[t] = "getBitmap" /\ Return(t, got[t])
       \/ /\ call[t] = "clearRelease"
          /\ call' = [call EXCEPT ![t] = "clearShrink"]
          /\ UNCHANGED <<owners, pc, getLocals>>
       \/ /\ call[t] \in {"release", "clearShrink"}
          /\ call' = [call EXCEPT ![t] = "none"]
          /\ Goto(t, "idle")
          /\ UNCHANGED <<owners, getLocals>>
    /\ UNCHANGED <<refVars, poolVars, ref, at, old>>

----------------------------------------------------------------------------
(* The clients                                                             *)

(* release(ref) by the holder of a single bitmap                           *)
ReleaseRef(t, r) ==
    /\ pc[t] = "idle" /\ r \in held[t]
    /\ held' = [held EXCEPT ![t] = @ \ {r}]
    /\ releasing' = Append(releasing, r)
    /\ UNCHANGED <<refVars, used, pool, memory, tile, posted, shown, doomed, pc, locals>>

(* Bitmaps.reuse of what the decoder has read from a holder, perhaps just  *)
(* before the UI thread recycled it, or the constructor of new Bitmaps: a  *)
(* live tile is kept, a recycled one given back and replaced.              *)
Fill(t, b) ==
    /\ t \in Getters /\ pc[t] = "idle"
    /\ b \notin doomed /\ ~Locked(b)
    /\ Known(b) \/ (b \notin posted /\ tile[b] = NoRef)
    /\ IF tile[b] # NoRef /\ live[tile[b]]
         THEN /\ posted' = posted \cup {b}
              /\ UNCHANGED <<releasing, tile, call, pc, asked, filling>>
         ELSE /\ Spare
              /\ releasing' = IF tile[b] = NoRef THEN releasing
                                                 ELSE Append(releasing, tile[b])
              /\ tile' = Emptied(b)
              /\ filling' = [filling EXCEPT ![t] = b]
              /\ call' = [call EXCEPT ![t] = "getBitmap"]
              /\ asked' = [asked EXCEPT ![t] = TileHeight]
              /\ Goto(t, "look")
              /\ UNCHANGED posted
    /\ UNCHANGED <<refVars, used, pool, memory, held, shown, doomed, ref, at, old, got>>

(* The posted runnable: BitmapHolder.setBitmap                             *)
SetBitmap(b) ==
    /\ b \in posted
    /\ posted' = posted \ {b}
    /\ shown' = shown \cup {b}
    /\ UNCHANGED <<refVars, poolVars, held, tile, doomed, pc, locals>>

(* BitmapHolder.recycle and release(List); the decoder may still know b.   *)
RecycleHolder(b) ==
    /\ b \in shown /\ Len(releasing) < MaxQueue
    /\ shown' = shown \ {b}
    /\ releasing' = Append(releasing, b)
    /\ UNCHANGED <<refVars, used, pool, memory, held, tile, posted, doomed, pc, locals>>

(* The collector finds a dropped node: PageTreeNode.finalize recycles its  *)
(* holder, and the Bitmaps of the same node are finalized as well.         *)
FinalizeNode(b) ==
    /\ b \in shown \ posted /\ ~Locked(b) /\ Len(releasing) < MaxQueue
    /\ b \notin Range(releasing)
    /\ shown' = shown \ {b}
    /\ doomed' = doomed \cup {b}
    /\ releasing' = Append(releasing, b)
    /\ UNCHANGED <<refVars, used, pool, memory, held, tile, posted, pc, locals>>

FinalizeBitmaps(b) ==
    /\ b \in doomed /\ tile[b] # NoRef
    /\ releasing' = Append(releasing, tile[b])
    /\ tile' = Emptied(b)
    /\ UNCHANGED <<refVars, used, pool, memory, held, posted, shown, doomed, pc, locals>>

(* Nothing refers to b: it can stand for new Bitmaps.                      *)
Collect(b) ==
    /\ b \in doomed /\ tile[b] = NoRef /\ b \notin Range(releasing)
    /\ doomed' = doomed \ {b}
    /\ UNCHANGED <<refVars, poolVars, held, tile, posted, shown, pc, locals>>

----------------------------------------------------------------------------
Manager(t) ==
    \/ Look(t) \/ Take(t) \/ Enter(t) \/ Create(t)
    \/ FindOld(t) \/ RecycleOld(t) \/ NoOld(t)
    \/ PollRef(t) \/ PollBitmaps(t) \/ Unuse(t) \/ AddToPool(t) \/ Drained(t)
    \/ PollPool(t) \/ RecyclePolled(t) \/ Shrunk(t)

Clients ==
    \/ \E t \in Threads :
          \/ Release(t) \/ Clear(t)
          \/ \E h \in Heights : GetBitmap(t, h) \/ AddBitmap(t, h)
          \/ \E r \in held[t] : ReleaseRef(t, r)
          \/ \E b \in Bitmaps : Fill(t, b)
    \/ \E b \in Bitmaps :
          \/ SetBitmap(b) \/ RecycleHolder(b)
          \/ FinalizeNode(b) \/ FinalizeBitmaps(b) \/ Collect(b)

Next == Clients \/ \E t \in Threads : Manager(t)

Spec == Init /\ [][Next]_vars

(* A thread in a call is scheduled; nobody has to make a call.             *)
FairSpec == Spec /\ \A t \in Threads : WF_vars(Manager(t))

----------------------------------------------------------------------------
(* Types.  A generation is never negative, a counter of memory may be.     *)
TypeOK ==
    /\ height \in [Refs -> Nat \ {0}]
    /\ live \in [Refs -> BOOLEAN]
    /\ age \in [Refs -> 0 .. Threshold + 1]
    /\ used \subseteq Refs
    /\ pool \in Seq(Refs) /\ releasing \in Seq(Refs \cup Bitmaps)
    /\ memoryUsed \in Int /\ memoryPooled \in Int
    /\ held \in [Threads -> SUBSET Refs]
    /\ tile \in [Bitmaps -> Refs \cup {NoRef}]
    /\ posted \cup shown \cup doomed \subseteq Bitmaps
    /\ call \in [Threads -> {"none", "getBitmap", "release", "clear",
                             "clearRelease", "clearShrink"}]
    /\ pc \in [Threads -> {"idle", "look", "take", "enter", "shrink", "recycle",
                           "removeOld", "recycleOld", "drain", "unuse", "pool"}]
    /\ ref \in [Threads -> Refs \cup {NoRef}]
    /\ got \in [Threads -> Refs \cup {NoRef}]
    /\ filling \in [Threads -> Bitmaps \cup {NoBitmaps}]
    /\ old \in [Threads -> SUBSET Refs]
    /\ asked \in [Threads -> Nat]
    /\ at \in [Threads -> Nat] /\ \A t \in Threads : at[t] <= Len(pool)

(* Threads that are going to hand r out, or to pool it                     *)
Carriers(r) ==
    {t \in Threads : \/ got[t] = r /\ pc[t] \in {"enter", "shrink", "recycle"}
                     \/ ref[t] = r /\ pc[t] \in {"unuse", "pool"}}

ClientsOf(r) ==
    ({"holder"} \X {t \in Threads : r \in held[t]})
      \cup ({"tile"} \X {b \in Bitmaps : tile[b] = r})
      \cup ({"queue"} \X {i \in DOMAIN releasing : releasing[i] = r})

PlacesOf(r) ==
    ClientsOf(r) \cup ({"call"} \X Carriers(r))
      \cup ({"pool"} \X {i \in DOMAIN pool : pool[i] = r})

(* A bitmap has one owner: one client, one place in the release queue, one *)
(* in the pool, or one call on its way between them (getBitmap, reuse,     *)
(* clear and the two finalizers, releaseImpl).  Else two pages would draw  *)
(* into the same pixels.                                                   *)
OneOwner == \A r \in Refs : \A p, q \in PlacesOf(r) : p = q

(* releaseImpl finds the bitmap among the used ones: the message at line   *)
(* 236 of BitmapManager is never logged.                                   *)
ReleasedWasUsed == \A t \in Threads : pc[t] = "unuse" => ref[t] \in used

(* The map `used`, which keeps its bitmaps from the collector, holds those *)
(* that some client, the release queue or a call still has, and no other:  *)
(* nothing leaks through getBitmap, reuse and releaseImpl.                 *)
UsedIsOwned ==
    used = {r \in Refs :
              \/ ClientsOf(r) # {}
              \/ \E t \in Threads : got[t] = r /\ pc[t] \in {"shrink", "recycle"}
              \/ \E t \in Threads : ref[t] = r /\ pc[t] = "unuse"}

(* removeOldRefs and shrinkPool recycle pooled bitmaps only: those in use  *)
(* or waiting in the release queue have their pixels.                      *)
UsedIsLive == \A r \in used : live[r]

Quiet == \A t \in Threads : pc[t] = "idle"

(* Between two calls both counters say what the used and the pooled        *)
(* bitmaps take: getBitmap, releaseImpl and the two ways to recycle agree. *)
CountersMatch ==
    Quiet => /\ memoryUsed = SumFunctionOnSet(height, used)
             /\ memoryPooled = SumFunction([i \in DOMAIN pool |-> height[pool[i]]])

(* Between two calls nothing is pooled beyond the memory limit, unless     *)
(* somebody brings bitmaps: addBitmap does not shrink the pool.            *)
LimitKept ==
    Adders = {} /\ Quiet => pool = <<>> \/ memoryUsed + memoryPooled <= Limit

(* A call of release() or clear() returns, though clients keep adding to   *)
(* the queue that it empties.                                              *)
CallsReturn == \A t \in Threads : call[t] # "none" ~> call[t] = "none"
===============================================================================
