-------------------------------- MODULE FzStore --------------------------------
(***************************************************************************)
(* The resource store of mupdf (fitz/res_store.c) and the allocator that   *)
(* empties it when memory runs out (fitz/base_memory.c).  Every function   *)
(* works under FZ_LOCK_ALLOC, and drops it while it frees an evicted value *)
(* or allocates a larger hash table: an action here is what a thread does  *)
(* between taking the lock and giving it back.                             *)
(*                                                                         *)
(* An item of the store stands for its value, and a value belongs to the   *)
(* key it is loaded for.  A key is an object of the document (pdf_store.c) *)
(* or that of a tile, a scaled copy of an image (pdf_image.c).  The key of *)
(* a tile is counted itself, and holds a reference to the image.           *)
(***************************************************************************)
EXTENDS FzHash

CONSTANTS
    Threads,
    Keys,
    Vals,       \* fz_storables; one with no references is free for a load
    Hashed,     \* keys for which make_hash_key returns 1
    ImageOf,    \* the image the key of a tile refers to; NoVal for other keys
    Weight,     \* itemsize of the value of each key
    MaxSize,    \* store->max, here a hard limit
    Phases,     \* 16
    Requests,   \* sizes the program allocates
    Word,       \* UINT_MAX + 1
    TableSize,  \* slots of a new table: 4096
    MaxKept     \* bound: values a thread holds when it asks for one more

ASSUME StoreAssumption ==
    /\ NoVal \notin Vals
    /\ Hashed \subseteq Keys /\ IsFiniteSet(Vals)
    /\ KeyOf \in [Vals -> Keys]
    /\ Weight \in [Keys -> Nat \ {0}]
    /\ Slot \in [Keys -> Nat]
    /\ {MaxSize, MaxKept, LoadTenths} \subseteq Nat
    /\ {Phases, Word, TableSize} \subseteq Nat \ {0}
    /\ Requests \subseteq 1 .. Word - 1
    /\ MaxSize < Word /\ \A k \in Keys : MaxSize + Weight[k] < Word
    /\ IsFiniteSet(Threads)

(* The keys of tiles are hashed, and no image is a tile.                   *)
Tiles == {k \in Keys : ImageOf[k] # NoVal}

ASSUME TileAssumption ==
    /\ ImageOf \in [Keys -> Vals \cup {NoVal}]
    /\ Tiles \subseteq Hashed
    /\ \A k \in Tiles : KeyOf[ImageOf[k]] \notin Tiles

(* A table never fills up, or the loops over it would not end.             *)
ASSUME TableAssumption ==
    (TableSize * LoadTenths) \div 10 + 1 < TableSize

VARIABLES
    lru,        \* the list from store->head to store->tail
    table,      \* store->hash
    size,       \* store->size
    refs,       \* fz_storable.refs
    keyRefs,    \* pdf_image_key.refs of the key made with each tile
    leaked,     \* references nobody gives back: to a value, or the key of a tile
    kept,       \* the values each thread has a reference to
    closed,     \* fz_empty_store has begun: the document is closing
    pc,         \* what each thread does when it has the lock again
    then,       \* what it allocates memory for
    wanted,     \* the key it loads, or the value it stores
    request,    \* size of its allocation
    phase,      \* phase of its scavenging
    need, count, \* tofree and count of ensure_space or scavenge
    prev,       \* the value ensure_space has pinned
    dropping,   \* the tile whose key the thread drops next
    grown       \* newsize of fz_resize_hash

storeVars == <<lru, table, size>>
spaceVars == <<need, count, prev>>
callVars  == <<then, wanted, request, phase, spaceVars, grown>>
keyVars   == <<keyRefs, leaked>>
vars      == <<storeVars, refs, keyVars, kept, closed, pc, dropping, callVars>>

Loading == {"create", "key", "store", "resize"}

IsTile(v) == KeyOf[v] \in Tiles
Image(v)  == ImageOf[KeyOf[v]]

TypeOK ==
    /\ lru \in Seq(Vals)
    /\ DOMAIN table \subseteq Nat /\ \A i \in DOMAIN table : table[i] \in Vals \cup {NoVal}
    /\ size \in Nat
    /\ refs \in [Vals -> Nat] /\ keyRefs \in [Vals -> Nat] /\ leaked \in [Vals -> Nat]
    /\ kept \in [Threads -> SUBSET Vals]
    /\ closed \in BOOLEAN
    /\ pc \in [Threads -> {"idle", "malloc", "scavenge", "store", "space", "failed",
                           "resize", "insert", "swap", "empty", "undefined"}]
    /\ then \in [Threads -> Loading \cup {"return"}]
    /\ wanted \in [Threads -> Keys \cup Vals \cup {NoVal}]
    /\ request \in [Threads -> 0 .. Word - 1]
    /\ phase \in [Threads -> Nat]
    /\ need \in [Threads -> 0 .. Word - 1] /\ count \in [Threads -> Nat]
    /\ prev \in [Threads -> Vals \cup {NoVal}]
    /\ dropping \in [Threads -> Vals \cup {NoVal}]
    /\ grown \in [Threads -> Nat]

Init ==
    /\ lru = <<>> /\ table = EmptyTable(TableSize) /\ size = 0
    /\ refs = [v \in Vals |-> 0] /\ keyRefs = [v \in Vals |-> 0]
    /\ leaked = [v \in Vals |-> 0]
    /\ kept = [t \in Threads |-> {}]
    /\ closed = FALSE
    /\ pc = [t \in Threads |-> "idle"]
    /\ then = [t \in Threads |-> "return"]
    /\ wanted = [t \in Threads |-> NoVal]
    /\ request = [t \in Threads |-> 0]
    /\ phase = [t \in Threads |-> 0]
    /\ need = [t \in Threads |-> 0] /\ count = [t \in Threads |-> 0]
    /\ prev = [t \in Threads |-> NoVal] /\ dropping = [t \in Threads |-> NoVal]
    /\ grown = [t \in Threads |-> 0]

(* A thread that has freed an item drops its key before it takes the lock  *)
(* for anything else.                                                      *)
At(t, label) == pc[t] = label /\ dropping[t] = NoVal

Goto(t, label) == pc' = [pc EXCEPT ![t] = label]

DropLater(t, v) == dropping' = [dropping EXCEPT ![t] = IF IsTile(v) THEN v ELSE NoVal]

(* The call of t returns: its local variables are gone.  One that stored a *)
(* tile drops its own reference to the key.                                *)
Return(t) ==
    /\ Goto(t, "idle")
    /\ IF then[t] \in {"store", "resize"} THEN DropLater(t, wanted[t])
                                         ELSE UNCHANGED dropping
    /\ then' = [then EXCEPT ![t] = "return"]
    /\ wanted' = [wanted EXCEPT ![t] = NoVal]
    /\ request' = [request EXCEPT ![t] = 0]
    /\ phase' = [phase EXCEPT ![t] = 0]
    /\ need' = [need EXCEPT ![t] = 0] /\ count' = [count EXCEPT ![t] = 0]
    /\ prev' = [prev EXCEPT ![t] = NoVal]
    /\ grown' = [grown EXCEPT ![t] = 0]

(* A thread goes on without the lock and unlocks a mutex that is not its   *)
(* own, or drops a key it never made: what any thread does from here on is *)
(* not defined.                                                            *)
Undefined ==
    /\ pc' = [t \in Threads |-> "undefined"]
    /\ UNCHANGED <<storeVars, refs, keyVars, kept, closed, dropping, callVars>>

WeightOf(v) == Weight[KeyOf[v]]

Place(v) == CHOOSE i \in DOMAIN lru : lru[i] = v

----------------------------------------------------------------------------
(* Evicting, from the tail of the list.                                    *)

\* A variant that takes what a thread still holds.
EvictableHeld(r) == {i \in DOMAIN lru : r[lru[i]] \in {1, 2}}

(* Places of the items that only the store refers to.                      *)
Evictable(r) == {i \in DOMAIN lru : r[lru[i]] = 1}

(* evict, up to where it drops the lock; DropKey is the rest.              *)
Evict(t, v) ==
    /\ DropLater(t, v)
    /\ lru' = RemoveAt(lru, Place(v))
    /\ size' = size - WeightOf(v)
    /\ table' = IF KeyOf[v] \in Hashed THEN HashRemove(table, KeyOf[v]) ELSE table

\* A variant that does not pin the item it goes on with.
PinnedNot(r, v, p) == [r EXCEPT ![v] = @ - 1]

(* The evicted value loses the reference of the store, p gains a pin.      *)
Pinned(r, v, p) ==
    [u \in Vals |-> r[u] - (IF u = v THEN 1 ELSE 0) + (IF u = p THEN 1 ELSE 0)]

(* ensure_space goes on with the item at place i, where refs are r.        *)
EvictAt(t, r, i, sofar) ==
    LET v == lru[i]
        p == IF i = 1 THEN NoVal ELSE lru[i - 1]
    IN  /\ Evict(t, v)
        /\ refs' = Pinned(r, v, p)
        /\ prev' = [prev EXCEPT ![t] = p]
        /\ count' = [count EXCEPT ![t] = sofar + WeightOf(v)]
        /\ Goto(t, "space")

(* A call of ensure_space: it frees enough or nothing.                     *)
EnsureSpace(t, r, tofree) ==
    LET weight == [i \in Evictable(r) |-> WeightOf(lru[i])]
    IN  IF SumFunction(weight) >= tofree
        THEN /\ EvictAt(t, r, Max(Evictable(r)), 0)
             /\ need' = [need EXCEPT ![t] = tofree]
        ELSE /\ Goto(t, "failed")
             /\ refs' = r
             /\ prev' = [prev EXCEPT ![t] = NoVal]
             /\ UNCHANGED <<storeVars, dropping, need, count>>

----------------------------------------------------------------------------
(* The allocator.                                                          *)

Allocate(t, n, use) ==
    /\ Goto(t, "malloc")
    /\ then' = [then EXCEPT ![t] = use]
    /\ request' = [request EXCEPT ![t] = n]
    /\ phase' = [phase EXCEPT ![t] = 0]

(* fz_malloc for anything but the store.                                   *)
Malloc(t, n) ==
    /\ At(t, "idle")
    /\ Allocate(t, n, "return")
    /\ UNCHANGED <<storeVars, refs, keyVars, kept, closed, dropping, wanted, spaceVars,
                   grown>>

(* A load makes its value, and fz_store_item allocates the item for it ... *)
Create(t) ==
    /\ pc[t] = "malloc" /\ then[t] = "create"
    /\ \E v \in Vals :
         /\ KeyOf[v] = wanted[t] /\ refs[v] = 0 /\ keyRefs[v] = 0
         /\ refs' = [refs EXCEPT ![v] = 1]
         /\ kept' = [kept EXCEPT ![t] = @ \cup {v}]
         /\ wanted' = [wanted EXCEPT ![t] = v]
    /\ Allocate(t, 1, IF wanted[t] \in Tiles THEN "key" ELSE "store")
    /\ UNCHANGED <<storeVars, keyVars, closed, dropping, spaceVars, grown>>

(* ... a tile is given its key first.                                      *)
MakeKey(t) ==
    /\ pc[t] = "malloc" /\ then[t] = "key"
    /\ keyRefs' = [keyRefs EXCEPT ![wanted[t]] = 1]
    /\ refs' = [refs EXCEPT ![Image(wanted[t])] = @ + 1]
    /\ Allocate(t, 1, "store")
    /\ UNCHANGED <<storeVars, leaked, kept, closed, dropping, wanted, spaceVars, grown>>

\* A variant that drops the image with each reference to the key.
DropKeyAlways(t) ==
    /\ dropping[t] # NoVal
    /\ keyRefs' = [keyRefs EXCEPT ![dropping[t]] = @ - 1]
    /\ refs' = [refs EXCEPT ![Image(dropping[t])] = @ - 1]
    /\ dropping' = [dropping EXCEPT ![t] = NoVal]
    /\ UNCHANGED <<storeVars, leaked, kept, closed, pc, callVars>>

(* pdf_drop_image_key: the last reference to a key gives back its image.   *)
DropKey(t) ==
    /\ dropping[t] # NoVal
    /\ keyRefs' = [keyRefs EXCEPT ![dropping[t]] = @ - 1]
    /\ refs' = IF keyRefs[dropping[t]] = 1
               THEN [refs EXCEPT ![Image(dropping[t])] = @ - 1]
               ELSE refs
    /\ dropping' = [dropping EXCEPT ![t] = NoVal]
    /\ UNCHANGED <<storeVars, leaked, kept, closed, pc, callVars>>

(* The allocator has memory for any other use.                             *)
Allocated(t) ==
    /\ pc[t] = "malloc"
    /\ \/ /\ then[t] = "return"
          /\ Return(t)
       \/ /\ then[t] \in {"store", "resize"}
          /\ Goto(t, then[t])
          /\ UNCHANGED <<dropping, callVars>>
    /\ UNCHANGED <<storeVars, refs, keyVars, kept, closed>>

(* The size the store may keep in a phase.                                 *)
Budget(p) == IF p >= Phases THEN 0 ELSE (MaxSize \div Phases) * (Phases - p)

(* The phases that fz_store_scavenge goes through from p on.               *)
PhasesFrom(p) ==
    {q \in p .. p + Phases : \A o \in p .. q - 1 : Budget(o) > 0}

Overflows(n) == n > Word - 1 - size

\* A variant without the width of unsigned int.
ToFreeSigned(n, p) == n + size - Budget(p)

(* What a phase frees for n bytes: an unsigned difference.                 *)
ToFree(n, p) ==
    IF Overflows(n) THEN Word - 1 - Budget(p) ELSE (n + size - Budget(p)) % Word

(* The phases that do not end at `continue'.                               *)
Scavenging(n, p) == {q \in PhasesFrom(p) : Overflows(n) \/ n + size <= Budget(q)}

ScavengeOne(t, sofar) ==
    LET v == lru[Max(Evictable(refs))]
    IN  /\ Evict(t, v)
        /\ refs' = [refs EXCEPT ![v] = 0]
        /\ count' = [count EXCEPT ![t] = sofar + WeightOf(v)]
        /\ Goto(t, "scavenge")

(* The allocator has no memory, and the store has some to give.            *)
Scavenge(t) ==
    /\ pc[t] = "malloc"
    /\ Scavenging(request[t], phase[t]) # {} /\ Evictable(refs) # {}
    /\ LET p == Min(Scavenging(request[t], phase[t]))
       IN  /\ need' = [need EXCEPT ![t] = ToFree(request[t], p)]
           /\ phase' = [phase EXCEPT ![t] = p + 1]
    /\ ScavengeOne(t, 0)
    /\ UNCHANGED <<keyVars, kept, closed, then, wanted, request, prev, grown>>

(* scavenge has the lock again, and starts over from the tail.             *)
Scavenged(t) ==
    /\ At(t, "scavenge")
    /\ IF count[t] < need[t] /\ Evictable(refs) # {}
       THEN ScavengeOne(t, count[t])
       ELSE Goto(t, "malloc") /\ UNCHANGED <<storeVars, refs, dropping, count>>
    /\ UNCHANGED <<keyVars, kept, closed, then, wanted, request, phase, need, prev,
                   grown>>

(* Neither has: the load fails, the value is not stored, a key is dropped  *)
(* that was not made, or the hash table throws into a catch clause that    *)
(* takes the lock for held.                                                *)
OutOfMemory(t) ==
    /\ pc[t] = "malloc"
    /\ Scavenging(request[t], phase[t]) = {} \/ Evictable(refs) = {}
    /\ \/ /\ then[t] \notin {"key", "resize"}
          /\ Return(t)
          /\ UNCHANGED <<storeVars, refs, keyVars, kept, closed>>
       \/ then[t] \in {"key", "resize"} /\ Undefined

----------------------------------------------------------------------------
(* The store.                                                              *)

\* A variant whose hit takes no reference.
HitUncounted(v) == UNCHANGED refs

Hit(v) == refs' = [refs EXCEPT ![v] = @ + 1]

ItemsOf(k) == {i \in DOMAIN lru : KeyOf[lru[i]] = k}

(* fz_find_item; a thread that misses loads the value.  It looks for tiles *)
(* of an image that it holds.                                              *)
FindItem(t, k) ==
    /\ At(t, "idle") /\ ~closed
    /\ Cardinality(kept[t]) < MaxKept
    /\ \A v \in kept[t] : KeyOf[v] # k
    /\ k \in Tiles => ImageOf[k] \in kept[t]
    /\ LET found == IF k \in Hashed THEN HashFind(table, k)
                    ELSE IF ItemsOf(k) = {} THEN NoVal
                    ELSE lru[Min(ItemsOf(k))]
       IN  IF found # NoVal
           THEN /\ lru' = <<found>> \o RemoveAt(lru, Place(found))
                /\ Hit(found)
                /\ kept' = [kept EXCEPT ![t] = @ \cup {found}]
                /\ UNCHANGED <<pc, callVars>>
           ELSE /\ wanted' = [wanted EXCEPT ![t] = k]
                /\ Allocate(t, Weight[k], "create")
                /\ UNCHANGED <<lru, refs, kept, spaceVars, grown>>
    /\ UNCHANGED <<table, size, keyVars, closed, dropping>>

(* fz_keep_storable, for a thread that is given a value of this one.       *)
KeepStorable(t, u, v) ==
    /\ At(t, "idle") /\ At(u, "idle") /\ v \in kept[t] \ kept[u]
    /\ Cardinality(kept[u]) < MaxKept
    /\ refs' = [refs EXCEPT ![v] = @ + 1]
    /\ kept' = [kept EXCEPT ![u] = @ \cup {v}]
    /\ UNCHANGED <<storeVars, keyVars, closed, pc, dropping, callVars>>

DropStorable(t, v) ==
    /\ At(t, "idle") /\ v \in kept[t]
    /\ refs' = [refs EXCEPT ![v] = @ - 1]
    /\ kept' = [kept EXCEPT ![t] = @ \ {v}]
    /\ UNCHANGED <<storeVars, keyVars, closed, pc, dropping, callVars>>

(* The end of fz_store_item: the value is entered in the table and in the  *)
(* list, with the reference to its key, unless the key is there by now.    *)
(* Then the store returns a reference to the value that is there.  It does *)
(* not give its reference to the key back.  decomp_image_from_stream uses  *)
(* the tile that is there; pdf_store_item asserts that there is none, and  *)
(* forgets it where assertions are compiled out, as in the release build.  *)
Enter(t) ==
    LET v == wanted[t]
        existing == IF KeyOf[v] \in Hashed THEN HashFind(table, KeyOf[v]) ELSE NoVal
    IN  /\ keyRefs' = IF IsTile(v) THEN [keyRefs EXCEPT ![v] = @ + 1] ELSE keyRefs
        /\ \/ /\ existing = NoVal
              /\ table' = IF KeyOf[v] \in Hashed THEN HashInsert(table, v) ELSE table
              /\ lru' = <<v>> \o lru
              /\ refs' = [refs EXCEPT ![v] = @ + 1]
              /\ Return(t)
              /\ UNCHANGED <<leaked, kept>>
           \/ /\ existing # NoVal /\ IsTile(v)
              /\ refs' = [refs EXCEPT ![existing] = @ + 1]
              /\ leaked' = [leaked EXCEPT ![v] = @ + 1]
              /\ kept' = [kept EXCEPT ![t] = @ \cup {existing}]
              /\ Goto(t, "swap")
              /\ UNCHANGED <<lru, table, dropping, callVars>>
           \/ /\ existing # NoVal /\ ~IsTile(v)
              /\ refs' = [refs EXCEPT ![existing] = @ + 1]
              /\ leaked' = [leaked EXCEPT ![existing] = @ + 1]
              /\ Return(t)
              /\ UNCHANGED <<lru, table, kept>>

\* A variant that counts the value before it makes room for it.
FitsAnyway(v) == size <= MaxSize

Fits(v) == size + WeightOf(v) <= MaxSize

(* fz_store_item with the lock, where the value fits.                      *)
StoreItem(t) ==
    LET v == wanted[t]
    IN  /\ pc[t] = "store" /\ Fits(v)
        /\ size' = size + WeightOf(v)
        /\ \/ /\ KeyOf[v] \in Hashed /\ TooFull(table)
              /\ grown' = [grown EXCEPT ![t] = 2 * SizeOf(table)]
              /\ Allocate(t, 1, "resize")
              /\ UNCHANGED <<lru, table, refs, keyVars, kept, dropping, wanted, spaceVars>>
           \/ /\ ~(KeyOf[v] \in Hashed /\ TooFull(table))
              /\ Enter(t)
        /\ UNCHANGED closed

MakeRoom(t) ==
    /\ pc[t] = "store" /\ ~Fits(wanted[t])
    /\ EnsureSpace(t, refs, size + WeightOf(wanted[t]) - MaxSize)
    /\ UNCHANGED <<keyVars, kept, closed, then, wanted, request, phase, grown>>

(* ensure_space has the lock again.  fz_store_item calls it once more when *)
(* it has freed enough, as it never looks at the new size of the store.    *)
MakeMoreRoom(t) ==
    LET r == [v \in Vals |-> refs[v] - (IF v = prev[t] THEN 1 ELSE 0)]
        Left == IF prev[t] = NoVal \/ count[t] >= need[t] THEN {}
                ELSE {i \in Evictable(r) : i <= Place(prev[t])}
    IN  /\ At(t, "space")
        /\ IF Left # {}
           THEN EvictAt(t, r, Max(Left), count[t]) /\ UNCHANGED need
           ELSE EnsureSpace(t, r, need[t])
        /\ UNCHANGED <<keyVars, kept, closed, then, wanted, request, phase, grown>>

(* The item is freed, its value stays with the caller only, and the key    *)
(* loses the reference that was taken for the item.                        *)
GiveUp(t) ==
    /\ pc[t] = "failed"
    /\ Return(t)
    /\ UNCHANGED <<storeVars, refs, keyVars, kept, closed>>

(* fz_resize_hash has its memory and the lock.  One that finds the table   *)
(* grown drops the lock, and its callers do not know.                      *)
ResizeHash(t) ==
    /\ pc[t] = "resize"
    /\ \/ /\ SizeOf(table) < grown[t]
          /\ table' = Resized(table, grown[t])
          /\ Goto(t, "insert")
          /\ UNCHANGED <<lru, size, refs, keyVars, kept, closed, dropping, callVars>>
       \/ SizeOf(table) >= grown[t] /\ Undefined

(* The old entries are freed.                                              *)
InsertItem(t) ==
    /\ pc[t] = "insert"
    /\ Enter(t)
    /\ UNCHANGED <<size, closed>>

(* The caller drops its tile for the one a racing thread has stored.       *)
UseExisting(t) ==
    /\ pc[t] = "swap"
    /\ refs' = [refs EXCEPT ![wanted[t]] = @ - 1]
    /\ kept' = [kept EXCEPT ![t] = @ \ {wanted[t]}]
    /\ Return(t)
    /\ UNCHANGED <<storeVars, keyVars, closed>>

(* fz_empty_store, called when a document closes: no other thread loads.   *)
CloseDocument(t) ==
    /\ pc[t] = "idle" /\ ~closed
    /\ \A u \in Threads :
          then[u] \notin Loading /\ (pc[u] = "idle" => dropping[u] = NoVal)
    /\ closed' = TRUE
    /\ Goto(t, "empty")
    /\ UNCHANGED <<storeVars, refs, keyVars, kept, dropping, callVars>>

EmptyStore(t) ==
    /\ At(t, "empty")
    /\ IF lru # <<>>
       THEN /\ Evict(t, Head(lru))
            /\ refs' = [refs EXCEPT ![Head(lru)] = @ - 1]
            /\ UNCHANGED <<pc, callVars>>
       ELSE Return(t) /\ UNCHANGED <<storeVars, refs>>
    /\ UNCHANGED <<keyVars, kept, closed>>

Next ==
    \E t \in Threads :
        \/ \E n \in Requests : Malloc(t, n)
        \/ \E k \in Keys : FindItem(t, k)
        \/ \E u \in Threads, v \in Vals : KeepStorable(t, u, v)
        \/ \E v \in Vals : DropStorable(t, v)
        \/ Create(t) \/ MakeKey(t) \/ DropKey(t) \/ Allocated(t)
        \/ Scavenge(t) \/ Scavenged(t) \/ OutOfMemory(t)
        \/ StoreItem(t) \/ MakeRoom(t) \/ MakeMoreRoom(t) \/ GiveUp(t)
        \/ ResizeHash(t) \/ InsertItem(t) \/ UseExisting(t)
        \/ CloseDocument(t) \/ EmptyStore(t)

Spec == Init /\ [][Next]_vars
----------------------------------------------------------------------------
(* Properties.                                                             *)

(* The references of a value are those of the threads that hold it, that   *)
(* of the store while it lists the value, one for every ensure_space that  *)
(* has pinned it, one for every key of its tiles, and those that are lost: *)
(* a value is freed by the last of them, and not before, whatever threads  *)
(* evict, find and drop at a time.                                         *)
KeysOf(v) == {u \in Vals : IsTile(u) /\ Image(u) = v /\ keyRefs[u] > 0}

RefsExact ==
    \A v \in Vals :
        refs[v] = Cardinality({t \in Threads : v \in kept[t]})
                    + Cardinality({i \in DOMAIN lru : lru[i] = v})
                    + Cardinality({t \in Threads : prev[t] = v})
                    + Cardinality(KeysOf(v))
                    + (IF IsTile(v) THEN 0 ELSE leaked[v])

(* The image of a tile lives as long as the store lists the tile, or a     *)
(* thread stores it or has to drop its key: the table is indexed by the    *)
(* address of the image, which nothing else may have by then.              *)
TileImagesLive ==
    \A v \in Vals :
        (IsTile(v) /\ (\/ v \in ToSet(lru)
                      \/ \E t \in Threads : \/ dropping[t] = v
                                            \/ then[t] = "store" /\ wanted[t] = v))
            => refs[Image(v)] > 0

(* What pdf_store_item asserts: the store never has the key of the value   *)
(* that it is given.                                                       *)
StoredIsNew == \A v \in Vals : ~IsTile(v) => leaked[v] = 0

(* The hash table holds the listed values of hashed keys and nothing else, *)
(* and finds each of them, after any insertions, removals and growth.      *)
HashAgrees ==
    /\ \A k \in Hashed :
         {lru[i] : i \in ItemsOf(k)} = {HashFind(table, k)} \ {NoVal}
    /\ Load(table) = Cardinality({i \in DOMAIN lru : KeyOf[lru[i]] \in Hashed})

(* The threads that have counted the size of a value they do not list yet. *)
Inserting == {t \in Threads : then[t] = "resize" /\ pc[t] # "swap"}

(* The size of the store covers its items and those under way, and stays   *)
(* below the maximum, though the lock is dropped in the middle of an       *)
(* insertion and sizes of items that turn out to exist are never taken     *)
(* back.                                                                   *)
SizeCovers ==
    LET listed == [i \in DOMAIN lru |-> WeightOf(lru[i])]
        entering == [t \in Inserting |-> WeightOf(wanted[t])]
    IN  /\ SumFunction(listed) + SumFunction(entering) <= size
        /\ size <= MaxSize

(* The item ensure_space goes on with after evict has dropped the lock is  *)
(* still an item of the store: neither scavenging nor another ensure_space *)
(* has freed it.                                                           *)
PinnedIsListed ==
    \A t \in Threads : prev[t] # NoVal => prev[t] \in ToSet(lru)

(* The store is a dictionary that frees nothing that is in use.            *)
Promise == INSTANCE StorePromise WITH
    dict <- ToSet(lru), live <- {v \in Vals : refs[v] > 0}, held <- kept, open <- ~closed

PromiseSpec == Promise!Spec
===============================================================================
