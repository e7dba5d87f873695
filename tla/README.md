# iBooks: a verification project in TLA+

iBooks is an Android reader for pdf, djvu, fb2 and comic books (package
`org.ebookdroid` with the helpers of `org.emdev`) and for epub, umd, html, chm
and ebk books (package `com.greenlemonmobile.app`). The directories under
`src/src` hold the Java code; `src/jni` holds thin bridges and the native libraries
they call, of which mupdf is the one with state that threads share.
The repository has no tests and its README is one line, so that everything here
is read from the code and its comments.

Notation: paths are relative to the repository; `DSB` is
`src/src/org/ebookdroid/core/DecodeServiceBase.java`.

## 1. Inventory

| Component | State it keeps | Operations | Talks to |
|---|---|---|---|
| Decoding executor (`DSB`, inner class `Executor`) | map `decodingTasks` node → task, slot list `tasks`, cancelled flags, `isRecycled` | `decodePage`, `stopDecoding`, `searchText`, `stopSearch`, `recycle`; the thread: `nextTask`, `performDecode`, `shutdown` | called by the UI and search threads; calls `PageTreeNode.decodeComplete` on its own thread |
| Page nodes and events (`PageTreeNode`, `PageTree`, `AbstractEvent*`, `Event*`, `ZoomModel`, `DecodingProgressModel`, `Bitmaps`) | `decodingNow`, `bitmapZoom` and the held `Bitmaps` of each node; the tree of nodes; current zoom; number of decodings | zoom, scroll, reset and close events; the runnable that shows an image | the executor, the bitmap pool, the loading bar |
| Bitmap pool (`BitmapManager`) | `used`, `pool`, `releasing`, generation, two memory counters | `getBitmap`, `addBitmap`, `release`, `clear` | every thread that draws, decodes or makes thumbnails |
| Viewer controllers and models (`AbstractViewController`, `DocumentModel`, ...) | view mode, current page, pages | layout, `goToPage`, `zoomChanged`, `recycle` | page events, settings |
| Viewer activity (`ViewerActivityController`) | the open book, background tasks | open, close, search, thumbnails | executor, settings, library |
| Surface drawing (`DrawThread`, `SurfaceView`) | queue of 16 view states, stop flag | `draw`, `finish` | UI thread, draw thread |
| Settings (`SettingsManager`, `DBAdapterV*`) | current book, cache of book settings, database | open, change, store, remove | all screens |
| Thread pool (`ThreadPool`, `PooledThread`) | task queue, threads and their queues, `running`, `hasIdleThread` | `offerTask`, dispatcher loop, thread loop | user tasks |
| User tasks (`ParallelTask`; `SerialTask` has no caller) | status, cancelled, invoked | `execute`, `cancel`, posting of results | thread pool, UI thread |
| Resource store and allocator of mupdf (`res_store.c`, `base_memory.c`, with its callers `pdf_store.c`, `pdf_image.c`) | list and table of decoded resources, their size, their references and those of the keys of tiles | `fz_store_item`, `fz_find_item`, `fz_keep_storable`, `fz_drop_storable`, `fz_store_scavenge`, `fz_empty_store` | every thread that loads or frees a page, each under `FZ_LOCK_ALLOC` |
| Hash table of mupdf (`base_hash.c`) | slots, load | find, insert, remove, resize | the store, the glyph cache |
| Glyph cache of mupdf (`draw_glyph.c`) | table of glyphs, total size | `fz_render_glyph`, evict all | rendering threads, fonts |
| Bridges (`jni/readium`) | one `fz_context` for each document; message queue of a DjVu context | JNI calls | codecs, native libraries |
| Epub reader (`WebReader`) | rendering and pagination queues, `mCurPendingTask`, chapter states, page position | open, navigate, re-paginate, callbacks from JavaScript | user tasks, web views, UI thread |
| Navigation history | two stacks of positions | update, back, forward | controllers |
| Touch, curl, cropping, drawing widgets | geometry | | not modelled |
| Codecs, parsers, local HTTP server, cache files, library screens, utilities, DjVu, CHM, image and font libraries | | | not modelled |

### What is hard in this code

* **Two threads share the executor.** Methods of `Executor` hold a lock, but the
  decoder thread works without it between two tasks of its own: it waits after
  unlocking (a notification in between is lost and only the 60 s limit of the
  wait helps), reads cancelled flags while clients set them, and hands its
  result to nodes the UI thread may have recycled.
* **Answers come late.** An image is shown by a runnable posted to the UI thread.
  Between request and answer the node may be zoomed, hidden, recycled, or its
  object dropped from the tree and another created in its place.
* **What is recycled is cleared later.** The UI thread only queues a `Bitmaps`; the
  decoder thread clears it before its next task, and may refill it before that.
* **Counters and flags in two places.** `decodingNow`, the progress counter and
  `decodingTasks` describe one fact and are changed by different steps.
* **Failure in the middle.** Rendering runs out of memory routinely; the error
  path must answer the node as the success path does.
* **A hand-made thread pool** whose dispatcher scans flags without a lock.
* **Daemons that share a field** (`mCurPendingTask`) with runnables of the UI
  thread in `WebReader`.
* **A lock dropped in the middle.** The store of mupdf gives its lock up while it
  frees what it evicts and while it allocates a larger table; the list it goes on
  with, the table it inserts in and the key it has found absent may have changed.
* **Caches that outlive what they cache** (book settings, bitmaps).

`PROJECT.json` lists each hazard at its line with the properties that cover it.

### What makes each component correct

* Executor: at most one live task for each node; no live request forgotten; no
  cancelled one started; a recycled service starts only its shutdown, and ends.
* Page nodes: a node that believes it is being decoded has an answer coming;
  the counter counts the nodes being decoded; no image is lost; a closed
  document becomes quiet; at rest a node shows what was asked last.
* Bitmap pool: a bitmap has one owner; counters match the collections.
* Thread pool: each task runs once; tasks run while threads are to be had.
* Store: a value lives exactly as long as somebody has it; list, table and size
  describe the same items; two loads of a key end with one entry.
* User tasks: the callbacks of one task come in a legal order, once.
* Epub reader: each navigation is answered with its own parameters;
  pagination results belong to the current layout.
* Draw queue: what is drawn last is the newest state.
* Settings: the cache never contradicts the database for the open book.

## 2. Modules

    RequestBoard                     what the decoding service promises
      ^ implemented by
    DecodeExecutor                   slots, flags, map, decoder thread
      |- DecodeExecutorRefinement    the mapping to RequestBoard
      |    `- DecodeExecutorProofs   type correctness, Inductive, the refinement
      `- PageDecoding                nodes, UI thread, progress; extends the executor
           `- PageDecodingProofs     its invariants, from those of the executor
    BitmapPool                       BitmapManager and its clients
      `- BitmapPoolProofs            owners, limit, `used', counters
    ThreadPool                       dispatcher and pooled threads
      `- ThreadPoolProofs            each task is in one place
    StorePromise                     what the resource store of mupdf promises
      |- StorePromiseProofs          what a caller of any such store may rely on
      ^ implemented by
    FzStore                          store, references, allocator; extends FzHash
      |- FzStoreProofs               its invariants, and that it keeps the promise
      `- FzHash                      the hash table, as operators on functions
           `- FzHashProofs           what search, insertion, removal, growth do
                `- FoldProofs        loops and sums: folds of the community modules
    MCDecodeExecutor, MCPageDecoding, MCBitmapPool, MCFzStore
                                     constants of the TLC runs

A definition that begins with the comment "A variant that ..." is a deliberately
wrong form of the definition after it; the mutants in `PROJECT.json` put it in
place of the right one to show that a property notices.

### DecodeExecutor

State: `decodingTasks`, `tasks` (with free slots, as in the `ArrayList`),
`cancelled` (the ids whose `AtomicBoolean` is set), `nextId` (`TASK_ID_SEQ`),
`isRecycled`, and for the thread `pc` and `current`. A search that has passed
the test of `isRecycled` and is not yet added is `searching`.

Each method of `Executor` runs under its lock and is one action: `DecodePage`
(`add(DecodeTask)`), `StopDecoding`, `AddSearch`, `StopSearch`, `Recycle`,
`TakeTask`/`ClearSlots`/`FindNothing` (the three outcomes of `nextTask`).
`SearchText` is separate from `AddSearch` because `searchText` reads
`isRecycled` without the lock. `BeginWait` is separate from `FindNothing`
because the lock is released in between; `Notify` wakes the thread only if it
waits. `performDecode` is `Proceed` from one cancellation test to the next,
`Skip` when the test finds the flag set, `Fail` for whatever is thrown
(`abortDecoding`), `Finish` for `finishDecoding`, and `Deliver` for the call of
`decodeComplete` that both end with.

Abstracted: `PageTreeNodeComparator` orders decode tasks by their distance from
the current view, which any node may win, so that `Candidates` leaves the choice
open; page cache, crop and page size are values no property speaks about. The
ids of tasks are a Java `long` and do not wrap within the life of a process.

### RequestBoard and DecodeExecutorRefinement

`RequestBoard` is what a client sees: `want`, one request or none for each node;
`serving`; `closed`. It has no slots, flags or threads. The mapping takes the
registered task of a node while its flag is not set as its wanted request, and
the decode task in the hands of the thread as `serving`. `Release` says that the
server gives a request up only when it is no longer wanted, `Take` that it starts
only wanted ones, and only on an open board. `Withdraw` has to be allowed to the server too, because
`finishDecoding` withdraws whatever is registered for its node: finding 1 below
is the price.

### PageDecoding

Extends `DecodeExecutor` by the node objects (`decodingNow`, `bitmapZoom`, `holder`,
`life`), the `Bitmaps` objects (`content`), the release queue (`releasing`), the
runnables posted to the UI thread, the progress counter, the zoom model and the
event in progress.

The UI thread processes one event at a time, as Android does, but an event is
many steps, because the decoder thread runs between them: `Visit` for each node
(`AbstractEvent.process(Page)`), `EndVisit` (release of what was recycled, increase
of the counter), then one `Request` for each node to be decoded. Which nodes an
event visits, which of them are visible, and which are to be recycled, is
geometry and left open. `SetZoom`, `CommitZoom`, `Show`, `Reset` and `Close`
start events; `RunPosted` is the runnable of `decodeComplete`, which may start
`EventChildLoaded`. On the decoder's side `ReadHolder`, `PostImage` and
`PostNothing` are `decodeComplete`; texture reuse reads the holder in one step
and writes into what it read in a later one.

A node is an object, as in `decodingTasks`, which is an `IdentityHashMap` (`DSB:401`):
`PageTreeNode.equals` plays no part. `Place` gives the slot of `PageTree.treeNodes` an
object is made for. It is new until an event visits its slot while that is empty,
then in the tree, and dropped when the tree forgets it; its task, its runnable and
its holder live on. Once neither task nor runnable refers to it, `Finalize` recycles
its holder, and the name may stand for an object not created yet. The model lets any
child be dropped, or kept, when it is recycled, which includes more than
`recycleChildren` does.

`Release` puts a `Bitmaps` in the queue of `BitmapManager`. The decoder thread empties
the queue, one `SweepOne` for each entry, after it has taken a task and before it
runs it (`DSB:425`), when it ends, and when memory runs out. Until then a queued
`Bitmaps` shows its image, may be filled again by a `decodeComplete` that read it from the
holder before, and may be posted and shown once more. That a low-memory event of the
UI thread empties the queue as well is left to `BitmapPool`.

### BitmapPool

State: `used`, `pool`, `releasing` and the two counters of `BitmapManager`; for
each `BitmapRef` its `height`, whether it has pixels (`live`) and its `age`
(generation minus `gen`, up to where it no longer matters); for each client what
it owns (`held`, `tile`); for each thread where it is in which call. All sizes are
of one width and configuration, so that a bitmap fits if it is high enough.

No method takes a lock, so that a call is many actions. `getBitmap` is `Look`
(the iterator finds an entry), `Take` (`it.remove`), `Enter`; or `Create` and the
loop of `shrinkPool`. `release()` is `removeOldRefs` (`FindOld`, `RecycleOld`),
the loop over `releasing` (`PollRef`, or `PollBitmaps` under the lock of the
`Bitmaps`, then `Unuse` and `AddToPool` for `releaseImpl`), and `shrinkPool`;
`clear` is `removeOldRefs`, `release()` and `shrinkPool(0)`. An iterator keeps its
entry, not its position: `at` follows it, and is 0 once the entry is gone,
when `it.remove` does nothing. A whole pass of the iterator over
bitmaps that do not fit is one step: entries are added at the end only, so that the
first fit a pass finds is the first fit at the moment it is reached. Tests of
`shrinkPool` and the poll after them are one step: a thread that finds the pool
emptied in between does nothing.

The clients are the holders of single bitmaps (`ReleaseRef`), `Bitmaps` (`Fill`
is `reuse` or the constructor and holds the lock until `getBitmap` has
returned), the holder of a node (`SetBitmap`, `RecycleHolder`) and the two
finalizers. A `BitmapRef` or `Bitmaps` to which nothing refers stands for
a new one, so that finite sets do for objects without end.

Who may call is a constant, because the answer depends on it. `Getters`: the
decoder, and with page curlers the drawing thread (`AbstractPageSlider.java:82`,
`SinglePageNaturalCurler.java:95`). `Drainers`: the decoder before each task,
the UI thread when a document closes (`DocumentModel.java:100`). `Cleaners`: the
decoder when memory runs out, the UI thread on low memory
(`iBooksReaderApp.java:47`). `Adders`: the one that stores a thumbnail.

### ThreadPool

One action for each step of the dispatcher (`PollTasks`, `PassOver`/`FindIdle`
for each flag it reads, `AddThread`, `BeginWait`, `StartTasks`) and of a pooled
thread (`Top`, `NotifyForIdleThread`, `Take`, `Mark`, `PopTask`, `EndTask`,
`BecomeIdle`). A task is the number it was offered with; both queues are
ordered newest first (`compareTo`). `setPoolSize`, `setMaxPoolSize`, `kill`,
`stopTasks`, `pauseTasks` and `clearTasks` are called nowhere and left out.
A task may be a daemon that never ends, as the two loops of `WebReader` are, which
are the only tasks of the program (`ParallelTask.java:257`).

### FzHash

A table is a function from slots to values. `Probe` is the loop that `fz_hash_find`
and `do_hash_insert` have in common; `HashRemove` closes the gap by the three-case
test of `fz_hash_remove` (`MayFill`), folded over the run behind the hole;
`Resized` inserts the old entries in order. The hash value of a key is a constant,
so that keys can be made to collide.

### FzStore and StorePromise

State: the list (`lru`), the table and the size of the store, `refs` of each value,
which values each thread has (`kept`), and for each thread where it is in its call
with the local variables that live across a dropped lock: `need`, `count` and the
pinned `prev` of `ensure_space` or `scavenge`, `newsize` of `fz_resize_hash`,
the phase of the scavenging allocator.

Every function works under `FZ_LOCK_ALLOC`; an action is what a thread does between
taking it and giving it back. `evict` drops it to free the value, hence `MakeRoom`
and then one `MakeMoreRoom` for each further item, which takes the pin off `prev` and
goes on towards the head from there; likewise `Scavenge` and `Scavenged`, and one
`EmptyStore` for each item of a closing document. `fz_resize_hash` drops it to
allocate and to free, hence `StoreItem`, `ResizeHash` and `InsertItem`. A load is
`FindItem` (a hit takes a reference and moves the item to the front), the allocation
of the value (`Create`) and of the item, then the insertion (`Enter`).
Any allocation may succeed, or go through the phases of `fz_store_scavenge` and
retry, or fail.

Two callers store values, and differ. `pdf_store.c` stores objects of the document
under their `pdf_obj`; it asserts that the key is not there by now. The release build
(`Application.mk:2`) has no assertions: the caller goes on with its own value, and the
reference to the stored one, taken for it at `res_store.c:270`, is counted in
`leaked`. `pdf_image.c` stores tiles, scaled copies of an image; it takes the tile
that is there and drops its own (`UseExisting`). The key of a tile has references of its
own (`keyRefs`), and is one to the image (`ImageOf`): `MakeKey` takes it, and `DropKey`,
the last part of `evict` and of the caller, gives it back after the lock has been
dropped. `dropping` is the tile whose key a thread has still to drop. The store never gives
back the reference it took to a key that turns out to be stored (`res_store.c:267`); this
too is counted in `leaked`. The decrement of a key and the drop of the image it
held, under two locks in a row, are one step; what the image itself refers to (its
mask and buffers) is not modelled.

`ToFree` is the unsigned difference of `fz_store_scavenge`, modulo `Word`.
A key that is not hashed is found by a walk over the list and may be entered twice,
as in the code. When a thread would unlock a mutex it does not hold, or drop a key
that it could not allocate (both below), the behaviour of the program is no longer
defined, and the model stops there: `pc` is `"undefined"` for all.

`StorePromise` has no list, table, size, references or lock: a dictionary that may
give up what it likes as long as the document is open and nobody has the value. The
mapping takes the listed values for the dictionary and those with references
for the ones that exist.

## 3. Runs

| Run | Instance | Shows |
|---|---|---|
| `decode_executor` | 2 nodes, 2 views, 1 pattern, 4 tasks, fair | `TypeOK`, `LiveIsRegistered`, `RegisteredIsPending`, `QueuedIsLive`, `OnlyShutdownAfterRecycle`, `SearchNotDropped`; `BoardSpec` (the refinement); `RequestSettles`, `SearchSettles`, `RecycleTerminates` |
| `page_decoding` | a root and two objects of one place below it, 2 zooms, 2 tasks | `PageTypeOK`, `ProgressCounts`, `DecodingIsAwaited`, `NoImageLost` |
| `page_decoding_live` | one root, 2 zooms, 3 tasks, no texture reuse, fair | `ShownIsNotReleased`, `DecodingEnds`, `CloseSettles` |
| `page_decoding_newest` | one root, no rendering fails | violation of `NewestIsShown` |
| `bitmap_pool` | decoder calls everything, UI thread queues; 3 bitmaps of 2 heights, 1 `Bitmaps`, limit 3, fair | `TypeOK`, `OneOwner`, `UsedIsOwned`, `UsedIsLive`, `CountersMatch`, `LimitKept`, `CallsReturn` |
| `bitmap_pool_low_memory` | decoder gets and releases, UI thread clears, which includes a release, and adds; 3 bitmaps of 1 height, 1 `Bitmaps`, limit 2 | `OneOwner`, `ReleasedWasUsed` |
| `bitmap_pool_curler` | two threads get bitmaps | violation of `ReleasedWasUsed` |
| `thread_pool` | 1 to 2 threads, 4 tasks, fair | `TypeOK`, `EachTaskOnce`, `OfferedEnds` |
| `thread_pool_wait` | 1 to 2 threads, 4 tasks | violation of `WaitsForBusyThread` |
| `thread_pool_parallel` | 1 to 2 threads, 2 tasks, one a daemon, fair | violation of `RunsInParallel` |
| `mupdf_store` | 2 threads, an image and a tile of it, which collide and which both threads may load at once, one key that is not hashed; 5 values | `TypeOK`, `RefsExact`, `TileImagesLive`, `HashAgrees`, `SizeCovers`, `PinnedIsListed`; `PromiseSpec` (the refinement) |
| `mupdf_store_assertion` | as `mupdf_store` | violation of `StoredIsNew` |

Bounds. `MaxTasks` bounds how many tasks a behaviour creates. Four are enough
for a task in the thread's hands, one that replaces it, one for another node
and a shutdown or search, which is every kind of meeting the executor knows; two
nodes are needed for an effect on the wrong one, two views to tell a repeated
request from a new one. In `PageDecoding` the root, its children and two tasks show what
parents and children do to each other, and the late task of a dropped object meets that
of the object created in its place. The two objects are symmetric; TLC takes about three
minutes. Liveness is checked for the root alone, with a third task, which replaces the
second while the first is on its way, and without texture reuse: reuse decides which
`Bitmaps` is filled, not whether a node is answered, and is part of the safety run.
Four tasks and two threads are more tasks than the pool can run at once with one
waiting. The slot list grows no longer than the number of tasks. Deadlock is not
checked: every instance stops when its tasks are used up, and the code stops
when its service is recycled.

In `BitmapPool`, three bitmaps are one in the decoder's hands, one shown and one
pooled, which with two heights and a limit of three makes the pool fit, miss,
grow old and shrink; `Threshold = 1` makes a bitmap old after two releases
instead of eleven. `MaxHeld` bounds the single bitmaps of a thread, `MaxQueue` the
length of the queue beyond which the UI thread does not add. `MaxDrift` stops further
calls once `memoryPooled` is below zero, which happens only with two callers:
the races that subtract a size twice would else make the states infinite.

In `mupdf_store`, two values for the image and two for its tile let two threads load
either at a time. The table starts with three slots of which a second entry is too many
(`LoadTenths`, 8 in the code), so that it grows while others come and go; both keys
hash to its last slot, so that runs wrap around. `MaxSize = 3` with a value of size 3
makes the store evict one item, several, or in vain. Three phases and words of three
bits (`Phases`, `Word`) make the unsigned difference wrap and the phases end.
`MaxKept = 2` bounds what a thread has when it asks for more: a tile needs one, its image.
Threads and the two values of the tile are symmetric; those of the image are not, as the
tile holds one of them.

Symmetry of bitmaps is used in the two runs of the pool without liveness.

Fairness. `WF(Decoder)`: the decoder thread is an ordinary runnable thread, its
wait is limited to a minute, and native rendering is taken to return or throw.
`WF(AddSearch)`: a client in the middle of `searchText` goes on. In
`PageDecoding`, `WF(ProcessEvent)`: an event is a finite loop on the UI thread;
`SF(RunPosted)`: the message queue of the UI thread is a queue, so that a
runnable has its turn however many events the user makes meanwhile. No fairness
is assumed of users. In `ThreadPool` dispatcher and threads are fair and
every task that is not a daemon ends. In `BitmapPool` a thread in a call goes on;
nobody has to make one. No liveness is claimed of the store: two threads that evict and
load in turn may keep a third waiting for room, and nothing in the code prevents it.

### Findings

1. `page_decoding_newest`: `finishDecoding` (`DSB:328`) stops whatever task is
   registered for the node. A request made after the last `isTaskDead` of the
   running task is cancelled as "complete"; the node shows the image of the old
   zoom, at rest, and nothing asks again.
2. `thread_pool_wait`: `hasIdleThread` is reset after the scan
   (`ThreadPool.java:106`); a notification in between is lost and the dispatcher
   waits while all threads are idle.
3. `thread_pool_parallel`: a thread counts as idle until it has taken its task
   (`PooledThread.java:101`); two tasks may be given to one thread, and if the
   first is a daemon the second never starts.
4. `bitmap_pool_curler`: two threads in `getBitmap` may get the same pooled bitmap
   (`BitmapManager.java:96`): a page and a curler draw into the same pixels. It is
   released twice, which line 236 logs as an error, and is in the pool twice from
   then on, to be given out twice again.
5. `mupdf_store_assertion`: two threads miss the same object of the document and load it
   both. `pdf_store_item` asserts that the store then has no value for it
   (`pdf_store.c:60`); the release build forgets the reference it is given, and the stored
   value is never evicted again.

Seen while modelling, with `ShownIsNotReleased` and `TextureReuse = TRUE`, which is
what the application ships with if its user does not turn it off: a decoder thread in
`decodeComplete` has read the `Bitmaps` of a node from the holder; the UI thread recycles
the node, which queues the `Bitmaps`; the decoder fills it, posts it and it is shown; the next task
begins with `BitmapManager.release`, which clears what is now shown
(`BitmapHolder.reuse`, `PageTreeNode.java:269`). The node then has no bitmaps and is decoded
again by the next event, and no comment promises otherwise; hence the
property is claimed without reuse only.

Seen while modelling, without a run: a `clear` on low memory between line 95 and
line 96 of `getBitmap` makes it return a bitmap without pixels; the constructor of
`Bitmaps` throws before it has stored the tile, and the map `used` keeps it for
ever. Such races also subtract a size from `memoryPooled` twice. Hence
`UsedIsLive`, `UsedIsOwned` and `CountersMatch` are claimed for one caller only.
`addBitmap` does not shrink the pool. `getResource` never stores what it loads.
A bitmap used for more than ten releases is recycled by the first release after it
is pooled, because its `gen` dates from when it was handed out.

In the native code, also without a run: the loop of `fz_store_item`
(`res_store.c:229`) never looks at the size again, so that after `ensure_space` has
freed enough it is called until it fails: a store that is full gives up what nobody
uses and then does not store the value. The test of `fz_store_scavenge`
(`res_store.c:545`) is inverted: phases in which the store is over its budget are passed over,
and the difference of the others is negative, which as an unsigned number
empties the store, against `fitz-internal.h:354`. The size of a value that turns out
to be stored already is never taken back (`res_store.c:268`), nor is the reference to its key
(lines 267 to 274, and 260 to 266 where the insertion throws): an image whose tile two
threads have loaded at once is never freed. If the key of a tile cannot be
allocated, `pdf_image.c:215` drops it all the same, though the comment of line 196 says that nothing
is cached then. A thread that loses
the race to grow the table returns unlocked (`base_hash.c:162`) into callers that
unlock again; a failing allocation there, and a type 3 glyph that throws
(`draw_glyph.c:175`), end in a second unlock as well. The bridge shares one
`fz_context` between threads, against `fitz.h:282`, and DjVu is built with
`NOTHREADS`, which makes its monitors no locks.

In `WebReader`: requests are served newest first, so that the older of two wins;
`mPageNavigating` stays set when there is no pagination yet (line 1977).

## 4. Proofs

All by TLAPS, for every value of the constants that meets the assumptions:
`MaxTasks` is a natural number and `NoTask` no task; for `PageDecoding` the nodes are
finitely many and the zooms positive numbers; for `BitmapPool` and `ThreadPool`
sizes are natural numbers, callers are threads, and a pool may have a thread; for
`FzStore` the threads are finitely many, a new table has a free slot beyond its load
limit, tiles are hashed and no image is a tile, and the limit of the store and the size of a value are below `Word` together:
both are `unsigned int`, and the value has been allocated in the same address space.

### DecodeExecutor

* `TypeCorrect`: `Spec => []TypeOK`. Its core are lemmas about the slot list
  (`PutProperties`, `WithoutProperties`): what adding and removing keeps.
* `Inductive` is the invariant the rest follows from: `TypeOK`, `LiveRegistered` (a
  live pending task is the registered one), `RegistrationsKeyed` (a registration
  names its node and has a past id), `RegisteredIsPending`, `ShutdownAhead`.
  `LiveIsRegistered` alone is inductive with the type. `RegisteredIsPending` is
  not: without `RegistrationsKeyed`, stopping one node might remove the task of
  another, and a new task might equal the one it replaces. For
  `OnlyShutdownAfterRecycle` one must know that the shutdown is still
  queued when the thread looks for work, which is `ShutdownAhead`. The lemmas
  `QueuedAfter...` give the effect of each action on the set of queued tasks, so
  that the invariants are proved without indices.
* `LiveTaskIsRegistered`, `NoRequestForgotten`, `ShutdownComesFirst` follow.
* `ExecutorImplementsBoard`: `Spec => BoardSpec`. `Linked` adds to `Inductive` that
  queued tasks are live (else `Take` would start a withdrawn request), that a
  finished or aborted task is cancelled (else `Deliver` would be no `Release`), that
  a recycled service wants nothing (else the thread could `Take` from a closed
  board), that cancelled ids are past (a new task is not born dead), and that
  registered ids are distinct (cancelling one node's task leaves the others).
  Then one step lemma for clients and one for the thread.
* `QueuedTasksAreLive`: `Spec => []QueuedIsLive`.
* `SearchesAreKept`: `Spec => SearchNotDropped`, an action property from type correctness
  and the lemmas `QueuedAfter...`: what the other actions remove from the slots is
  registered for a node, and searches never are.

### PageDecoding

* `PageDecodingIsExecutor`: `PageSpec => Spec`. Each step of the composition is one of
  the executor or leaves it alone; hence `Inductive` and `Linked` hold in it, and
  the proofs below start from them.
* `PageTypeCorrect` needs that ids of tasks are below the bound (`TaskIds`), that an
  event visits before it requests and marks what it requests (`Shape`).
* `ProgressIsExact`: the nodes counted are those with `decodingNow` less the ones an
  event has marked and not yet counted; each of the steps that reset the flag, on
  either thread, changes one node and the counter together.
* `NoNodeIsStuck`: a node object that is being decoded is due one of a registered live
  task, a task in hand that will deliver, a posted runnable, an event about to request, or a
  visit of the closing document. `Due` says so in terms of the board of `RequestBoard`, so that
  `Linked` applies: a task that replaces another is itself registered. Registrations are
  those of objects, so that no step for a dropped object touches the due of another; and a
  dropped object is not forgotten while anything is due to it.
* `ImagesAreKept`: a step that takes an image from where it is puts it somewhere else;
  the sweep takes it from the queue and clears it in one.

### BitmapPool

`BitmapPoolTypeCorrect` holds whoever calls: a thread at a step that uses a bitmap
has one (`HasRef`, `HasGot`), in a call to which the step belongs (`Staged`).
`BitmapHasOneOwner` and `ReleasedIsFound` assume that there is one getter, which is
scroll reading; finding 4 shows that it is needed. `Inductive` says that each bitmap is
in one place at most of five (`SoleOwners`: single, tile, release queue, in the hands of
a call, pool), that an iterator whose entry is gone holds a bitmap nobody
has (`Iterating`), and that what is owned or queued is in `used` (`UsedCovers`). One
lemma for each way a bitmap moves from a place to another, and one for steps that
move none. The assumption is used in `Take` alone.

`LimitIsKept` holds for any threads. Between calls is too weak to be kept by a step:
`Below` says the same whenever no thread is in a part of a call that ends in
`shrinkPool` (`Calm`). Such a part ends when the sum is within the limit or the pool
is empty, and what other threads do meanwhile, `Take` and `Enter`, moves a height from one
counter to the other. The test of the limit and the poll are one step here (see
section 2), so that the theorem says nothing of a `shrinkPool` that works on counters
which another thread is just changing.

`UsedIsExact`, `UsedHasPixels` and `CountersAgree` assume `OneCaller`: one thread gets,
adds, drains and clears. In scroll reading that is the decoder, as in the run
`bitmap_pool`, until the UI thread closes the document or runs low on memory; any
thread may give bitmaps back, and show, drop and finalize nodes meanwhile. The races
listed under Findings break them otherwise. `CallerInv` adds to `Inductive`:

* `Hands`: the entry that the caller is about to remove is at its iterator, one polled by
  `shrinkPool` is no longer in use or pooled, one found to fit has its pixels until
  it is in use, and the `Bitmaps` being filled has no tile. Without it a recycled
  bitmap could be one in use, and `Return` could lose a tile that `used` keeps.
* `UsedOwned`: who is in `used` has a client, is queued or is in the hands of the call. It is
  the converse of `UsedCovers`; both together are `UsedIsOwned`.
* `UsedIsLive` itself, which `Return` needs: the bitmap is handed out, not lost.
* `Counted`: `memoryUsed` is the sum over `used`, and `memoryPooled` the sum over
  `Owed`: what is pooled and what a call has taken out of the pool and neither put in use
  nor recycled. `SumAdd` and `SumRemove` of `FoldProofs` follow one bitmap in or out. At
  the end `Owed` is the pool, whose entries are distinct by `SoleOwners`, and
  `SumReindexed` turns the sum over bitmaps into the sum over places.

### ThreadPool

`PoolTypeCorrect` and `NoTaskLostOrDoubled`. `Inductive` says that each task
offered has one place and others none, that whoever has a task shows it in
its program counter (`InHand`), that the dispatcher gives to a thread that exists
(`HasThread`), and that threads not yet made do nothing (`Unborn`).

### FoldProofs

`FoldSet`, `FoldSeq` and `SumFunctionOnSet` are folds, which are recursive functions
chosen by their equation, and say nothing until one is known to exist. The induction
theorems of the library take an operator as parameter and cannot be used here. The
induction is stated with sets instead: a set of naturals that has 0 and, with `n`, also
`n + 1`, is `Nat` (`NatSetInduction`, from the least element of its complement), and likewise
for sets of subsets. `FoldExists` applies it to the numbers `n` such that the equation has
a solution on the subsets of at most `n` elements. From it follow the loop over a sequence
(`LoopExists`, `LoopInvariant`), and the sum with what a sum is used for: equal terms, one
term more or less, a part is no more than the whole.

### FzHash

For every table size, load factor and hash function. `WellFormed` says that each entry
can be found: from its home slot to where it is there is no empty slot (`Reachable`),
and no key is there twice (`Distinct`). Then `HashFind` is exact, `HashInsert` adds
one entry, `Resized` keeps all of them. The hard one is `HashRemove`. Its
loop is proved with the invariant `Filled`: between two turns the table is well formed but for
one hole, which may lie on the way of entries not yet looked at. `MayFill`, the
three-case test of line 249, is proved to be "the way from its home to the entry
leads over the hole" (`Dist`), whether or not it wraps; a passed-over entry is thus
never cut off by a later move (`WayAround`), and a move shortens a way (`WayShorter`).

### FzStore

`KeyedInv` is the inductive invariant: `StoreInv` and two conjuncts about the keys of
tiles. The invariants of the runs are not inductive. `StoreInv` has

* `Control`: where a thread is in its call tells what it allocates for, and a pin is
  held only inside `ensure_space`.
* `Loads`: what a thread is about to list is its own: it is not listed, nobody else stores
  it, and the thread has no other value of the key; while it makes the key of a tile it
  holds the image. Without it two threads might
  list one value, and `ListedOnce`, on which exact references rest, fails.
* `TableListed`: the table is well formed and has the listed values of hashed keys. It
  replaces `HashAgrees`, which says only what a search returns.
* `TableHasRoom`: the loops over the table end only if it has an empty slot, though
  several threads may have passed the test of the load and not inserted yet
  (`Pending`): a table doubled `j` times has room for `j` insertions beyond the one that
  finds it too full (`Room`), and a thread inserts without a test only after a
  growth of its own.
* `SizesCovered`: the size covers the listed values and those that have been counted and
  go through the growth of the table (`Counted`). It replaces `SizeCovers`.
* `RefsExact`, `PinnedIsListed` and `TypeOK`.

`KeyedInv` adds `KeysExact`: the references of the key of a tile are one for the
thread that stores it, one for the list, one for each thread that has still to drop one,
and the lost ones; and `KeysUnmade`: a key in the making has none yet. `DropKey` needs them,
as it gives the image back exactly when the last reference to the key goes. Invariants of
each step are proved in two halves for that reason: `StoreNext` under `KeyedInv` for
`StoreInv`, `KeysNext` for the keys.

Each operation moves one reference, one item or one size, so one lemma each says what
that does to list, table, size and references (`EvictEffect`, `EnterEffect`, `FrontEffect`,
`RefsStep`), and the steps of threads follow. From `StoreInv`: `StoreTypeCorrect`,
`ReferencesAreExact`, `PinsAreListed`, `TableAgrees`, `SizeIsCovered`; from `KeysExact` with
them `TileImagesAreLive`.

`StoreKeepsPromise`: `Spec => PromiseSpec`, the refinement. A value is live in the
promise when it has references; what a thread or the list has (`Reached`) is live by exact
references, and a value that only a key of a tile or a lost reference keeps is freed
later than it might be, which the promise allows (`Free`). So a step
is mapped by what it does to the list and to `kept` alone: `Hit`, `Enter`,
`Evict` and dropping map to the actions of the promise, and the rest to
stutters. This is where what the lock protects, and what it does not, is settled
for any number of threads.

### StorePromise

`NothingInUseIsFreed`, `RacingLoadsShareOneEntry`: what the promise means to a caller. They
hold of every store that implements the promise, and `FzStore` does by `StoreKeepsPromise`.

### Only model-checked

All liveness, for `ENABLED` has no rules in TLAPS: `RequestSettles`, `SearchSettles`,
`RecycleTerminates`, `DecodingEnds`, `CloseSettles`, `CallsReturn`, `OfferedEnds`. Of the
invariants and action properties of the passing runs all have a theorem but
`ShownIsNotReleased`, which is of one setting and is left to the plan.

## 5. Plan

In this order; each module with its runs, and proofs where noted.

1. `GlyphCache`, on `FzHash`: its lock is dropped while a type 3 glyph is drawn, which
   may draw glyphs itself; references of pixmaps and fonts are exact, a cached
   glyph keeps its font, the total covers what is cached.
2. `UserTask` on top of `ThreadPool`: status, cancellation, messages to the UI thread,
   interrupts, tasks that throw; order and number of callbacks.
3. `WebReader` on top of `UserTask`: both queues, `mCurPendingTask`, chapter states,
   re-pagination and kill.
4. `PageTree`: sparse array, `maxNodeId`, dropping of children and grandchildren, ids
   as numbers.
5. `BookLifecycle`: open, search and close of a book, with the search task that waits
   for an answer, composed with `RequestBoard` in place of the executor.
6. `DrawQueue`, `SettingsManager`, `Navigation`: small modules, the newest state is drawn,
   cache agrees with database, back and forward are inverse.
7. Proofs: `ShownIsNotReleased` without texture reuse; `PageDecoding` once more over `RequestBoard`; which of the three theorems about
   one caller survive when another thread only clears.

## 6. Not modelled

Most lines of the repository are C and C++ of third parties and the tables they
include: character maps, fonts, scaling kernels, image and font decoders. They are functions
of their input that keep nothing between calls, and nothing of them but the store,
its table and its allocator is modelled, so that the modelled share of all lines is
small. The bridges convert arguments; where two threads meet in one of them, or in the
DjVu library, the outcome is a data race or a `longjmp` into another thread's frame,
for which there is no outcome to choose from.

Parsers, HTTP server, file caches and database adapters are input and output;
gestures, page curl, cropping and layout are arithmetic on coordinates; then screens
and widgets. `SerialTask`, `FileSystemScanner` and the listeners for changed
settings have no caller. The page cache of the decoding service and the creation of
thumbnails, which call it from other threads, are outside `DecodeExecutor`. Of the store,
`fz_remove_item` has no caller, and the store without a limit is not used.
