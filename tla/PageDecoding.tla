----------------------------- MODULE PageDecoding -----------------------------
(***************************************************************************)
(* The page tree nodes of the viewer and the UI thread that drives them,   *)
(* composed with the decoder thread of DecodeExecutor.                     *)
(*                                                                         *)
(* The UI thread runs one event at a time: an event visits nodes, collects *)
(* those to be decoded, adds them to the progress counter and requests     *)
(* them one by one; between two of these steps the decoder thread may take *)
(* its own.  The decoder thread answers by posting a runnable that the UI  *)
(* thread runs between events.  Text search is left to DecodeExecutor.     *)
(*                                                                         *)
(* Images that are no longer shown go to the queue of BitmapManager; the   *)
(* decoder thread clears them before its next task.  That a low-memory     *)
(* event clears them on the UI thread is left to BitmapPool.               *)
(***************************************************************************)
EXTENDS DecodeExecutor, Integers, FiniteSets

CONSTANTS
    Roots,              \* the root nodes of the pages
    Place,              \* the slot of PageTree.treeNodes an object is made for
    Kin,                \* the parents and children an arriving image may recycle
    TextureReuse,       \* AppSettings.textureReuseEnabled
    ReloadDuringZoom    \* AppSettings.reloadDuringZoom

(* A view is here the zoom it is seen at.                                  *)
ASSUME ViewsAssumption == Views \subseteq Nat \ {0} /\ Views # {}
ASSUME NodesAssumption == IsFiniteSet(Nodes)
ASSUME RootsAssumption == Roots \subseteq Nodes
ASSUME KinAssumption == Kin \in [Nodes -> SUBSET Nodes]
ASSUME SettingsAssumption == {TextureReuse, ReloadDuringZoom} \subseteq BOOLEAN

(* Bitmaps objects are named after the task that created them.  What one   *)
(* shows is the zoom of an image, or Blank (erased), or Cleared: no bitmap. *)
Bitmaps   == 1 .. MaxTasks
NoBitmaps == 0
Unread    == MaxTasks + 1
Blank     == 0
Cleared   == -1

VARIABLES
    decodingNow,    \* PageTreeNode.decodingNow
    bitmapZoom,     \* PageTreeNode.bitmapZoom
    holder,         \* the Bitmaps a node shows, or NoBitmaps
    life,           \* a node object is new, in the tree or dropped by it
    content,        \* what a Bitmaps shows
    releasing,      \* BitmapManager.releasing
    sweeping,       \* whether the decoder thread empties it: no, yes or over
    target,         \* the Bitmaps decodeComplete read from the holder, or Unread
    posted,         \* the runnables of decodeComplete the UI thread has not run
    progress,       \* DecodingProgressModel.currentlyDecoding
    zoom,           \* ZoomModel.currentZoom
    initialZoom,    \* ZoomModel.initialZoom
    isCommitted,    \* ZoomModel.isCommited
    event,          \* the event the UI thread processes
    toVisit,        \* the nodes it has still to visit
    nodesToDecode,  \* the nodes it has still to request
    toRecycle       \* bitmapsToRecycle

nodeVars    == <<decodingNow, bitmapZoom, holder, life>>
decoderVars == <<content, sweeping, target, posted>>
zoomVars    == <<zoom, initialZoom, isCommitted>>
uiVars      == <<event, toVisit, nodesToDecode, toRecycle>>
pageVars    == <<vars, nodeVars, decoderVars, releasing, progress, zoomVars,
                 uiVars>>

Idle == [kind |-> "idle", committed |-> FALSE]

MinZoom == CHOOSE z \in Views : \A y \in Views : z <= y

PageInit ==
    /\ Init
    /\ decodingNow = [n \in Nodes |-> FALSE]
    /\ bitmapZoom = [n \in Nodes |-> MinZoom]
    /\ holder = [n \in Nodes |-> NoBitmaps]
    /\ life = [n \in Nodes |-> IF n \in Roots THEN "tree" ELSE "new"]
    /\ content = [b \in Bitmaps |-> Cleared]
    /\ releasing = {} /\ sweeping = "no"
    /\ target = Unread
    /\ posted = <<>>
    /\ progress = 0
    /\ zoom = MinZoom /\ initialZoom = MinZoom /\ isCommitted = TRUE
    /\ event = Idle
    /\ toVisit = {} /\ nodesToDecode = {} /\ toRecycle = {}

HasBitmaps(n) == holder[n] # NoBitmaps /\ content[holder[n]] # Cleared

(* BitmapManager.release(list) only adds to the queue.  A set stands for   *)
(* it: a Bitmaps is queued twice only if the decoder thread refilled it in *)
(* between, and that thread refills none before the queue is empty again.  *)
Release(bs) == releasing' = releasing \cup bs

-----------------------------------------------------------------------------
(* What an event does to a node.  Each operator determines the new values  *)
(* of the variables of nodes, progress, nodesToDecode, toRecycle and of    *)
(* the variables of the executor.                                          *)

executorUnchanged == UNCHANGED vars

\* A variant that decreases the counter whether or not the node is decoding.
StopNodeAlways(n) ==
    /\ decodingNow' = [decodingNow EXCEPT ![n] = FALSE]
    /\ progress' = progress - 1
    /\ StopDecoding(n)

(* stopDecodingThisNode with a reason.                                     *)
StopNode(n) ==
    IF decodingNow[n]
    THEN /\ decodingNow' = [decodingNow EXCEPT ![n] = FALSE]
         /\ progress' = progress - 1
         /\ StopDecoding(n)
    ELSE executorUnchanged /\ UNCHANGED <<decodingNow, progress>>

(* PageTreeNode.recycle *)
RecycleNode(n) ==
    /\ StopNode(n)
    /\ holder' = [holder EXCEPT ![n] = NoBitmaps]
    /\ toRecycle' = toRecycle \cup ({holder[n]} \ {NoBitmaps})
    /\ UNCHANGED nodesToDecode

(* PageTree drops what it recycles, except roots and hidden parents.  The  *)
(* object leaves its slot; the next visit of the slot creates another one. *)
InTree(n) == life[n] = "tree"

KeepObject(n) == life' = [life EXCEPT ![n] = "tree"]

DropObject(n) ==
    /\ n \notin Roots
    /\ InTree(n)
    /\ life' = [life EXCEPT ![n] = "dropped"]

(* decodePageTreeNode: only a node that is not being decoded is added.     *)
DecodeNode(n) ==
    /\ IF decodingNow[n]
       THEN UNCHANGED <<decodingNow, bitmapZoom, nodesToDecode>>
       ELSE /\ decodingNow' = [decodingNow EXCEPT ![n] = TRUE]
            /\ bitmapZoom' = [bitmapZoom EXCEPT ![n] = zoom]
            /\ nodesToDecode' = nodesToDecode \cup {n}
    /\ executorUnchanged
    /\ UNCHANGED <<progress, holder, toRecycle>>

(* EventZoomIn: a decoding at another zoom is stopped first.               *)
RedecodeNode(n) ==
    /\ decodingNow' = [decodingNow EXCEPT ![n] = TRUE]
    /\ bitmapZoom' = [bitmapZoom EXCEPT ![n] = zoom]
    /\ nodesToDecode' = nodesToDecode \cup {n}
    /\ IF decodingNow[n]
       THEN progress' = progress - 1 /\ StopDecoding(n)
       ELSE executorUnchanged /\ UNCHANGED progress
    /\ UNCHANGED <<holder, toRecycle>>

LeaveNode ==
    /\ executorUnchanged
    /\ UNCHANGED <<decodingNow, progress, nodesToDecode, bitmapZoom, holder,
                   toRecycle>>

ReDecodingRequired(n) ==
    IF event.committed THEN zoom # bitmapZoom[n]
                       ELSE ReloadDuringZoom /\ zoom > bitmapZoom[n]

(* A node the event keeps in memory.  Whether it is visible only matters   *)
(* to a zoom-out.  The other events only recycle: a page turned invisible, *)
(* an image that hides its parent or replaces its children, a reset, a     *)
(* closed document.                                                        *)
KeepNode(n) ==
    \/ /\ event.kind = "zoomIn"
       /\ IF ReDecodingRequired(n) THEN RedecodeNode(n)
          ELSE IF ~HasBitmaps(n) THEN DecodeNode(n) ELSE LeaveNode
    \/ /\ event.kind = "zoomOut"
       /\ \/ IF ~HasBitmaps(n) \/ event.committed THEN DecodeNode(n) ELSE LeaveNode
          \/ LeaveNode
    \/ /\ event.kind = "show"
       /\ IF ~HasBitmaps(n) THEN DecodeNode(n) ELSE LeaveNode

Visit(n) ==
    /\ n \in toVisit
    /\ toVisit' = toVisit \ {n}
    /\ \/ RecycleNode(n) /\ UNCHANGED bitmapZoom /\ (KeepObject(n) \/ DropObject(n))
       \/ KeepNode(n) /\ KeepObject(n)
    /\ UNCHANGED <<event, decoderVars, releasing, zoomVars>>

-----------------------------------------------------------------------------
(* Events *)

(* An event visits the object that a slot holds, or creates one for a slot *)
(* that is empty.  MaxTasks bounds the requests it can make.               *)
MayVisit(visits) ==
    /\ \A n \in visits :
          /\ life[n] # "dropped"
          /\ \A m \in Nodes \ {n} :
                Place[m] = Place[n] => ~InTree(m) /\ m \notin visits
    /\ nextId + Cardinality(visits) <= MaxTasks + 1

Start(kind, committed, visits) ==
    /\ event.kind = "idle"
    /\ ~isRecycled
    /\ event' = [kind |-> kind, committed |-> committed]
    /\ toVisit' = visits
    /\ UNCHANGED <<nodeVars, decoderVars, releasing, progress, nodesToDecode,
                   toRecycle>>

(* ZoomModel.setZoom and commit, answered by EventZoomIn or EventZoomOut.  *)
SetZoom(z, visits) ==
    /\ z # zoom
    /\ MayVisit(visits)
    /\ Start(IF z > zoom THEN "zoomIn" ELSE "zoomOut", FALSE, visits)
    /\ zoom' = z
    /\ isCommitted' = FALSE
    /\ UNCHANGED <<vars, initialZoom>>

CommitZoom(visits) ==
    /\ ~isCommitted
    /\ MayVisit(visits)
    /\ Start(IF zoom > initialZoom THEN "zoomIn" ELSE "zoomOut", TRUE, visits)
    /\ isCommitted' = TRUE
    /\ initialZoom' = zoom
    /\ UNCHANGED <<vars, zoom>>

(* AbstractEventScroll and EventReset without clearPages.                  *)
Show(visits) ==
    /\ MayVisit(visits)
    /\ Start("show", FALSE, visits)
    /\ UNCHANGED <<vars, zoomVars>>

(* EventReset with clearPages recycles every node before it shows any.     *)
Reset ==
    /\ Start("reset", FALSE, {n \in Nodes : InTree(n)})
    /\ UNCHANGED <<vars, zoomVars>>

(* The event releases what it recycled, counts what it will request ...    *)
EndVisit ==
    /\ event.kind \notin {"idle", "request"}
    /\ toVisit = {}
    /\ Release(toRecycle)
    /\ toRecycle' = {}
    /\ IF event.kind = "reset"
       THEN /\ event' = [kind |-> "show", committed |-> FALSE]
            /\ toVisit' \in {visits \in SUBSET Nodes : MayVisit(visits)}
            /\ UNCHANGED progress
       ELSE /\ event' = IF nodesToDecode = {} THEN Idle
                        ELSE [kind |-> "request", committed |-> FALSE]
            /\ progress' = progress + Cardinality(nodesToDecode)
            /\ UNCHANGED toVisit
    /\ UNCHANGED <<vars, nodeVars, decoderVars, zoomVars, nodesToDecode>>

(* ... and requests it, the nearest node first: any order of nodes.        *)
Request(n) ==
    /\ event.kind = "request"
    /\ n \in nodesToDecode
    /\ DecodePage(n, zoom)
    /\ nodesToDecode' = nodesToDecode \ {n}
    /\ event' = IF nodesToDecode = {n} THEN Idle ELSE event
    /\ UNCHANGED <<nodeVars, decoderVars, releasing, progress, zoomVars,
                   toVisit, toRecycle>>

\* A variant that recycles the service and forgets the pages.
CloseServiceOnly ==
    /\ event.kind = "idle"
    /\ Recycle
    /\ UNCHANGED <<nodeVars, decoderVars, releasing, progress, zoomVars, uiVars>>

(* DocumentModel.recycle: the service first, then every page.              *)
Close ==
    /\ event.kind = "idle"
    /\ Recycle
    /\ event' = [kind |-> "recycle", committed |-> FALSE]
    /\ toVisit' = {n \in Nodes : InTree(n)}
    /\ UNCHANGED <<nodeVars, decoderVars, releasing, progress, zoomVars,
                   nodesToDecode, toRecycle>>

(* The runnable of decodeComplete: shows the image and stops the decoding  *)
(* of the node object that asked, whichever task answers for it by now.    *)
(* Of an object the tree has dropped it sets the holder all the same.      *)

\* A variant that does not release the image it replaces.
ShowOver(r) ==
    /\ IF r.bitmaps = NoBitmaps
       THEN UNCHANGED holder
       ELSE holder' = [holder EXCEPT ![r.node] = r.bitmaps]
    /\ UNCHANGED releasing
    /\ decodingNow' = [decodingNow EXCEPT ![r.node] = FALSE]
    /\ progress' = IF decodingNow[r.node] THEN progress - 1 ELSE progress

ShowAndStop(r) ==
    /\ IF r.bitmaps = NoBitmaps
       THEN UNCHANGED <<holder, releasing>>
       ELSE /\ holder' = [holder EXCEPT ![r.node] = r.bitmaps]
            /\ Release({holder[r.node]} \ {NoBitmaps, r.bitmaps})
    /\ decodingNow' = [decodingNow EXCEPT ![r.node] = FALSE]
    /\ progress' = IF decodingNow[r.node] THEN progress - 1 ELSE progress

(* An image starts EventChildLoaded, which recycles the parents it hides   *)
(* and the children it replaces, even if its own node has been dropped.    *)
RunPosted ==
    /\ event.kind = "idle"
    /\ posted # <<>>
    /\ LET r == Head(posted) IN
       /\ ShowAndStop(r)
       /\ \E visits \in SUBSET {n \in Kin[r.node] : InTree(n)} :
             IF r.bitmaps = NoBitmaps \/ visits = {}
             THEN UNCHANGED <<event, toVisit>>
             ELSE /\ event' = [kind |-> "recycle", committed |-> FALSE]
                  /\ toVisit' = visits
    /\ posted' = Tail(posted)
    /\ UNCHANGED <<vars, bitmapZoom, life, content, sweeping, target, zoomVars,
                   nodesToDecode, toRecycle>>

UI ==
    \/ \E n \in Nodes : Visit(n) \/ Request(n)
    \/ \E visits \in SUBSET Nodes :
          \/ Show(visits) \/ CommitZoom(visits)
          \/ \E z \in Views : SetZoom(z, visits)
    \/ EndVisit \/ Reset \/ Close \/ RunPosted

(* PageTreeNode.finalize, once neither a task nor a runnable refers to a   *)
(* dropped object.  What is finalized counts as an object not created yet. *)
TasksKnown == {tasks[i] : i \in DOMAIN tasks} \cup Registered \cup {current}

IsReferred(n) ==
    \/ \E t \in TasksKnown \ {NoTask} : t.kind = "decode" /\ t.node = n
    \/ \E i \in DOMAIN posted : posted[i].node = n

\* A variant whose new objects have no zoom yet.
FinalizeUnset(n) ==
    /\ life[n] = "dropped"
    /\ ~IsReferred(n)
    /\ Release({holder[n]} \ {NoBitmaps})
    /\ holder' = [holder EXCEPT ![n] = NoBitmaps]
    /\ life' = [life EXCEPT ![n] = "new"]
    /\ bitmapZoom' = [bitmapZoom EXCEPT ![n] = 0]
    /\ UNCHANGED <<vars, decodingNow, decoderVars, progress, zoomVars, uiVars>>

Finalize(n) ==
    /\ life[n] = "dropped"
    /\ ~IsReferred(n)
    /\ Release({holder[n]} \ {NoBitmaps})
    /\ holder' = [holder EXCEPT ![n] = NoBitmaps]
    /\ life' = [life EXCEPT ![n] = "new"]
    /\ bitmapZoom' = [bitmapZoom EXCEPT ![n] = MinZoom]
    /\ UNCHANGED <<vars, decodingNow, decoderVars, progress, zoomVars, uiVars>>

-----------------------------------------------------------------------------
(* The decoder thread, with decodeComplete in place of its call *)

Post(b) == posted' = Append(posted, [node |-> current.node, bitmaps |-> b])

uiUnchanged == UNCHANGED <<nodeVars, progress, zoomVars, uiVars>>

(* BitmapManager.release: clears what is queued, one by one, while others  *)
(* add to the queue.  It runs before each task, after the last one and     *)
(* when memory runs out (BitmapManager.clear).                             *)
SweepOne ==
    /\ sweeping = "yes"
    /\ \E b \in releasing :
          /\ releasing' = releasing \ {b}
          /\ content' = [content EXCEPT ![b] = Cleared]
    /\ uiUnchanged
    /\ UNCHANGED <<vars, sweeping, target, posted>>

SweepEnds ==
    /\ sweeping = "yes"
    /\ releasing = {}
    /\ sweeping' = IF pc \in {"task", "done"} THEN "no" ELSE "over"
    /\ uiUnchanged
    /\ UNCHANGED <<vars, content, releasing, target, posted>>

(* Texture reuse reads the holder first and writes into what it read.      *)

\* A variant that reuses whatever the setting says.
ReadHolderAlways ==
    /\ pc = "complete"
    /\ sweeping = "no"
    /\ target = Unread
    /\ target' = holder[current.node]
    /\ uiUnchanged
    /\ UNCHANGED <<vars, content, releasing, sweeping, posted>>

ReadHolder ==
    /\ pc = "complete"
    /\ sweeping = "no"
    /\ target = Unread
    /\ target' = IF TextureReuse THEN holder[current.node] ELSE NoBitmaps
    /\ uiUnchanged
    /\ UNCHANGED <<vars, content, releasing, sweeping, posted>>

(* Bitmaps.reuse may refuse; then a new Bitmaps is made.                   *)
PostImage ==
    /\ pc = "complete"
    /\ sweeping = "no"
    /\ target # Unread
    /\ \E b \in {current.id, target} \ {NoBitmaps} :
          content' = [content EXCEPT ![b] = current.view] /\ Post(b)
    /\ target' = Unread
    /\ Deliver
    /\ uiUnchanged
    /\ UNCHANGED <<releasing, sweeping>>

(* Memory may run out, or a call may throw, in the middle of Bitmaps.reuse:*)
(* the image a node shows by then is partly gone, or erased.               *)
Spoil ==
    \/ UNCHANGED content
    \/ /\ target \in Bitmaps
       /\ \E c \in {Blank, Cleared} : content' = [content EXCEPT ![target] = c]

(* An OutOfMemoryError empties the queue before it is answered.            *)
RunOutOfMemory ==
    /\ pc \in {"page", "crop", "render", "finish", "complete"}
    /\ sweeping = "no"
    /\ sweeping' = "yes"
    /\ Spoil
    /\ uiUnchanged
    /\ UNCHANGED <<vars, releasing, target, posted>>

\* A variant that returns without telling the UI thread.
PostSilence ==
    /\ IF sweeping = "no" THEN target = Unread ELSE sweeping = "over"
    /\ Deliver
    /\ target' = Unread /\ sweeping' = "no"
    /\ uiUnchanged
    /\ UNCHANGED <<content, releasing, posted>>

(* No bitmap came out, or memory ran out in decodeComplete.                *)
PostNothing ==
    /\ IF sweeping = "no" THEN target = Unread ELSE sweeping = "over"
    /\ Deliver
    /\ Post(NoBitmaps)
    /\ target' = Unread /\ sweeping' = "no"
    /\ uiUnchanged
    /\ UNCHANGED <<content, releasing>>

(* Memory ran out before, or something else was thrown.                    *)
GiveUp ==
    /\ \/ sweeping = "no" /\ Spoil
       \/ sweeping = "over" /\ pc # "complete" /\ UNCHANGED content
    /\ Fail
    /\ target' = Unread /\ sweeping' = "no"
    /\ uiUnchanged
    /\ UNCHANGED <<releasing, posted>>

(* A task that was taken, and the end of the thread, begin with a sweep.   *)
Render ==
    /\ sweeping = "no"
    /\ \/ /\ TakeTask \/ Shutdown
          /\ sweeping' = "yes"
       \/ /\ \/ ClearSlots \/ FindNothing \/ BeginWait \/ WaitTimeout
             \/ Proceed \/ Skip \/ Finish
          /\ UNCHANGED sweeping
    /\ uiUnchanged
    /\ UNCHANGED <<target, content, releasing, posted>>

DecoderThread ==
    \/ Render \/ SweepOne \/ SweepEnds \/ ReadHolder \/ PostImage
    \/ RunOutOfMemory \/ PostNothing \/ GiveUp

PageNext == UI \/ DecoderThread \/ \E n \in Nodes : Finalize(n)

PageSpec == PageInit /\ [][PageNext]_pageVars

(* The decoder thread runs; the UI thread finishes the event it processes; *)
(* the message queue of the UI thread is in order, so that a runnable has  *)
(* its turn however many events the user makes.                            *)
ProcessEvent == EndVisit \/ \E n \in Nodes : Visit(n) \/ Request(n)

PageFairness ==
    /\ WF_pageVars(DecoderThread)
    /\ WF_pageVars(ProcessEvent)
    /\ SF_pageVars(RunPosted)

FairPageSpec == PageSpec /\ PageFairness

-----------------------------------------------------------------------------
(* Properties *)

PageTypeOK ==
    /\ TypeOK
    /\ decodingNow \in [Nodes -> BOOLEAN]
    /\ bitmapZoom \in [Nodes -> Views]
    /\ holder \in [Nodes -> Bitmaps \cup {NoBitmaps}]
    /\ life \in [Nodes -> {"new", "tree", "dropped"}]
    /\ content \in [Bitmaps -> Views \cup {Blank, Cleared}]
    /\ target \in Bitmaps \cup {NoBitmaps, Unread}
    /\ posted \in Seq([node : Nodes, bitmaps : Bitmaps \cup {NoBitmaps}])
    /\ releasing \subseteq Bitmaps /\ sweeping \in {"no", "yes", "over"}
    /\ progress \in Int
    /\ zoom \in Views /\ initialZoom \in Views /\ isCommitted \in BOOLEAN
    /\ event \in [kind : {"idle", "zoomIn", "zoomOut", "show", "recycle",
                          "reset", "request"},
                  committed : BOOLEAN]
    /\ toVisit \subseteq Nodes /\ nodesToDecode \subseteq Nodes
    /\ toRecycle \subseteq Bitmaps

\* The progress counter, which shows and hides the loading bar, counts the
\* nodes being decoded: it neither sticks above zero nor drops below it.
ProgressCounts ==
    progress = Cardinality({n \in Nodes : decodingNow[n]})
                 - (IF event.kind = "request" \/ event.kind = "idle" THEN 0
                    ELSE Cardinality(nodesToDecode))

\* What will clear decodingNow of a node: a request the event has still to
\* make, a live task, a task that is being answered, a runnable not yet run,
\* or the recycling of a closed document.
Awaited(n) ==
    \/ n \in nodesToDecode
    \/ decodingTasks[n] # NoTask /\ ~IsDead(decodingTasks[n])
    \/ pc \in Settled /\ current.node = n
    \/ \E i \in DOMAIN posted : posted[i].node = n
    \/ isRecycled /\ n \in toVisit

\* No node object is stuck: one that believes it is being decoded, and therefore
\* refuses further requests (decodePageTreeNode), has an answer on its way.
DecodingIsAwaited == \A n \in Nodes : decodingNow[n] => Awaited(n)

\* No image is lost: one that was rendered is held by a node object, on its way
\* to one, or in a list of what is to be released, although the decoder thread
\* may write into a Bitmaps that the UI thread recycles meanwhile, and an answer
\* may arrive at an object the tree has dropped.
NoImageLost ==
    \A b \in Bitmaps :
        content[b] \in Views =>
            \/ \E n \in Nodes : holder[n] = b
            \/ \E i \in DOMAIN posted : posted[i].bitmaps = b
            \/ b \in toRecycle \cup releasing

\* Without texture reuse what a node shows is not about to be cleared.  With it
\* this fails: a Bitmaps that was recycled may be refilled by reuse, shown again
\* and then cleared by the decoder thread's next sweep.
ShownIsNotReleased ==
    \A n \in Nodes : holder[n] \notin toRecycle \cup releasing

\* Over time: every decoding of a node comes to an end, and the bar with it.
DecodingEnds == \A n \in Nodes : decodingNow[n] ~> ~decodingNow[n]

\* A closed document ends quietly: thread ended, no runnable left, no node
\* being decoded, counter at zero.
Quiet ==
    /\ pc = "done" /\ posted = <<>> /\ event = Idle
    /\ progress = 0 /\ \A n \in Nodes : ~decodingNow[n]

CloseSettles == isRecycled ~> []Quiet

Rest ==
    /\ event = Idle /\ posted = <<>> /\ ~isRecycled
    /\ pc \notin Working \cup Settled
    /\ \A n \in Nodes : ~decodingNow[n] /\ (decodingTasks[n] = NoTask \/
                                            IsDead(decodingTasks[n]))

\* Behaviours in which every rendering succeeds.
UnfailingSpec ==
    PageInit /\ [][PageNext /\ ~GiveUp /\ ~PostNothing /\ ~RunOutOfMemory]_pageVars

\* At rest a node shows the image that was requested last: a task "canceled by
\* new one" (Executor.add) leaves the answer to the new one.  Where renderings
\* fail a node keeps its old image rightly, hence UnfailingSpec.
NewestIsShown ==
    Rest => \A n \in Nodes :
                (InTree(n) /\ HasBitmaps(n) /\ content[holder[n]] # Blank)
                    => content[holder[n]] = bitmapZoom[n]
=============================================================================
