--------------------------- MODULE PageDecodingProofs ---------------------------
(***************************************************************************)
(* Proofs about the page nodes and the UI thread that drives them.         *)
(*                                                                         *)
(* The composed system is an executor whose clients are the events of the  *)
(* UI thread, so that all that is proved of the executor holds in it       *)
(* (PageDecodingIsExecutor).  The invariants of the nodes follow from      *)
(* those of the executor, from the order in which an event works (Shape)   *)
(* and from each other.                                                    *)
(***************************************************************************)
EXTENDS PageDecoding, DecodeExecutorProofs, FiniteSetTheorems

-----------------------------------------------------------------------------
(* The composition is an executor *)

ZoomTyped == zoom \in Views /\ initialZoom \in Views

(* There is a smallest zoom, the one a document is opened with.            *)
LEMMA SmallestZoom == MinZoom \in Views
<1>1. \E x \in Views : \A y \in Views : x <= y
  BY LeastNatural, ViewsAssumption
<1> QED
  BY <1>1 DEF MinZoom


(* The decoder thread changes nothing that belongs to the UI thread.       *)
LEMMA DecoderLeavesUI == DecoderThread => uiUnchanged
  BY DEF DecoderThread, Render, SweepOne, SweepEnds, ReadHolder, PostImage,
         RunOutOfMemory, PostNothing, GiveUp

(* Every event leaves a zoom that is one.                                  *)
LEMMA ZoomKept == ZoomTyped /\ [PageNext]_pageVars => ZoomTyped'
<1> SUFFICES ASSUME ZoomTyped, [PageNext]_pageVars PROVE ZoomTyped'
  OBVIOUS
<1>1. CASE UNCHANGED zoomVars
  BY <1>1 DEF zoomVars, ZoomTyped
<1>2. ASSUME NEW z \in Views, NEW visits \in SUBSET Nodes, SetZoom(z, visits)
      PROVE  ZoomTyped'
  BY <1>2 DEF SetZoom, ZoomTyped
<1>3. ASSUME NEW visits \in SUBSET Nodes, CommitZoom(visits)
      PROVE  ZoomTyped'
  BY <1>3 DEF CommitZoom, ZoomTyped
<1>4. CASE DecoderThread \/ \E n \in Nodes : Finalize(n)
  BY <1>1, <1>4, DecoderLeavesUI DEF Finalize, uiUnchanged
<1>5. CASE \E n \in Nodes : Visit(n) \/ Request(n)
  BY <1>1, <1>5 DEF Visit, Request
<1>6. CASE EndVisit \/ Reset \/ Close \/ RunPosted
  BY <1>1, <1>6 DEF EndVisit, Reset, Close, RunPosted
<1>7. CASE \E visits \in SUBSET Nodes : Show(visits)
  BY <1>1, <1>7 DEF Show
<1> QED
  BY <1>1, <1>2, <1>3, <1>4, <1>5, <1>6, <1>7 DEF PageNext, UI, pageVars

(* What the visit of a node comes down to.                                 *)
LEMMA VisitCases ==
    ASSUME NEW n \in Nodes, Visit(n)
    PROVE  /\ KeepObject(n) \/ DropObject(n)
           /\ \/ RecycleNode(n) /\ UNCHANGED bitmapZoom
              \/ /\ event.kind \in {"zoomIn", "zoomOut", "show"} /\ KeepObject(n)
                 /\ RedecodeNode(n) \/ DecodeNode(n) \/ LeaveNode
  BY DEF Visit, KeepNode

(* It stops at most one decoding.                                          *)
LEMMA VisitCalls ==
    ASSUME NEW n \in Nodes, Visit(n)
    PROVE  StopDecoding(n) \/ UNCHANGED vars
<1>1. CASE RecycleNode(n)
  BY <1>1 DEF RecycleNode, StopNode, executorUnchanged
<1>2. CASE RedecodeNode(n) \/ DecodeNode(n) \/ LeaveNode
  BY <1>2 DEF RedecodeNode, DecodeNode, LeaveNode, executorUnchanged
<1> QED
  BY <1>1, <1>2, VisitCases

(* Every step of the composition is one of the executor or none: the UI    *)
(* thread calls a method of it, or the decoder thread goes on.             *)
LEMMA StepOfExecutor ==
    ASSUME ZoomTyped, [PageNext]_pageVars
    PROVE  [Next]_vars
<1>1. ASSUME NEW n \in Nodes, Visit(n)
      PROVE  [Next]_vars
  BY <1>1, VisitCalls DEF Next, Client
<1>2. ASSUME NEW n \in Nodes, Request(n)
      PROVE  Next
  BY <1>2 DEF Request, ZoomTyped, Next, Client
<1>3. CASE EndVisit \/ Reset \/ RunPosted
  BY <1>3 DEF EndVisit, Reset, RunPosted
<1>4. CASE Close
  BY <1>4 DEF Close, Next, Client
<1>5. CASE \E visits \in SUBSET Nodes : Show(visits) \/ CommitZoom(visits)
                                       \/ \E z \in Views : SetZoom(z, visits)
  BY <1>5 DEF Show, CommitZoom, SetZoom
<1>6. CASE Render
  BY <1>6 DEF Render, Next, Decoder
<1>7. CASE ReadHolder \/ SweepOne \/ SweepEnds \/ RunOutOfMemory \/ \E n \in Nodes : Finalize(n)
  BY <1>7 DEF ReadHolder, SweepOne, SweepEnds, RunOutOfMemory, Finalize
<1>8. CASE PostImage \/ PostNothing \/ GiveUp
  BY <1>8 DEF PostImage, PostNothing, GiveUp, Next, Decoder
<1>9. CASE UNCHANGED pageVars
  BY <1>9 DEF pageVars
<1> QED
  BY <1>1, <1>2, <1>3, <1>4, <1>5, <1>6, <1>7, <1>8, <1>9 DEF PageNext, UI, DecoderThread

(* The composition behaves as an executor, so that the theorems about the  *)
(* executor hold of it.                                                    *)
THEOREM PageDecodingIsExecutor == PageSpec => Spec
<1>1. PageInit => Init /\ ZoomTyped
  BY SmallestZoom DEF PageInit, ZoomTyped
<1>2. ZoomTyped /\ [PageNext]_pageVars => [Next]_vars
  BY StepOfExecutor
<1> QED
  BY <1>1, <1>2, ZoomKept, PTL DEF PageSpec, Spec

(* The executor keeps its invariant in the composition.                    *)
LEMMA ExecutorHolds == PageSpec => []Linked
  BY PageDecodingIsExecutor, LinkedHolds, PTL

-----------------------------------------------------------------------------
(* Types *)

(* The tasks that still can be rendered have numbers below the bound, so   *)
(* that the Bitmaps named after them are Bitmaps.                          *)
TaskIds ==
    \A t \in DecodeTask : Queued(t) \/ current = t => t.id \in Bitmaps

(* Each step of the executor keeps the numbers of pending tasks in         *)
(* bounds.                                                                 *)
LEMMA TaskIdsKept ==
    ASSUME TypeOK, TaskIds, Next
    PROVE  TaskIds'
<1> SUFFICES ASSUME NEW t \in DecodeTask, Queued(t)' \/ current' = t
             PROVE  t.id \in Bitmaps
  BY DEF TaskIds
<1> USE TaskSets
<1>0. t \in Task /\ (Queued(t) \/ current = t => t.id \in Bitmaps) /\ t # NoTask
  BY DEF TaskIds
<1>1. ASSUME NEW n \in Nodes, NEW v \in Views, DecodePage(n, v)
      PROVE  t.id \in Bitmaps
  <2> DEFINE u == NewDecodeTask(n, v)
  <2>1. u \in Task /\ u.id \in Bitmaps
    BY <1>1, MaxTasksAssumption DEF NewDecodeTask, TypeOK, Bitmaps, DecodePage, DecodeTask
  <2>2. CASE SameRequest(decodingTasks[n], n, v)
    BY <1>0, <1>1, <2>2 DEF DecodePage, Queued
  <2>3. CASE ~SameRequest(decodingTasks[n], n, v)
    <3>1. tasks' = Without(Put(tasks, u), TaskOf(n)) /\ current' = current
      BY <1>1, <2>3 DEF DecodePage
    <3>2. Queued(t)' => Queued(t) \/ t = u
      BY <1>0, <2>1, <3>1, QueuedAfterAdd
    <3> QED
      BY <1>0, <2>1, <3>1, <3>2
  <2> QED
    BY <2>2, <2>3
<1>2. ASSUME NEW n \in Nodes, Unregister(n), current' = current
      PROVE  t.id \in Bitmaps
  BY <1>0, <1>2, QueuedAfterUnregister
<1>3. CASE AddSearch
  <2>1. current' = current /\ searching \in SearchTask
    BY <1>3 DEF AddSearch, TypeOK
  <2> QED
    BY <1>0, <1>3, <2>1, QueuedAfterAddSearch
<1>4. ASSUME NEW p \in Patterns, StopSearch(p)
      PROVE  t.id \in Bitmaps
  BY <1>0, <1>4, QueuedAfterStopSearch DEF StopSearch
<1>5. CASE Recycle
  BY <1>0, <1>5, QueuedAfterRecycle DEF Recycle
<1>6. CASE TakeTask
  BY <1>0, <1>6, QueuedAfterTake
<1>7. CASE ClearSlots
  <2>1. ~Queued(t)' /\ current' = current
    BY <1>7 DEF ClearSlots, Queued
  <2> QED
    BY <1>0, <2>1
<1>8. ASSUME UNCHANGED tasks, current' \in {current, NoTask}
      PROVE  t.id \in Bitmaps
  BY <1>0, <1>8 DEF Queued
<1>9. Fail \/ Finish => current.node \in Nodes
  BY DEF Fail, Finish, TypeOK, Working, Settled
<1> QED
  BY <1>1, <1>2, <1>3, <1>4, <1>5, <1>6, <1>7, <1>8, <1>9
  DEF Next, Client, Decoder, StopDecoding, SearchText, FindNothing, BeginWait,
      WaitTimeout, Proceed, Skip, Fail, Finish, Deliver, RunSearch, Shutdown, Goto

(* An event visits its nodes before it requests any, each of them once;    *)
(* the events that recycle request none; a closed document has no others.  *)
EventOrder ==
    /\ event.kind \in {"idle", "request"} => toVisit = {}
    /\ event.kind \in {"idle", "recycle", "reset"} => nodesToDecode = {}
    /\ nodesToDecode \cap toVisit = {}
    /\ isRecycled => event.kind \in {"idle", "recycle"}

(* The nodes to be requested are marked already; only nodes in the tree    *)
(* are marked.                                                             *)
MarkedFirst == \A n \in nodesToDecode : decodingNow[n]

MarkedInTree == \A n \in Nodes : decodingNow[n] => InTree(n)

Shape == PageTypeOK /\ EventOrder /\ MarkedFirst /\ MarkedInTree

(* A document is opened with no event, no request and no image.            *)
LEMMA ShapeInit == PageInit => Shape /\ TaskIds
<1> SUFFICES ASSUME PageInit PROVE Shape /\ TaskIds
  OBVIOUS
<1>1. TypeOK
  BY InitType DEF PageInit
<1>2. posted \in Seq([node : Nodes, bitmaps : Bitmaps \cup {NoBitmaps}])
  BY EmptySeq DEF PageInit
<1>3. PageTypeOK
  BY <1>1, <1>2, SmallestZoom
  DEF PageTypeOK, PageInit, Init, NoBitmaps, Cleared, Unread, Idle
<1>4. EventOrder /\ MarkedFirst /\ MarkedInTree
  BY DEF PageInit, Init, EventOrder, MarkedFirst, MarkedInTree, Idle
<1>5. TaskIds
  BY TaskSets DEF PageInit, Init, TaskIds, Queued
<1> QED
  BY <1>3, <1>4, <1>5 DEF Shape

(* The visit of one node by an event keeps the shape.                      *)
LEMMA ShapeVisit ==
    ASSUME Shape, TypeOK', NEW n \in Nodes, Visit(n)
    PROVE  Shape'
<1>1. /\ n \in toVisit /\ toVisit' = toVisit \ {n} /\ n \notin nodesToDecode
      /\ UNCHANGED <<event, content, sweeping, target, posted, releasing, zoom,
                     initialZoom, isCommitted>>
  BY DEF Visit, Shape, EventOrder, decoderVars, zoomVars
<1>2. UNCHANGED <<isRecycled, nextId>>
  BY VisitCalls DEF StopDecoding, vars
<1>3. /\ decodingNow' \in [Nodes -> BOOLEAN]
      /\ \A m \in Nodes \ {n} : decodingNow'[m] = decodingNow[m]
  <2>1. CASE RecycleNode(n)
    BY <2>1 DEF RecycleNode, StopNode, Shape, PageTypeOK
  <2>2. CASE RedecodeNode(n) \/ DecodeNode(n) \/ LeaveNode
    BY <2>2 DEF RedecodeNode, DecodeNode, LeaveNode, Shape, PageTypeOK
  <2> QED
    BY <2>1, <2>2, VisitCases
<1>13. RecycleNode(n) => ~decodingNow'[n]
  BY DEF RecycleNode, StopNode, Shape, PageTypeOK
<1>4. progress' \in Int
  <2>1. CASE RecycleNode(n)
    BY <2>1 DEF RecycleNode, StopNode, Shape, PageTypeOK
  <2>2. CASE RedecodeNode(n) \/ DecodeNode(n) \/ LeaveNode
    BY <2>2 DEF RedecodeNode, DecodeNode, LeaveNode, Shape, PageTypeOK
  <2> QED
    BY <2>1, <2>2, VisitCases
<1>5. /\ nodesToDecode' \in {nodesToDecode, nodesToDecode \cup {n}}
      /\ nodesToDecode' # nodesToDecode =>
             decodingNow'[n] /\ event.kind \in {"zoomIn", "zoomOut", "show"}
  <2>1. CASE RecycleNode(n)
    BY <2>1 DEF RecycleNode
  <2>2. CASE /\ event.kind \in {"zoomIn", "zoomOut", "show"}
             /\ RedecodeNode(n) \/ DecodeNode(n) \/ LeaveNode
    BY <2>2 DEF RedecodeNode, DecodeNode, LeaveNode, Shape, PageTypeOK
  <2> QED
    BY <2>1, <2>2, VisitCases
<1>6. bitmapZoom' \in [Nodes -> Views]
  <2>1. CASE UNCHANGED bitmapZoom
    BY <2>1 DEF Shape, PageTypeOK
  <2>2. CASE RedecodeNode(n) \/ DecodeNode(n) \/ LeaveNode
    BY <1>2, <2>2 DEF RedecodeNode, DecodeNode, LeaveNode, Shape, PageTypeOK
  <2> QED
    BY <2>1, <2>2, VisitCases
<1>12. /\ life' \in [Nodes -> {"new", "tree", "dropped"}]
       /\ \A m \in Nodes \ {n} : life'[m] = life[m]
       /\ life'[n] = "tree" \/ RecycleNode(n)
  BY VisitCases DEF KeepObject, DropObject, Shape, PageTypeOK
<1>7. holder' \in [Nodes -> Bitmaps \cup {NoBitmaps}] /\ toRecycle' \subseteq Bitmaps
  <2>1. CASE RecycleNode(n)
    BY <2>1 DEF RecycleNode, Shape, PageTypeOK
  <2>2. CASE RedecodeNode(n) \/ DecodeNode(n) \/ LeaveNode
    BY <2>2 DEF RedecodeNode, DecodeNode, LeaveNode, Shape, PageTypeOK
  <2> QED
    BY <2>1, <2>2, VisitCases
<1>8. nodesToDecode' \subseteq Nodes /\ toVisit' \subseteq Nodes
  BY <1>1, <1>5 DEF Shape, PageTypeOK
<1>9. PageTypeOK'
  BY <1>1, <1>3, <1>4, <1>6, <1>7, <1>8, <1>12 DEF Shape, PageTypeOK
<1>10. EventOrder'
  BY <1>1, <1>2, <1>5 DEF Shape, EventOrder
<1>11. MarkedFirst'
  BY <1>1, <1>3, <1>5 DEF Shape, MarkedFirst, PageTypeOK
<1>14. MarkedInTree'
  BY <1>3, <1>12, <1>13 DEF Shape, MarkedInTree, InTree
<1> QED
  BY <1>9, <1>10, <1>11, <1>14 DEF Shape

(* The start of an event keeps the shape.                                  *)
LEMMA ShapeStart ==
    ASSUME Shape, TypeOK', UNCHANGED vars, NEW visits \in SUBSET Nodes,
           NEW kind \in {"zoomIn", "zoomOut", "show", "reset"}, NEW committed \in BOOLEAN,
           Start(kind, committed, visits),
           zoom' \in Views, initialZoom' \in Views, isCommitted' \in BOOLEAN
    PROVE  Shape'
<1>1. /\ event.kind = "idle" /\ ~isRecycled /\ nodesToDecode = {}
      /\ event' = [kind |-> kind, committed |-> committed] /\ toVisit' = visits
      /\ UNCHANGED <<isRecycled, decodingNow, bitmapZoom, holder, life, content, sweeping,
                     target, posted, releasing, progress, nodesToDecode, toRecycle>>
  BY DEF Start, Shape, EventOrder, vars, nodeVars, decoderVars
<1>2. PageTypeOK'
  BY <1>1 DEF Shape, PageTypeOK
<1>3. EventOrder' /\ MarkedFirst' /\ MarkedInTree'
  BY <1>1 DEF Shape, EventOrder, MarkedFirst, MarkedInTree, InTree
<1> QED
  BY <1>2, <1>3 DEF Shape

(* Each of the events of the UI thread keeps the shape.                    *)
LEMMA ShapeEvents ==
    ASSUME Shape, TypeOK', NEW visits \in SUBSET Nodes,
           \/ Show(visits) \/ CommitZoom(visits) \/ Reset
           \/ \E z \in Views : SetZoom(z, visits)
    PROVE  Shape'
<1>1. zoom \in Views /\ initialZoom \in Views /\ isCommitted \in BOOLEAN
  BY DEF Shape, PageTypeOK
<1>2. CASE Show(visits) \/ Reset
  <2>1. {n \in Nodes : InTree(n)} \in SUBSET Nodes
    OBVIOUS
  <2> QED
    BY <1>1, <1>2, <2>1, ShapeStart DEF Show, Reset, zoomVars
<1>3. CASE CommitZoom(visits)
  BY <1>1, <1>3, ShapeStart DEF CommitZoom
<1>4. CASE \E z \in Views : SetZoom(z, visits)
  BY <1>1, <1>4, ShapeStart DEF SetZoom
<1> QED
  BY <1>2, <1>3, <1>4

(* The end of the visits of an event keeps the shape.                      *)
LEMMA ShapeEndVisit ==
    ASSUME Shape, TypeOK', EndVisit
    PROVE  Shape'
<1>1. /\ UNCHANGED <<isRecycled, decodingNow, bitmapZoom, holder, life, content, sweeping,
                     target, posted, zoom, initialZoom, isCommitted, nodesToDecode>>
      /\ toVisit = {} /\ toRecycle' = {} /\ Release(toRecycle)
  BY DEF EndVisit, vars, nodeVars, decoderVars, zoomVars
<1>2. releasing' \subseteq Bitmaps
  BY <1>1 DEF Release, Shape, PageTypeOK
<1>3. progress' \in Int
  <2>1. Cardinality(nodesToDecode) \in Int
    BY FS_Subset, FS_CardinalityType, NodesAssumption DEF Shape, PageTypeOK
  <2> QED
    BY <2>1 DEF EndVisit, Shape, PageTypeOK
<1>4. CASE event.kind = "reset"
  <2>1. /\ event' = [kind |-> "show", committed |-> FALSE] /\ toVisit' \subseteq Nodes
        /\ nodesToDecode = {} /\ ~isRecycled
    BY <1>4 DEF EndVisit, Shape, EventOrder
  <2>2. PageTypeOK'
    BY <1>1, <1>2, <1>3, <2>1 DEF Shape, PageTypeOK
  <2> QED
    BY <1>1, <2>1, <2>2 DEF Shape, EventOrder, MarkedFirst, MarkedInTree, InTree
<1>5. CASE event.kind # "reset"
  <2>1. /\ event' = IF nodesToDecode = {} THEN [kind |-> "idle", committed |-> FALSE]
                    ELSE [kind |-> "request", committed |-> FALSE]
        /\ toVisit' = {}
        /\ isRecycled => nodesToDecode = {}
    BY <1>5 DEF EndVisit, Shape, EventOrder, Idle
  <2>2. PageTypeOK'
    BY <1>1, <1>2, <1>3, <2>1 DEF Shape, PageTypeOK
  <2> QED
    BY <1>1, <2>1, <2>2 DEF Shape, EventOrder, MarkedFirst, MarkedInTree, InTree
<1> QED
  BY <1>4, <1>5

(* The request of a node keeps the shape.                                  *)
LEMMA ShapeRequest ==
    ASSUME Shape, TypeOK', NEW n \in Nodes, Request(n)
    PROVE  Shape'
<1>1. /\ UNCHANGED <<decodingNow, bitmapZoom, holder, life, content, sweeping, target,
                     posted, releasing, progress, zoom, initialZoom, isCommitted, toVisit,
                     toRecycle>>
      /\ event.kind = "request" /\ ~isRecycled /\ ~isRecycled'
      /\ nodesToDecode' = nodesToDecode \ {n}
      /\ event' = IF nodesToDecode = {n} THEN [kind |-> "idle", committed |-> FALSE]
                  ELSE event
      /\ n \in nodesToDecode
  BY DEF Request, DecodePage, nodeVars, decoderVars, zoomVars, Idle
<1>2. PageTypeOK'
  BY <1>1 DEF Shape, PageTypeOK
<1>3. EventOrder' /\ MarkedFirst' /\ MarkedInTree'
  BY <1>1 DEF Shape, EventOrder, MarkedFirst, MarkedInTree, InTree
<1> QED
  BY <1>2, <1>3 DEF Shape

(* Closing the document keeps the shape.                                   *)
LEMMA ShapeClose ==
    ASSUME Shape, TypeOK', Close
    PROVE  Shape'
<1>1. /\ UNCHANGED <<decodingNow, bitmapZoom, holder, life, content, sweeping, target,
                     posted, releasing, progress, zoom, initialZoom, isCommitted,
                     nodesToDecode, toRecycle>>
      /\ event.kind = "idle" /\ toVisit' \subseteq Nodes
      /\ event' = [kind |-> "recycle", committed |-> FALSE]
  BY DEF Close, nodeVars, decoderVars, zoomVars
<1>2. PageTypeOK'
  BY <1>1 DEF Shape, PageTypeOK
<1>3. EventOrder' /\ MarkedFirst' /\ MarkedInTree'
  BY <1>1 DEF Shape, EventOrder, MarkedFirst, MarkedInTree, InTree
<1> QED
  BY <1>2, <1>3 DEF Shape

(* A runnable of decodeComplete.                                           *)
Runnable == [node : Nodes, bitmaps : Bitmaps \cup {NoBitmaps}]

(* A posted runnable of the UI thread keeps the shape.                     *)
LEMMA ShapeRunPosted ==
    ASSUME Shape, TypeOK', RunPosted
    PROVE  Shape'
<1> DEFINE r == Head(posted)
<1>1. r \in Runnable /\ posted' \in Seq(Runnable)
  <2>1. posted \in Seq(Runnable) /\ posted # <<>> /\ posted' = Tail(posted)
    BY DEF RunPosted, Shape, PageTypeOK, Runnable
  <2> QED
    BY <2>1, HeadTailProperties
<1>2. /\ UNCHANGED <<isRecycled, bitmapZoom, life, content, sweeping, target, zoom,
                     initialZoom, isCommitted, nodesToDecode, toRecycle>>
      /\ event.kind = "idle" /\ ShowAndStop(r)
  BY DEF RunPosted, vars, zoomVars
<1>3. \/ UNCHANGED <<event, toVisit>>
      \/ /\ event' = [kind |-> "recycle", committed |-> FALSE]
         /\ toVisit' \subseteq Nodes
  BY <1>1, KinAssumption DEF RunPosted, Runnable
<1>4. /\ event' \in [kind : {"idle", "zoomIn", "zoomOut", "show", "recycle", "reset",
                              "request"}, committed : BOOLEAN]
      /\ toVisit' \subseteq Nodes
  <2>1. CASE UNCHANGED <<event, toVisit>>
    BY <2>1 DEF Shape, PageTypeOK
  <2>2. CASE /\ event' = [kind |-> "recycle", committed |-> FALSE]
             /\ toVisit' \subseteq Nodes
    BY <2>2
  <2> QED
    BY <1>3, <2>1, <2>2
<1>5. r.node \in Nodes /\ r.bitmaps \in Bitmaps \cup {NoBitmaps}
  BY <1>1 DEF Runnable
<1> HIDE DEF r
<1>6. /\ holder' \in [Nodes -> Bitmaps \cup {NoBitmaps}]
      /\ releasing' \subseteq Bitmaps
  <2>1. holder[r.node] \in Bitmaps \cup {NoBitmaps}
    BY <1>5 DEF Shape, PageTypeOK
  <2> QED
    BY <1>2, <1>5, <2>1 DEF ShowAndStop, Release, Shape, PageTypeOK
<1>7. /\ decodingNow' \in [Nodes -> BOOLEAN] /\ progress' \in Int
      /\ \A n \in Nodes : decodingNow'[n] => decodingNow[n]
  BY <1>2, <1>5 DEF ShowAndStop, Shape, PageTypeOK
<1>8. PageTypeOK'
  BY <1>1, <1>2, <1>4, <1>6, <1>7 DEF Shape, PageTypeOK, Runnable
<1> QED
  BY <1>2, <1>3, <1>7, <1>8 DEF Shape, EventOrder, MarkedFirst, MarkedInTree, InTree

(* So does the finalizer.                                                  *)
LEMMA ShapeFinalize ==
    ASSUME Shape, TypeOK', NEW n \in Nodes, Finalize(n)
    PROVE  Shape'
<1>1. /\ UNCHANGED <<isRecycled, decodingNow, content, sweeping, target, posted, progress,
                     zoom, initialZoom, isCommitted, event, toVisit, nodesToDecode, toRecycle>>
      /\ life[n] = "dropped"
      /\ holder' = [holder EXCEPT ![n] = NoBitmaps]
      /\ life' = [life EXCEPT ![n] = "new"]
      /\ bitmapZoom' = [bitmapZoom EXCEPT ![n] = MinZoom]
      /\ Release({holder[n]} \ {NoBitmaps})
  BY DEF Finalize, vars, decoderVars, zoomVars, uiVars
<1>2. releasing' \subseteq Bitmaps
  BY <1>1 DEF Release, Shape, PageTypeOK
<1>3. PageTypeOK'
  BY <1>1, <1>2, SmallestZoom DEF Shape, PageTypeOK
<1>4. EventOrder' /\ MarkedFirst' /\ MarkedInTree'
  BY <1>1 DEF Shape, PageTypeOK, EventOrder, MarkedFirst, MarkedInTree, InTree
<1> QED
  BY <1>3, <1>4 DEF Shape

(* A step of the decoder thread keeps the shape.                           *)
LEMMA ShapeDecoder ==
    ASSUME Shape, TaskIds, TypeOK', DecoderThread
    PROVE  Shape'
<1>1. UNCHANGED <<decodingNow, bitmapZoom, holder, life, progress, zoom, initialZoom,
                  isCommitted, event, toVisit, nodesToDecode, toRecycle>>
  BY DecoderLeavesUI DEF uiUnchanged, nodeVars, zoomVars, uiVars
<1>2. UNCHANGED isRecycled
  BY DEF DecoderThread, Render, SweepOne, SweepEnds, ReadHolder, PostImage, RunOutOfMemory,
         PostNothing, GiveUp, TakeTask, ClearSlots, FindNothing, BeginWait, WaitTimeout,
         Proceed, Skip, Finish, Fail, Deliver, Shutdown, Goto, vars
<1>3. pc = "complete" => current \in DecodeTask /\ current.id \in Bitmaps
                         /\ current.view \in Views /\ current.node \in Nodes
  BY TaskSets DEF Shape, PageTypeOK, TypeOK, TaskIds, Working, Settled, DecodeTask
<1>4. pc = "failed" => current \in DecodeTask /\ current.id \in Bitmaps
                       /\ current.node \in Nodes
  BY TaskSets DEF Shape, PageTypeOK, TypeOK, TaskIds, Working, Settled, DecodeTask
<1>5. Spoil => content' \in [Bitmaps -> Views \cup {Blank, Cleared}]
  BY DEF Spoil, Shape, PageTypeOK
<1>6. ASSUME NEW b \in Bitmaps \cup {NoBitmaps}, Post(b), pc \in {"complete", "failed"}
      PROVE  posted' \in Seq(Runnable)
  <2>1. [node |-> current.node, bitmaps |-> b] \in Runnable
    BY <1>3, <1>4, <1>6 DEF Runnable
  <2> QED
    BY <1>6, <2>1, AppendProperties DEF Post, Shape, PageTypeOK, Runnable
<1>7. /\ content' \in [Bitmaps -> Views \cup {Blank, Cleared}]
      /\ target' \in Bitmaps \cup {NoBitmaps, Unread}
      /\ posted' \in Seq(Runnable)
      /\ releasing' \subseteq Bitmaps /\ sweeping' \in {"no", "yes", "over"}
  <2> USE DEF Shape, PageTypeOK, Runnable
  <2>1. CASE Render
    BY <2>1 DEF Render
  <2>6. CASE SweepOne \/ SweepEnds
    BY <2>6 DEF SweepOne, SweepEnds
  <2>2. CASE ReadHolder
    BY <1>3, <2>2 DEF ReadHolder
  <2>3. CASE PostImage
    <3>1. PICK b \in {current.id, target} \ {NoBitmaps} :
             content' = [content EXCEPT ![b] = current.view] /\ Post(b)
      BY <2>3 DEF PostImage
    <3>2. b \in Bitmaps /\ pc = "complete" /\ target' = Unread
      BY <1>3, <2>3 DEF PostImage
    <3> QED
      BY <1>3, <1>6, <2>3, <3>1, <3>2 DEF PostImage
  <2>4. CASE PostNothing
    BY <1>6, <2>4 DEF PostNothing, Deliver
  <2>5. CASE GiveUp
    BY <1>5, <2>5 DEF GiveUp
  <2>7. CASE RunOutOfMemory
    BY <1>5, <2>7 DEF RunOutOfMemory
  <2> QED
    BY <2>1, <2>2, <2>3, <2>4, <2>5, <2>6, <2>7 DEF DecoderThread
<1>8. PageTypeOK'
  BY <1>1, <1>7 DEF Shape, PageTypeOK, Runnable
<1> QED
  BY <1>1, <1>2, <1>8 DEF Shape, EventOrder, MarkedFirst, MarkedInTree, InTree

(* A stutter keeps the shape.                                              *)
LEMMA ShapeUnchanged ==
    ASSUME Shape, UNCHANGED pageVars
    PROVE  Shape'
  BY DEF Shape, PageTypeOK, TypeOK, EventOrder, MarkedFirst, MarkedInTree, InTree,
         pageVars, nodeVars, decoderVars, zoomVars, uiVars, vars

(* Each step keeps the shape.                                              *)
LEMMA ShapeKept ==
    ASSUME Shape, TaskIds, TypeOK', [PageNext]_pageVars
    PROVE  Shape'
  BY ShapeVisit, ShapeRequest, ShapeEvents, ShapeEndVisit, ShapeClose, ShapeRunPosted,
     ShapeFinalize, ShapeDecoder, ShapeUnchanged
  DEF PageNext, UI

(* The shape of the composition holds.                                     *)
LEMMA ShapeHolds == PageSpec => [](Shape /\ TaskIds)
<1>1. Shape /\ TaskIds /\ Linked' /\ [PageNext]_pageVars => Shape' /\ TaskIds'
  <2> SUFFICES ASSUME Shape, TaskIds, Linked', [PageNext]_pageVars
               PROVE  Shape' /\ TaskIds'
    OBVIOUS
  <2>1. TypeOK /\ TypeOK' /\ [Next]_vars
    BY StepOfExecutor DEF ZoomTyped, Shape, PageTypeOK, Linked, Inductive
  <2>2. TaskIds'
    BY <2>1, TaskIdsKept DEF TaskIds, Queued, vars
  <2> QED
    BY <2>1, <2>2, ShapeKept
<1> QED
  BY <1>1, ShapeInit, ExecutorHolds, PTL DEF PageSpec

(* The nodes, the Bitmaps and the event in progress keep their types, and  *)
(* no Bitmaps is shown, posted or reused that no task has made.            *)
THEOREM PageTypeCorrect == PageSpec => []PageTypeOK
<1>1. Shape => PageTypeOK
  BY DEF Shape
<1> QED
  BY <1>1, ShapeHolds, PTL

-----------------------------------------------------------------------------
(* The progress counter *)

BeingDecoded == {n \in Nodes : decodingNow[n]}

(* Setting and clearing the flag of one node counts one, or nothing.       *)
LEMMA FlagCounts ==
    ASSUME decodingNow \in [Nodes -> BOOLEAN], NEW n \in Nodes, NEW b \in BOOLEAN,
           decodingNow' = [decodingNow EXCEPT ![n] = b]
    PROVE  /\ Cardinality(BeingDecoded) \in Int
           /\ b => Cardinality(BeingDecoded)' =
                    IF decodingNow[n] THEN Cardinality(BeingDecoded)
                                      ELSE Cardinality(BeingDecoded) + 1
           /\ ~b => Cardinality(BeingDecoded)' =
                    IF decodingNow[n] THEN Cardinality(BeingDecoded) - 1
                                      ELSE Cardinality(BeingDecoded)
<1>1. IsFiniteSet(BeingDecoded)
  BY NodesAssumption, FS_Subset DEF BeingDecoded
<1>2. n \in BeingDecoded <=> decodingNow[n]
  BY DEF BeingDecoded
<1>3. b => BeingDecoded' = BeingDecoded \cup {n}
  BY DEF BeingDecoded
<1>4. ~b => BeingDecoded' = BeingDecoded \ {n}
  BY DEF BeingDecoded
<1>5. Cardinality(BeingDecoded) \in Int
  BY <1>1, FS_CardinalityType
<1> QED
  BY <1>1, <1>2, <1>3, <1>4, <1>5, FS_AddElement, FS_RemoveElement

(* The two sets the progress counter is compared with are finite.          *)
LEMMA CountsTyped ==
    ASSUME Shape
    PROVE  /\ IsFiniteSet(nodesToDecode)
           /\ Cardinality(nodesToDecode) \in Int /\ Cardinality(BeingDecoded) \in Int
<1>1. nodesToDecode \in SUBSET Nodes /\ BeingDecoded \in SUBSET Nodes
  BY DEF Shape, PageTypeOK, BeingDecoded
<1>2. IsFiniteSet(nodesToDecode) /\ IsFiniteSet(BeingDecoded)
  BY <1>1, NodesAssumption, FS_Subset
<1> QED
  BY <1>2, FS_CardinalityType

(* One node more to request counts one more.                               *)
LEMMA ToDecodeCounts ==
    ASSUME Shape, NEW n \in Nodes, n \notin nodesToDecode
    PROVE  Cardinality(nodesToDecode \cup {n}) = Cardinality(nodesToDecode) + 1
  BY CountsTyped, FS_AddElement

(* The visit of a node counts it down when it stops it; a node it marks    *)
(* is counted when the event ends.                                         *)
LEMMA CountsVisit ==
    ASSUME Shape, ProgressCounts, NEW n \in Nodes, Visit(n)
    PROVE  ProgressCounts'
<1>1. /\ n \in toVisit /\ n \notin nodesToDecode /\ event' = event
      /\ event.kind \notin {"idle", "request"}
  BY DEF Visit, Shape, EventOrder
<1>2. /\ decodingNow \in [Nodes -> BOOLEAN] /\ progress \in Int
      /\ progress = Cardinality(BeingDecoded) - Cardinality(nodesToDecode)
  BY <1>1 DEF Shape, PageTypeOK, ProgressCounts, BeingDecoded
<1>3. Cardinality(nodesToDecode) \in Int /\ Cardinality(BeingDecoded) \in Int
  BY CountsTyped
<1>4. SUFFICES progress' = Cardinality(BeingDecoded)' - Cardinality(nodesToDecode')
  BY <1>1 DEF ProgressCounts, BeingDecoded
<1>5. CASE /\ UNCHANGED nodesToDecode
           /\ \/ UNCHANGED <<decodingNow, progress>>
              \/ /\ decodingNow' = [decodingNow EXCEPT ![n] = FALSE]
                 /\ decodingNow[n] /\ progress' = progress - 1
  <2>1. CASE UNCHANGED <<decodingNow, progress>>
    BY <1>2, <1>5, <2>1 DEF BeingDecoded
  <2>2. CASE /\ decodingNow' = [decodingNow EXCEPT ![n] = FALSE]
             /\ decodingNow[n] /\ progress' = progress - 1
    <3>1. Cardinality(BeingDecoded)' = Cardinality(BeingDecoded) - 1
      BY <1>2, <2>2, FlagCounts
    <3> QED
      BY <1>2, <1>3, <1>5, <2>2, <3>1
  <2> QED
    BY <1>5, <2>1, <2>2
<1>6. CASE /\ decodingNow' = [decodingNow EXCEPT ![n] = TRUE]
           /\ nodesToDecode' = nodesToDecode \cup {n}
           /\ progress' = IF decodingNow[n] THEN progress - 1 ELSE progress
  <2>1. Cardinality(nodesToDecode') = Cardinality(nodesToDecode) + 1
    BY <1>1, <1>6, ToDecodeCounts
  <2>2. Cardinality(BeingDecoded)' = IF decodingNow[n] THEN Cardinality(BeingDecoded)
                                     ELSE Cardinality(BeingDecoded) + 1
    BY <1>2, <1>6, FlagCounts
  <2> QED
    BY <1>2, <1>3, <1>6, <2>1, <2>2
<1>7. CASE RecycleNode(n)
  BY <1>5, <1>7 DEF RecycleNode, StopNode
<1>8. CASE RedecodeNode(n)
  BY <1>6, <1>8 DEF RedecodeNode
<1>9. CASE DecodeNode(n)
  BY <1>5, <1>6, <1>9 DEF DecodeNode
<1>10. CASE LeaveNode
  BY <1>5, <1>10 DEF LeaveNode
<1> QED
  BY <1>7, <1>8, <1>9, <1>10, VisitCases

(* A runnable counts its node down when it clears the flag.                *)
LEMMA CountsRunPosted ==
    ASSUME Shape, ProgressCounts, RunPosted
    PROVE  ProgressCounts'
<1> DEFINE r == Head(posted)
<1>1. r.node \in Nodes
  <2>1. posted \in Seq(Runnable) /\ posted # <<>>
    BY DEF RunPosted, Shape, PageTypeOK, Runnable
  <2>2. r \in Runnable
    BY <2>1, HeadTailProperties
  <2> QED
    BY <2>2 DEF Runnable
<1>2. /\ nodesToDecode = {} /\ nodesToDecode' = {} /\ event.kind = "idle"
      /\ decodingNow \in [Nodes -> BOOLEAN] /\ progress \in Int
  BY DEF RunPosted, Shape, EventOrder, PageTypeOK
<1>3. progress = Cardinality(BeingDecoded)
  <2>1. progress = Cardinality(BeingDecoded) - 0
    BY <1>2 DEF ProgressCounts, BeingDecoded
  <2>2. Cardinality(BeingDecoded) \in Int
    BY CountsTyped
  <2> QED
    BY <2>1, <2>2
<1>4. Cardinality(nodesToDecode') = 0
  BY <1>2, FS_EmptySet
<1>5. /\ decodingNow' = [decodingNow EXCEPT ![r.node] = FALSE]
      /\ progress' = IF decodingNow[r.node] THEN progress - 1 ELSE progress
  BY DEF RunPosted, ShowAndStop
<1> HIDE DEF r
<1>6. Cardinality(BeingDecoded)' = IF decodingNow[r.node] THEN Cardinality(BeingDecoded) - 1
                                   ELSE Cardinality(BeingDecoded)
  BY <1>1, <1>2, <1>5, FlagCounts
<1>7. progress' = Cardinality(BeingDecoded)' /\ progress' \in Int
  BY <1>2, <1>3, <1>5, <1>6
<1> QED
  BY <1>4, <1>7 DEF ProgressCounts, BeingDecoded

(* The end of the visits counts all nodes to request at once.              *)
LEMMA CountsEndVisit ==
    ASSUME Shape, ProgressCounts, EndVisit
    PROVE  ProgressCounts'
<1>1. /\ UNCHANGED <<decodingNow, nodesToDecode>> /\ event.kind \notin {"idle", "request"}
      /\ progress = Cardinality(BeingDecoded) - Cardinality(nodesToDecode)
  BY DEF EndVisit, nodeVars, ProgressCounts, BeingDecoded
<1>2. Cardinality(nodesToDecode) \in Int /\ Cardinality(BeingDecoded) \in Int
  BY CountsTyped
<1>3. CASE event.kind = "reset"
  BY <1>1, <1>3 DEF EndVisit, ProgressCounts, BeingDecoded
<1>4. CASE event.kind # "reset"
  <2>1. event'.kind \in {"idle", "request"} /\ progress' = progress + Cardinality(nodesToDecode)
    BY <1>4 DEF EndVisit, Idle
  <2>2. progress' = Cardinality(BeingDecoded) - 0
    BY <1>1, <1>2, <2>1
  <2> QED
    BY <1>1, <2>1, <2>2 DEF ProgressCounts, BeingDecoded
<1> QED
  BY <1>3, <1>4

(* Nothing is being decoded at the start.                                  *)
LEMMA CountsInit == PageInit => ProgressCounts
<1> SUFFICES ASSUME PageInit PROVE ProgressCounts
  OBVIOUS
<1>1. {n \in Nodes : decodingNow[n]} = {} /\ progress = 0 /\ event.kind = "idle"
  BY DEF PageInit, Idle
<1> QED
  BY <1>1, FS_EmptySet DEF ProgressCounts

(* Each step keeps the progress counter exact.                             *)
LEMMA CountsKept ==
    ASSUME Shape, Shape', ProgressCounts, [PageNext]_pageVars
    PROVE  ProgressCounts'
<1>1. CASE /\ UNCHANGED <<decodingNow, progress, nodesToDecode>>
           /\ event'.kind = event.kind \/ (nodesToDecode = {} /\ nodesToDecode' = {})
  BY <1>1, FS_EmptySet DEF ProgressCounts
<1>2. ASSUME NEW n \in Nodes, Request(n)
      PROVE  ProgressCounts'
  BY <1>2 DEF Request, ProgressCounts, Idle, nodeVars
<1>3. CASE \E visits \in SUBSET Nodes : \/ Show(visits) \/ CommitZoom(visits) \/ Reset
                                        \/ \E z \in Views : SetZoom(z, visits)
  <2>1. event.kind = "idle" /\ UNCHANGED <<decodingNow, progress, nodesToDecode>>
    BY <1>3 DEF Show, CommitZoom, Reset, SetZoom, Start, nodeVars
  <2> QED
    BY <1>1, <2>1 DEF Shape, EventOrder
<1>4. CASE Close
  <2>1. event.kind = "idle" /\ UNCHANGED <<decodingNow, progress, nodesToDecode>>
    BY <1>4 DEF Close, nodeVars
  <2> QED
    BY <1>1, <2>1 DEF Shape, EventOrder
<1>5. CASE DecoderThread \/ UNCHANGED pageVars \/ \E n \in Nodes : Finalize(n)
  BY <1>1, <1>5, DecoderLeavesUI DEF Finalize, uiUnchanged, uiVars, pageVars, nodeVars
<1> QED
  BY <1>2, <1>3, <1>4, <1>5, CountsVisit, CountsEndVisit, CountsRunPosted DEF PageNext, UI

(* The progress counter counts the nodes being decoded, whatever the order *)
(* in which requests, answers, recycling and new objects meet: the loading *)
(* bar neither stays for ever nor vanishes early.                          *)
THEOREM ProgressIsExact == PageSpec => []ProgressCounts
<1>1. Shape /\ Shape' /\ ProgressCounts /\ [PageNext]_pageVars => ProgressCounts'
  BY CountsKept
<1> QED
  BY <1>1, CountsInit, ShapeHolds, PTL DEF PageSpec

-----------------------------------------------------------------------------
(* Nodes that believe they are being decoded *)

(* Awaited, in terms of the board of requests.                             *)
Due(n) ==
    \/ n \in nodesToDecode
    \/ Want[n] # NoTask
    \/ pc \in Settled /\ current.node = n
    \/ \E i \in DOMAIN posted : posted[i].node = n
    \/ isRecycled /\ n \in toVisit

(* A node is wanted by the board when its registered task is not dead.     *)
LEMMA WantIsLive ==
    ASSUME NEW n \in Nodes
    PROVE  Want[n] # NoTask <=> decodingTasks[n] # NoTask /\ ~IsDead(decodingTasks[n])
  BY DEF Want, Wanted

(* What waits for the UI thread are runnables.                             *)
LEMMA PostedTyped ==
    ASSUME Shape
    PROVE  /\ posted \in Seq(Runnable)
           /\ \A i \in DOMAIN posted : posted[i] \in Runnable
<1>1. posted \in Seq(Runnable)
  BY DEF Shape, PageTypeOK, Runnable
<1> QED
  BY <1>1, LenProperties

(* Both say the same.                                                      *)
LEMMA DueIsAwaited ==
    ASSUME NEW n \in Nodes
    PROVE  Due(n) <=> Awaited(n)
  BY WantIsLive DEF Due, Awaited

(* A request leaves a task for its node; one node's calls leave the others.*)
LEMMA AskedIsWanted ==
    ASSUME Linked, NEW n \in Nodes, NEW v \in Views, DecodePage(n, v)
    PROVE  /\ Want'[n] # NoTask
           /\ \A m \in Nodes \ {n} : Want'[m] = Want[m]
<1>1. CASE SameRequest(decodingTasks[n], n, v)
  <2>1. UNCHANGED <<decodingTasks, cancelled>> /\ Want[n] # NoTask
    BY <1>1, WantIsLive DEF DecodePage, SameRequest
  <2> QED
    BY <2>1 DEF Want, Wanted, IsDead
<1>2. CASE ~SameRequest(decodingTasks[n], n, v)
  <2> DEFINE u == NewDecodeTask(n, v)
  <2>1. Want' = [Want EXCEPT ![n] = u]
    BY <1>2, RegisterReplaces DEF DecodePage, Linked, Inductive
  <2>2. u # NoTask
    BY TaskSets DEF NewDecodeTask, DecodeTask, Linked, Inductive, TypeOK
  <2>3. DOMAIN Want = Nodes
    BY DEF Want
  <2> QED
    BY <2>1, <2>2, <2>3
<1> QED
  BY <1>1, <1>2

(* Stopping the task of one node leaves the others wanted.                 *)
LEMMA StoppedAlone ==
    ASSUME Linked, NEW n \in Nodes, Unregister(n)
    PROVE  \A m \in Nodes \ {n} : Want'[m] = Want[m]
<1>1. Want' = [Want EXCEPT ![n] = NoTask]
  BY UnregisterWithdraws DEF Linked, Inductive
<1> QED
  BY <1>1 DEF Want

(* Events of other nodes, and those that leave a node as it is.            *)
LEMMA DueVisit ==
    ASSUME Linked, Shape, NEW n \in Nodes, decodingNow[n] => Due(n),
           NEW m \in Nodes, Visit(m), decodingNow'[n]
    PROVE  Due(n)'
<1>1. /\ toVisit' = toVisit \ {m} /\ UNCHANGED posted
      /\ decodingNow \in [Nodes -> BOOLEAN]
  BY DEF Visit, decoderVars, Shape, PageTypeOK
<1>2. UNCHANGED <<isRecycled, pc, current>>
  BY VisitCalls DEF StopDecoding, vars
<1>3. CASE m # n
  <2>1. Want'[n] = Want[n]
    <3>1. CASE StopDecoding(m)
      BY <1>1, <1>3, <3>1, StoppedAlone DEF StopDecoding
    <3>2. CASE UNCHANGED vars
      BY <3>2 DEF Want, Wanted, IsDead, vars
    <3> QED
      BY <3>1, <3>2, VisitCalls
  <2>2. decodingNow'[n] = decodingNow[n] /\ nodesToDecode \subseteq nodesToDecode'
    <3>1. CASE RecycleNode(m)
      BY <1>1, <1>3, <3>1 DEF RecycleNode, StopNode
    <3>2. CASE RedecodeNode(m) \/ DecodeNode(m) \/ LeaveNode
      BY <1>1, <1>3, <3>2 DEF RedecodeNode, DecodeNode, LeaveNode
    <3> QED
      BY <3>1, <3>2, VisitCases
  <2> QED
    BY <1>1, <1>2, <1>3, <2>1, <2>2 DEF Due
<1>4. CASE m = n
  <2>1. ~RecycleNode(n)
    BY <1>1 DEF RecycleNode, StopNode
  <2>2. CASE RedecodeNode(n)
    BY <2>2 DEF RedecodeNode, Due
  <2>3. CASE DecodeNode(n) /\ ~decodingNow[n]
    BY <2>3 DEF DecodeNode, Due
  <2>4. CASE /\ event.kind \in {"zoomIn", "zoomOut", "show"}
             /\ LeaveNode \/ (DecodeNode(n) /\ decodingNow[n])
    <3>1. UNCHANGED <<vars, decodingNow, nodesToDecode>> /\ ~isRecycled
      BY <2>4 DEF LeaveNode, DecodeNode, executorUnchanged, Shape, EventOrder
    <3>2. Want' = Want
      BY <3>1 DEF Want, Wanted, IsDead, vars
    <3> QED
      BY <1>1, <1>2, <3>1, <3>2 DEF Due
  <2> QED
    BY <1>4, <2>1, <2>2, <2>3, <2>4, VisitCases
<1> QED
  BY <1>3, <1>4

(* The request of a node leaves a node that is marked due.                 *)
LEMMA DueRequest ==
    ASSUME Linked, Shape, NEW n \in Nodes, decodingNow[n] => Due(n),
           NEW m \in Nodes, Request(m), decodingNow'[n]
    PROVE  Due(n)'
<1>1. /\ DecodePage(m, zoom) /\ nodesToDecode' = nodesToDecode \ {m}
      /\ UNCHANGED <<decodingNow, posted, current>> /\ ~isRecycled /\ zoom \in Views
      /\ pc \in Settled => pc' = pc
  BY DEF Request, DecodePage, Notify, nodeVars, decoderVars, Shape, PageTypeOK, Settled
<1>2. Want'[m] # NoTask /\ \A k \in Nodes \ {m} : Want'[k] = Want[k]
  BY <1>1, AskedIsWanted
<1> QED
  BY <1>1, <1>2 DEF Due

(* A runnable clears the flag of the node it was due for, or leaves it     *)
(* due.                                                                    *)
LEMMA DueRunPosted ==
    ASSUME Shape, NEW n \in Nodes, decodingNow[n] => Due(n),
           RunPosted, decodingNow'[n]
    PROVE  Due(n)'
<1> DEFINE r == Head(posted)
<1>1. /\ posted \in Seq(Runnable) /\ posted # <<>> /\ posted' = Tail(posted)
      /\ decodingNow \in [Nodes -> BOOLEAN]
      /\ UNCHANGED <<vars, nodesToDecode>> /\ toVisit = {}
  BY PostedTyped DEF RunPosted, Shape, PageTypeOK, EventOrder
<1>2. r \in Runnable /\ r = posted[1]
  BY <1>1, HeadTailProperties
<1>4. r.node # n
  BY <1>1 DEF RunPosted, ShowAndStop
<1>5. decodingNow'[n] = decodingNow[n]
  BY <1>1, <1>2, <1>4 DEF RunPosted, ShowAndStop, Runnable
<1>6. ASSUME NEW i \in DOMAIN posted, posted[i].node = n
      PROVE  \E j \in DOMAIN posted' : posted'[j].node = n
  <2>1. i \in 1 .. Len(posted) /\ i # 1 /\ Len(posted) \in Nat
    BY <1>1, <1>2, <1>4, <1>6, LenProperties
  <2>2. /\ Tail(posted) \in Seq(Runnable) /\ Len(Tail(posted)) = Len(posted) - 1
        /\ \A k \in 1 .. Len(Tail(posted)) : Tail(posted)[k] = posted[k + 1]
    BY <1>1, HeadTailProperties
  <2>3. DOMAIN posted' = 1 .. Len(posted) - 1
    BY <1>1, <2>2, LenProperties
  <2>4. i - 1 \in DOMAIN posted' /\ posted'[i - 1] = posted[i]
    BY <1>1, <2>1, <2>2, <2>3
  <2> QED
    BY <1>6, <2>4
<1>7. Want' = Want /\ UNCHANGED <<pc, current>>
  BY <1>1 DEF Want, Wanted, IsDead, vars
<1> QED
  BY <1>1, <1>5, <1>6, <1>7 DEF Due

(* The decoder posts a runnable for each task it has settled, so that its  *)
(* node stays due.                                                         *)
LEMMA DueDecoder ==
    ASSUME Linked, Shape, TaskIds, NEW n \in Nodes, decodingNow[n] => Due(n),
           DecoderThread, decodingNow'[n]
    PROVE  Due(n)'
<1>1. /\ UNCHANGED <<decodingNow, nodesToDecode, toVisit>> /\ TypeOK
  BY DecoderLeavesUI DEF uiUnchanged, nodeVars, uiVars, Shape, PageTypeOK
<1>2. CASE ReadHolder \/ SweepOne \/ SweepEnds \/ RunOutOfMemory
  <2>1. UNCHANGED vars /\ UNCHANGED posted
    BY <1>2 DEF ReadHolder, SweepOne, SweepEnds, RunOutOfMemory
  <2>2. Want' = Want /\ UNCHANGED <<pc, current, posted, isRecycled>>
    BY <2>1 DEF Want, Wanted, IsDead, vars
  <2> QED
    BY <1>1, <2>2 DEF Due
<1>3. CASE PostImage \/ PostNothing
  <2>1. PICK b \in Bitmaps \cup {NoBitmaps} : Post(b)
    BY <1>3, TaskSets DEF PostImage, PostNothing, Shape, PageTypeOK, TaskIds, TypeOK,
       Working, Settled
  <2>2. Deliver /\ Want' = Want /\ UNCHANGED isRecycled
    BY <1>3 DEF PostImage, PostNothing, Deliver, Goto, Want, Wanted, IsDead
  <2> DEFINE new == [node |-> current.node, bitmaps |-> b]
  <2>3. posted \in Seq(Runnable) /\ posted' = Append(posted, new)
    BY <2>1, PostedTyped DEF Post
  <2>4. /\ DOMAIN posted' = DOMAIN posted \cup {Len(posted) + 1}
        /\ \A i \in DOMAIN posted : posted'[i] = posted[i]
        /\ posted'[Len(posted) + 1] = new
    BY <2>3, LenProperties
  <2> QED
    BY <1>1, <2>2, <2>4 DEF Due
<1>4. CASE (Render /\ Finish) \/ GiveUp
  <2>1. /\ current \in DecodeTask /\ current.node \in Nodes /\ Unregister(current.node)
        /\ pc' \in Settled /\ UNCHANGED <<current, posted, isRecycled>>
    BY <1>1, <1>4, TaskSets
    DEF Finish, GiveUp, Fail, Goto, Render, TypeOK, Working, Settled
  <2>2. CASE current.node = n
    BY <2>1, <2>2 DEF Due
  <2>3. CASE current.node # n
    <3>1. Want'[n] = Want[n]
      BY <1>1, <2>1, <2>3, StoppedAlone
    <3> QED
      BY <1>1, <2>1, <2>3, <3>1 DEF Due
  <2> QED
    BY <2>2, <2>3
<1>5. CASE Render /\ ~Finish
  <2>1. /\ UNCHANGED <<decodingTasks, cancelled, posted, isRecycled>>
        /\ pc \notin Settled
    BY <1>1, <1>5 DEF Render, TakeTask, ClearSlots, FindNothing, BeginWait, WaitTimeout,
       Proceed, Skip, Shutdown, IsDecoding, After, Goto, Settled
  <2>2. Want' = Want
    BY <2>1 DEF Want, Wanted, IsDead
  <2> QED
    BY <1>1, <2>1, <2>2 DEF Due
<1> QED
  BY <1>2, <1>3, <1>4, <1>5 DEF DecoderThread

(* Each step keeps a node that is marked due.                              *)
LEMMA DueKept ==
    ASSUME Linked, Shape, TaskIds, NEW n \in Nodes,
           decodingNow[n] => Due(n), [PageNext]_pageVars, decodingNow'[n]
    PROVE  Due(n)'
<1>1. CASE /\ UNCHANGED <<vars, decodingNow, nodesToDecode, posted>>
           /\ toVisit = {} \/ UNCHANGED toVisit
  <2>1. Want' = Want /\ UNCHANGED <<pc, current, isRecycled>>
    BY <1>1 DEF Want, Wanted, IsDead, vars
  <2> QED
    BY <1>1, <2>1 DEF Due
<1>2. CASE EndVisit
  BY <1>1, <1>2 DEF EndVisit, nodeVars, decoderVars
<1>3. CASE \E visits \in SUBSET Nodes : \/ Show(visits) \/ CommitZoom(visits) \/ Reset
                                        \/ \E z \in Views : SetZoom(z, visits)
  <2>1. /\ event.kind = "idle" /\ UNCHANGED <<vars, decodingNow, nodesToDecode, posted>>
    BY <1>3 DEF Show, CommitZoom, Reset, SetZoom, Start, nodeVars, decoderVars
  <2> QED
    BY <1>1, <2>1 DEF Shape, EventOrder
<1>4. CASE Close
  <2>1. isRecycled' /\ decodingNow[n] /\ toVisit' = {m \in Nodes : InTree(m)}
    BY <1>4 DEF Close, Recycle, nodeVars
  <2>2. InTree(n)
    BY <2>1 DEF Shape, MarkedInTree
  <2> QED
    BY <2>1, <2>2 DEF Due
<1>5. CASE UNCHANGED pageVars \/ \E m \in Nodes : Finalize(m)
  BY <1>1, <1>5 DEF Finalize, pageVars, nodeVars, decoderVars, uiVars
<1> QED
  BY <1>2, <1>3, <1>4, <1>5, DueVisit, DueRequest, DueRunPosted, DueDecoder
  DEF PageNext, UI

(* A node that believes it is being decoded, and refuses further requests, *)
(* has an answer on its way: late answers, replaced and stopped tasks,     *)
(* failures in the middle, dropped objects and the closing of the document *)
(* leave none stuck.                                                       *)
THEOREM NoNodeIsStuck == PageSpec => []DecodingIsAwaited
<1> DEFINE AllDue == \A n \in Nodes : decodingNow[n] => Due(n)
<1>1. PageInit => AllDue
  BY DEF PageInit
<1>2. Linked /\ Shape /\ TaskIds /\ AllDue /\ [PageNext]_pageVars => AllDue'
  <2> SUFFICES ASSUME Linked, Shape, TaskIds, AllDue, [PageNext]_pageVars,
                      NEW n \in Nodes, decodingNow'[n]
               PROVE  Due(n)'
    OBVIOUS
  <2> QED
    BY DueKept
<1>3. AllDue => DecodingIsAwaited
  BY DueIsAwaited DEF DecodingIsAwaited
<1> HIDE DEF AllDue
<1> QED
  BY <1>1, <1>2, <1>3, ShapeHolds, ExecutorHolds, PTL DEF PageSpec

-----------------------------------------------------------------------------
(* Images *)

(* Who has an image.                                                       *)
Kept(b) ==
    \/ \E n \in Nodes : holder[n] = b
    \/ \E i \in DOMAIN posted : posted[i].bitmaps = b
    \/ b \in toRecycle \cup releasing

(* A runnable gives its image to its node, and queues the one it replaces. *)
LEMMA ImageRunPosted ==
    ASSUME Shape, RunPosted, NEW b \in Bitmaps, content[b] \in Views => Kept(b),
           content'[b] \in Views
    PROVE  Kept(b)'
<1> DEFINE r == Head(posted)
<1>1. /\ posted \in Seq(Runnable) /\ posted # <<>> /\ posted' = Tail(posted)
      /\ UNCHANGED <<toRecycle, content>> /\ releasing \subseteq releasing'
      /\ b # NoBitmaps
      /\ holder \in [Nodes -> Bitmaps \cup {NoBitmaps}]
  <2>1. b # NoBitmaps
    BY MaxTasksAssumption DEF Bitmaps, NoBitmaps
  <2> QED
    BY <2>1, PostedTyped DEF RunPosted, ShowAndStop, Release, Shape, PageTypeOK
<1>2. r \in Runnable /\ r = posted[1] /\ r.node \in Nodes
  <2>1. r \in Runnable /\ r = posted[1]
    BY <1>1, HeadTailProperties
  <2> QED
    BY <2>1 DEF Runnable
<1>3. ASSUME NEW i \in DOMAIN posted, posted[i].bitmaps = b, r.bitmaps # b
      PROVE  \E j \in DOMAIN posted' : posted'[j].bitmaps = b
  <2>1. i \in 1 .. Len(posted) /\ i # 1 /\ Len(posted) \in Nat
    BY <1>1, <1>2, <1>3, LenProperties
  <2>2. /\ Tail(posted) \in Seq(Runnable) /\ Len(Tail(posted)) = Len(posted) - 1
        /\ \A k \in 1 .. Len(Tail(posted)) : Tail(posted)[k] = posted[k + 1]
    BY <1>1, HeadTailProperties
  <2>3. DOMAIN posted' = 1 .. Len(posted) - 1
    BY <1>1, <2>2, LenProperties
  <2>4. i - 1 \in DOMAIN posted' /\ posted'[i - 1] = posted[i]
    BY <1>1, <2>1, <2>2, <2>3
  <2> QED
    BY <1>3, <2>4
<1>4. CASE r.bitmaps = NoBitmaps
  <2>1. UNCHANGED holder /\ b # r.bitmaps
    BY <1>1, <1>4 DEF RunPosted, ShowAndStop
  <2> QED
    BY <1>1, <1>3, <2>1 DEF Kept
<1>5. CASE r.bitmaps # NoBitmaps
  <2>1. /\ holder' = [holder EXCEPT ![r.node] = r.bitmaps]
        /\ Release({holder[r.node]} \ {NoBitmaps, r.bitmaps})
    BY <1>5 DEF RunPosted, ShowAndStop
  <2>2. CASE b = r.bitmaps
    BY <1>1, <1>2, <2>1, <2>2 DEF Kept
  <2>3. CASE b # r.bitmaps
    <3>1. CASE holder[r.node] = b
      BY <1>1, <2>1, <2>3, <3>1 DEF Release, Kept
    <3>2. CASE holder[r.node] # b
      <4>1. \A n \in Nodes : holder[n] = b => holder'[n] = b
        BY <1>1, <2>1, <3>2
      <4> QED
        BY <1>1, <1>3, <2>3, <4>1 DEF Kept
    <3> QED
      BY <3>1, <3>2
  <2> QED
    BY <2>2, <2>3
<1> QED
  BY <1>4, <1>5

(* The decoder posts the image it has decoded.                             *)
LEMMA ImageDecoder ==
    ASSUME Shape, DecoderThread, NEW b \in Bitmaps, content[b] \in Views => Kept(b),
           content'[b] \in Views
    PROVE  Kept(b)'
<1>1. /\ UNCHANGED <<holder, toRecycle>> /\ posted \in Seq(Runnable)
      /\ Blank \notin Views /\ Cleared \notin Views
      /\ content \in [Bitmaps -> Views \cup {Blank, Cleared}]
  BY PostedTyped, DecoderLeavesUI, ViewsAssumption
  DEF uiUnchanged, nodeVars, uiVars, Blank, Cleared, Shape, PageTypeOK
<1>2. ASSUME NEW c, Post(c)
      PROVE  \E i \in DOMAIN posted' : posted'[i].bitmaps = c
  <2> DEFINE new == [node |-> current.node, bitmaps |-> c]
  <2>1. posted' = Append(posted, new)
    BY <1>2 DEF Post
  <2>2. Len(posted) + 1 \in DOMAIN posted' /\ posted'[Len(posted) + 1] = new
    BY <1>1, <2>1, LenProperties
  <2> QED
    BY <2>2
<1>3. ASSUME NEW c, Post(c), NEW i \in DOMAIN posted
      PROVE  i \in DOMAIN posted' /\ posted'[i] = posted[i]
  BY <1>1, <1>3, LenProperties DEF Post
<1>4. Spoil => content'[b] = content[b]
  BY <1>1 DEF Spoil
<1>5. CASE (\E c : Post(c)) /\ content'[b] = content[b] /\ UNCHANGED releasing
  BY <1>1, <1>3, <1>5 DEF Kept
<1>6. CASE UNCHANGED <<posted, releasing>> /\ content'[b] = content[b]
  BY <1>1, <1>6 DEF Kept
<1>7. CASE PostImage
  <2>1. PICK c \in {current.id, target} \ {NoBitmaps} :
           content' = [content EXCEPT ![c] = current.view] /\ Post(c) /\ UNCHANGED releasing
    BY <1>7 DEF PostImage
  <2>2. CASE c = b
    BY <1>2, <2>1, <2>2 DEF Kept
  <2>3. CASE c # b
    BY <1>1, <1>5, <2>1, <2>3
  <2> QED
    BY <2>2, <2>3
<1>8. CASE PostNothing
  BY <1>5, <1>8 DEF PostNothing
<1>9. CASE GiveUp \/ RunOutOfMemory
  BY <1>4, <1>6, <1>9 DEF GiveUp, RunOutOfMemory
<1>10. CASE Render \/ ReadHolder \/ SweepEnds
  BY <1>6, <1>10 DEF Render, ReadHolder, SweepEnds
<1>11. CASE SweepOne
  <2>1. PICK c \in releasing : /\ releasing' = releasing \ {c}
                               /\ content' = [content EXCEPT ![c] = Cleared]
    BY <1>11 DEF SweepOne
  <2>2. b # c /\ content'[b] = content[b] /\ UNCHANGED posted
    BY <1>1, <1>11, <2>1 DEF SweepOne
  <2> QED
    BY <1>1, <2>1, <2>2 DEF Kept
<1> QED
  BY <1>7, <1>8, <1>9, <1>10, <1>11 DEF DecoderThread

(* Each step keeps a decoded image with somebody.                          *)
LEMMA ImageKept ==
    ASSUME Shape, [PageNext]_pageVars, NEW b \in Bitmaps,
           content[b] \in Views => Kept(b), content'[b] \in Views
    PROVE  Kept(b)'
<1>1. CASE UNCHANGED <<holder, posted, toRecycle, releasing, content>>
  BY <1>1 DEF Kept
<1>2. ASSUME NEW n \in Nodes, Visit(n)
      PROVE  Kept(b)'
  <2>1. /\ UNCHANGED <<content, posted, releasing>> /\ b # NoBitmaps
        /\ holder \in [Nodes -> Bitmaps \cup {NoBitmaps}]
    BY <1>2 DEF Visit, decoderVars, Shape, PageTypeOK, Bitmaps, NoBitmaps
  <2>2. CASE RecycleNode(n)
    BY <2>1, <2>2 DEF RecycleNode, Kept
  <2>3. CASE RedecodeNode(n) \/ DecodeNode(n) \/ LeaveNode
    BY <1>1, <2>1, <2>3 DEF RedecodeNode, DecodeNode, LeaveNode
  <2> QED
    BY <1>2, <2>2, <2>3, VisitCases
<1>3. CASE EndVisit
  <2>1. UNCHANGED <<holder, posted, content>> /\ Release(toRecycle)
    BY <1>3 DEF EndVisit, nodeVars, decoderVars
  <2> QED
    BY <2>1 DEF Release, Kept
<1>6. ASSUME NEW n \in Nodes, Finalize(n)
      PROVE  Kept(b)'
  <2>1. /\ UNCHANGED <<posted, content, toRecycle>> /\ b # NoBitmaps
        /\ holder \in [Nodes -> Bitmaps \cup {NoBitmaps}]
        /\ holder' = [holder EXCEPT ![n] = NoBitmaps]
        /\ Release({holder[n]} \ {NoBitmaps})
    BY <1>6 DEF Finalize, decoderVars, uiVars, Shape, PageTypeOK, Bitmaps, NoBitmaps
  <2> QED
    BY <2>1 DEF Release, Kept
<1>4. CASE Reset \/ Close \/ UNCHANGED pageVars \/ \E n \in Nodes : Request(n)
  BY <1>1, <1>4
  DEF Reset, Close, Request, Start, pageVars, nodeVars, decoderVars, uiVars
<1>5. CASE \E visits \in SUBSET Nodes : \/ Show(visits) \/ CommitZoom(visits)
                                        \/ \E z \in Views : SetZoom(z, visits)
  BY <1>1, <1>5 DEF Show, CommitZoom, SetZoom, Start, nodeVars, decoderVars
<1> QED
  BY <1>2, <1>3, <1>4, <1>5, <1>6, ImageRunPosted, ImageDecoder DEF PageNext, UI

(* A rendered image is held by a node object, on its way to one, or in a   *)
(* list of what is to be released: none is lost when the decoder thread    *)
(* writes into Bitmaps that the UI thread recycles meanwhile, or when its  *)
(* node has been dropped.                                                  *)
THEOREM ImagesAreKept == PageSpec => []NoImageLost
<1>1. PageInit => NoImageLost
  BY ViewsAssumption DEF PageInit, NoImageLost, Cleared
<1>2. Shape /\ NoImageLost /\ [PageNext]_pageVars => NoImageLost'
  <2> SUFFICES ASSUME Shape, NoImageLost, [PageNext]_pageVars, NEW b \in Bitmaps,
                      content'[b] \in Views
               PROVE  Kept(b)'
    BY DEF NoImageLost, Kept
  <2>1. content[b] \in Views => Kept(b)
    BY DEF NoImageLost, Kept
  <2> QED
    BY <2>1, ImageKept
<1> QED
  BY <1>1, <1>2, ShapeHolds, PTL DEF PageSpec
===============================================================================
