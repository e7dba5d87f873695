---------------------------- MODULE DecodeExecutor ----------------------------
(***************************************************************************)
(* The decoding service of the page viewer: DecodeServiceBase and its      *)
(* inner class Executor.  Clients (the UI thread, and the thread of a text *)
(* search) put tasks in a shared slot list; one decoder thread takes the   *)
(* most urgent task and renders it.  Every method of Executor runs under   *)
(* its lock, so each is one action; the decoder thread is split wherever   *)
(* it does not hold the lock.                                              *)
(***************************************************************************)
EXTENDS Naturals, Sequences

CONSTANTS
    Nodes,      \* page tree node objects: decodingTasks is an IdentityHashMap
    Views,      \* what DecodeTask.equals compares: zoom and width of a ViewState
    Patterns,   \* text search patterns
    NoTask,     \* null
    MaxTasks    \* bound: how many tasks are created in a behaviour

ASSUME MaxTasksAssumption == MaxTasks \in Nat

DecodeTask   == [kind : {"decode"}, id : Nat, node : Nodes, view : Views]
SearchTask   == [kind : {"search"}, id : Nat, pattern : Patterns]
ShutdownTask == [kind : {"shutdown"}, id : Nat]
Task         == DecodeTask \cup SearchTask \cup ShutdownTask

ASSUME NoTaskAssumption == NoTask \notin Task

VARIABLES
    decodingTasks,  \* the task registered for each node, or NoTask
    tasks,          \* the slot list; a free slot holds NoTask
    cancelled,      \* ids of the decode tasks whose cancelled flag is set
    nextId,         \* TASK_ID_SEQ
    isRecycled,     \* the service was told to shut down
    searching,      \* the search task a client has checked but not yet added
    pc,             \* where the decoder thread is
    current         \* the task it runs, or NoTask

vars == <<decodingTasks, tasks, cancelled, nextId, isRecycled, searching,
          pc, current>>

Init ==
    /\ decodingTasks = [n \in Nodes |-> NoTask]
    /\ tasks = <<>>
    /\ cancelled = {}
    /\ nextId = 1
    /\ isRecycled = FALSE
    /\ searching = NoTask
    /\ pc = "loop"
    /\ current = NoTask

-----------------------------------------------------------------------------
(* The slot list.  A new task reuses the first free slot; a task that is   *)
(* stopped leaves a free slot behind.                                      *)

Queued(t) == \E i \in DOMAIN tasks : tasks[i] = t

IsFirstFree(q, i) ==
    /\ i \in DOMAIN q
    /\ q[i] = NoTask
    /\ \A j \in DOMAIN q : q[j] = NoTask => i <= j

\* A variant that takes the last slot, free or not.
PutOverLast(q, t) ==
    IF q # <<>> THEN [q EXCEPT ![Len(q)] = t] ELSE Append(q, t)

Put(q, t) ==
    IF \E i \in DOMAIN q : q[i] = NoTask
    THEN [q EXCEPT ![CHOOSE i \in DOMAIN q : IsFirstFree(q, i)] = t]
    ELSE Append(q, t)

\* A variant that leaves the stopped tasks in their slots.
WithoutNone(q, gone) == q

Without(q, gone) == [i \in DOMAIN q |-> IF q[i] \in gone THEN NoTask ELSE q[i]]

\* A variant in which the shutdown waits for the other tasks.
PriorityShutdownLast(t) == CASE t.kind = "shutdown" -> 2
                             [] t.kind = "search"   -> 1
                             [] t.kind = "decode"   -> 0

(* TaskComparator: shutdown, then searches in the order of their ids, then *)
(* decoding.  PageTreeNodeComparator orders decode tasks by the distance   *)
(* of their nodes from the current view: any of them may be the nearest.   *)
Priority(t) == CASE t.kind = "shutdown" -> 0
                 [] t.kind = "search"   -> 1
                 [] t.kind = "decode"   -> 2

Before(t, u) ==
    \/ Priority(t) < Priority(u)
    \/ t.kind = "search" /\ u.kind = "search" /\ t.id < u.id

\* A variant that may pick a free slot.
CandidatesOrFree(q) ==
    {i \in DOMAIN q : \A j \in DOMAIN q :
        (q[i] # NoTask /\ q[j] # NoTask) => ~Before(q[j], q[i])}

Candidates(q) ==
    {i \in DOMAIN q : /\ q[i] # NoTask
                      /\ \A j \in DOMAIN q :
                             q[j] # NoTask => ~Before(q[j], q[i])}

(* run.notifyAll() reaches the decoder thread only while it waits.         *)
Notify == pc' = IF pc = "waiting" THEN "loop" ELSE pc

-----------------------------------------------------------------------------
(* Clients *)

IsDead(t) == t.id \in cancelled

NewDecodeTask(n, v) ==
    [kind |-> "decode", id |-> nextId, node |-> n, view |-> v]

SameRequest(old, n, v) == old # NoTask /\ old.view = v /\ ~IsDead(old)

Registered == {decodingTasks[n] : n \in Nodes} \ {NoTask}

\* A variant that unqueues the stopped tasks without flagging them.
CancelledByNone(ts) == {}

(* cancelled.set(true) on each of the stopped tasks.                       *)
CancelledBy(ts) == {t.id : t \in ts}

\* The task registered for n, as a set.
TaskOf(n) == {decodingTasks[n]} \ {NoTask}

(* decodePage: a request equal to the live registered one is dropped; any  *)
(* other replaces it, and the replaced task is cancelled and unqueued.     *)
DecodePage(n, v) ==
    /\ ~isRecycled
    /\ nextId <= MaxTasks
    /\ nextId' = nextId + 1
    /\ IF SameRequest(decodingTasks[n], n, v)
       THEN UNCHANGED <<decodingTasks, tasks, cancelled, pc>>
       ELSE LET t == NewDecodeTask(n, v) IN
            /\ decodingTasks' = [decodingTasks EXCEPT ![n] = t]
            /\ tasks' = Without(Put(tasks, t), TaskOf(n))
            /\ cancelled' = cancelled \cup CancelledBy(TaskOf(n))
            /\ Notify
    /\ UNCHANGED <<isRecycled, searching, current>>

(* Executor.stopDecoding(null, n, reason): drops whatever task is          *)
(* registered for n.                                                       *)
Unregister(n) ==
    /\ decodingTasks' = [decodingTasks EXCEPT ![n] = NoTask]
    /\ tasks' = Without(tasks, TaskOf(n))
    /\ cancelled' = cancelled \cup CancelledBy(TaskOf(n))

StopDecoding(n) ==
    /\ Unregister(n)
    /\ UNCHANGED <<nextId, isRecycled, searching, pc, current>>

(* searchText: the search thread tests isRecycled, then adds the task.     *)
SearchText(p) ==
    /\ ~isRecycled
    /\ searching = NoTask
    /\ nextId <= MaxTasks
    /\ searching' = [kind |-> "search", id |-> nextId, pattern |-> p]
    /\ nextId' = nextId + 1
    /\ UNCHANGED <<decodingTasks, tasks, cancelled, isRecycled, pc, current>>

AddSearch ==
    /\ searching # NoTask
    /\ tasks' = Put(tasks, searching)
    /\ searching' = NoTask
    /\ Notify
    /\ UNCHANGED <<decodingTasks, cancelled, nextId, isRecycled, current>>

StopSearch(p) ==
    /\ tasks' = [i \in DOMAIN tasks |->
                    IF /\ tasks[i] # NoTask
                       /\ tasks[i].kind = "search"
                       /\ tasks[i].pattern = p
                    THEN NoTask ELSE tasks[i]]
    /\ UNCHANGED <<decodingTasks, cancelled, nextId, isRecycled, searching,
                   pc, current>>

(* recycle: once only; stops every registered task without unregistering   *)
(* it, and appends the shutdown task.                                      *)
Recycle ==
    /\ ~isRecycled
    /\ isRecycled' = TRUE
    /\ cancelled' = cancelled \cup CancelledBy(Registered)
    /\ tasks' = Append(Without(tasks, Registered),
                       [kind |-> "shutdown", id |-> nextId])
    /\ nextId' = nextId + 1
    /\ Notify
    /\ UNCHANGED <<decodingTasks, searching, current>>

Client ==
    \/ \E n \in Nodes, v \in Views : DecodePage(n, v)
    \/ \E n \in Nodes : StopDecoding(n)
    \/ \E p \in Patterns : SearchText(p) \/ StopSearch(p)
    \/ AddSearch
    \/ Recycle

-----------------------------------------------------------------------------
(* The decoder thread *)

Goto(l) == pc' = l /\ UNCHANGED <<nextId, isRecycled, searching>>

(* nextTask, the part under the lock. *)
TakeTask ==
    /\ pc = "loop"
    /\ \E i \in Candidates(tasks) :
          /\ current' = tasks[i]
          /\ tasks' = [tasks EXCEPT ![i] = NoTask]
    /\ Goto("task")
    /\ UNCHANGED <<decodingTasks, cancelled>>

ClearSlots ==
    /\ pc = "loop"
    /\ tasks # <<>>
    /\ \A i \in DOMAIN tasks : tasks[i] = NoTask
    /\ tasks' = <<>>
    /\ Goto("loop")
    /\ UNCHANGED <<decodingTasks, cancelled, current>>

FindNothing ==
    /\ pc = "loop"
    /\ tasks = <<>>
    /\ Goto("unlocked")
    /\ UNCHANGED <<decodingTasks, tasks, cancelled, current>>

(* The lock is released before run.wait(60000) begins: a notification in   *)
(* between is lost.                                                        *)
BeginWait ==
    /\ pc = "unlocked"
    /\ Goto("waiting")
    /\ UNCHANGED <<decodingTasks, tasks, cancelled, current>>

\* A variant that waits without a time limit.
WaitForever == FALSE

WaitTimeout ==
    /\ pc = "waiting"
    /\ Goto("loop")
    /\ UNCHANGED <<decodingTasks, tasks, cancelled, current>>

(* performDecode reads the cancelled flag on entry, after opening the      *)
(* page, after cropping and after rendering.                               *)
After == [task |-> "page", page |-> "crop", crop |-> "render",
          render |-> "finish"]

IsDecoding == pc \in DOMAIN After /\ current.kind = "decode"

Proceed ==
    /\ IsDecoding
    /\ ~IsDead(current)
    /\ Goto(After[pc])
    /\ UNCHANGED <<decodingTasks, tasks, cancelled, current>>

Skip ==
    /\ IsDecoding
    /\ IsDead(current)
    /\ current' = NoTask
    /\ Goto("loop")
    /\ UNCHANGED <<decodingTasks, tasks, cancelled>>

(* abortDecoding and finishDecoding: both stop whatever task is registered *)
(* for the node, then hand the result, if any, to the node                 *)
(* (PageTreeNode.decodeComplete).  Everything after the first test may     *)
(* throw, decodeComplete included, and is answered by abortDecoding.       *)
Fail ==
    /\ pc \in {"page", "crop", "render", "finish", "complete"}
    /\ Unregister(current.node)
    /\ Goto("failed")
    /\ UNCHANGED current

\* A variant that forgets to stop the decoding of the node.
FinishRegistered ==
    /\ pc = "finish"
    /\ Goto("complete")
    /\ UNCHANGED <<decodingTasks, tasks, cancelled, current>>

Finish ==
    /\ pc = "finish"
    /\ Unregister(current.node)
    /\ Goto("complete")
    /\ UNCHANGED current

Deliver ==
    /\ pc \in {"complete", "failed"}
    /\ current' = NoTask
    /\ Goto("loop")
    /\ UNCHANGED <<decodingTasks, tasks, cancelled>>

(* SearchTask.run: calls back once, whether the search succeeds or throws. *)
RunSearch ==
    /\ pc = "task" /\ current.kind = "search"
    /\ current' = NoTask
    /\ Goto("loop")
    /\ UNCHANGED <<decodingTasks, tasks, cancelled>>

\* A variant that leaves run set.
ShutdownKeepsRunning ==
    /\ pc = "task" /\ current.kind = "shutdown"
    /\ current' = NoTask
    /\ Goto("loop")
    /\ UNCHANGED <<decodingTasks, tasks, cancelled>>

(* shutdown: closes pages, document and context and ends the thread.       *)
Shutdown ==
    /\ pc = "task" /\ current.kind = "shutdown"
    /\ current' = NoTask
    /\ Goto("done")
    /\ UNCHANGED <<decodingTasks, tasks, cancelled>>

Decoder ==
    \/ TakeTask \/ ClearSlots \/ FindNothing \/ BeginWait \/ WaitTimeout
    \/ Proceed \/ Skip \/ Fail \/ Finish \/ Deliver \/ RunSearch \/ Shutdown

Next == Client \/ Decoder

Spec == Init /\ [][Next]_vars

(* The decoder thread is never starved, and a wait of 60 s ends; a client  *)
(* that passed the test of searchText goes on to add its task.             *)
Fairness == WF_vars(Decoder) /\ WF_vars(AddSearch)

FairSpec == Spec /\ Fairness

-----------------------------------------------------------------------------
(* Properties *)

Working == {"task", "page", "crop", "render", "finish"}
Settled == {"complete", "failed"}

TypeOK ==
    /\ decodingTasks \in [Nodes -> DecodeTask \cup {NoTask}]
    /\ tasks \in Seq(Task \cup {NoTask})
    /\ cancelled \in SUBSET Nat
    /\ nextId \in Nat \ {0}
    /\ isRecycled \in BOOLEAN
    /\ searching \in SearchTask \cup {NoTask}
    /\ pc \in {"loop", "unlocked", "waiting", "done"} \cup Working \cup Settled
    /\ current \in Task \cup {NoTask}
    /\ pc \in Working \cup Settled <=> current # NoTask
    /\ pc \in (Working \cup Settled) \ {"task"} => current \in DecodeTask

\* The task t is still going to be rendered or is being rendered.
Pending(t) == Queued(t) \/ (current = t /\ pc \in Working)

\* A decode task nobody stopped is the one registered for its node, so that a
\* node never has two renderings under way and every rendering can be stopped
\* through its node (Executor.add replaces, stopDecoding cancels).
LiveIsRegistered ==
    \A t \in {tasks[i] : i \in DOMAIN tasks} \cup {current} :
        (t # NoTask /\ t.kind = "decode" /\ Pending(t) /\ ~IsDead(t))
            => decodingTasks[t.node] = t

\* No request is forgotten: the live task registered for a node waits in a slot
\* or is in the hands of the decoder thread.
RegisteredIsPending ==
    \A n \in Nodes :
        LET t == decodingTasks[n] IN
        (t # NoTask /\ ~IsDead(t)) => Pending(t)

\* Once the service is recycled the decoder thread starts nothing but the
\* shutdown: work that a client adds late never runs on closed documents.
OnlyShutdownAfterRecycle ==
    [][TakeTask /\ isRecycled => current'.kind = "shutdown"]_vars

\* Every registered request is answered or withdrawn, in spite of the
\* notification that is lost between unlock and wait.
RequestSettles ==
    \A n \in Nodes :
        (decodingTasks[n] # NoTask /\ ~IsDead(decodingTasks[n]))
            ~> (decodingTasks[n] = NoTask \/ IsDead(decodingTasks[n]))

\* Recycling the service ends its thread, whatever it was doing.
RecycleTerminates == isRecycled ~> pc = "done"

\* A search is never dropped: it leaves its slot for the decoder thread or
\* because its pattern was stopped.
SearchNotDropped ==
    [][\A t \in {tasks[i] : i \in DOMAIN tasks} :
           (t # NoTask /\ t.kind = "search")
               => \/ Queued(t)'
                  \/ current' = t
                  \/ StopSearch(t.pattern)]_vars

\* What the proofs need besides TypeOK.  A registration names its node and was
\* made before any task still to come.
RegistrationsKeyed ==
    \A n \in Nodes :
        decodingTasks[n] # NoTask =>
            decodingTasks[n].node = n /\ decodingTasks[n].id < nextId

\* A recycled service still has its shutdown ahead, or has ended.
ShutdownAhead ==
    isRecycled =>
        \/ \E i \in DOMAIN tasks :
               tasks[i] # NoTask /\ tasks[i].kind = "shutdown"
        \/ pc = "task" /\ current.kind = "shutdown"
        \/ pc = "done"

SearchQueued(id) ==
    \E i \in DOMAIN tasks :
        tasks[i] # NoTask /\ tasks[i].kind = "search" /\ tasks[i].id = id

\* A queued search is eventually run or stopped, unless the service is recycled
\* first: its client waits for the answer without a limit.
SearchSettles ==
    \A id \in 1 .. MaxTasks : SearchQueued(id) ~> (isRecycled \/ ~SearchQueued(id))
=============================================================================
