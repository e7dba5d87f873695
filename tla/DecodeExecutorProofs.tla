-------------------------- MODULE DecodeExecutorProofs --------------------------
(***************************************************************************)
(* Proofs about DecodeExecutor, for any set of nodes, views and patterns   *)
(* and any bound on the number of tasks: the slot list first, then type    *)
(* correctness, then the invariant Inductive one conjunct at a time, then  *)
(* that DecodeExecutor implements RequestBoard, and what becomes of        *)
(* searches.                                                               *)
(***************************************************************************)
EXTENDS DecodeExecutorRefinement, TLAPS, SequenceTheorems, WellFoundedInduction

Slot == Task \cup {NoTask}

-----------------------------------------------------------------------------
(* The slot list *)

(* A nonempty set of naturals has a least element.                         *)
LEMMA LeastNatural ==
    ASSUME NEW S \in SUBSET Nat, S # {}
    PROVE  \E x \in S : \A y \in S : x <= y
<1>1. \E x \in S : \A y \in S : <<y, x>> \notin OpToRel(<, Nat)
  BY WFMin, NatLessThanWellFounded, Zenon
<1>2. \A x, y \in Nat : <<y, x>> \notin OpToRel(<, Nat) => x <= y
  BY DEF OpToRel
<1> QED
  BY <1>1, <1>2

(* When a slot is free, Put finds the first one.                           *)
LEMMA FirstFreeExists ==
    ASSUME NEW q \in Seq(Slot), \E i \in DOMAIN q : q[i] = NoTask
    PROVE  IsFirstFree(q, CHOOSE i \in DOMAIN q : IsFirstFree(q, i))
<1> DEFINE Free == {i \in DOMAIN q : q[i] = NoTask}
<1>1. Free \in SUBSET Nat /\ Free # {}
  BY LenProperties
<1>2. PICK x \in Free : \A y \in Free : x <= y
  BY <1>1, LeastNatural
<1>3. x \in DOMAIN q /\ IsFirstFree(q, x)
  BY <1>2 DEF IsFirstFree
<1> QED
  BY <1>3

(* Put adds its task, keeps every task already there, and adds no other.   *)
LEMMA PutProperties ==
    ASSUME NEW q \in Seq(Slot), NEW t \in Slot
    PROVE  /\ Put(q, t) \in Seq(Slot)
           /\ \E j \in DOMAIN Put(q, t) : Put(q, t)[j] = t
           /\ \A i \in DOMAIN q : q[i] # NoTask =>
                  \E j \in DOMAIN Put(q, t) : Put(q, t)[j] = q[i]
           /\ \A j \in DOMAIN Put(q, t) :
                  \/ Put(q, t)[j] = t
                  \/ \E i \in DOMAIN q : q[i] = Put(q, t)[j]
<1>1. CASE \E i \in DOMAIN q : q[i] = NoTask
  <2> DEFINE f == CHOOSE i \in DOMAIN q : IsFirstFree(q, i)
  <2>1. f \in DOMAIN q /\ q[f] = NoTask
    BY <1>1, FirstFreeExists DEF IsFirstFree
  <2>2. Put(q, t) = [q EXCEPT ![f] = t]
    BY <1>1 DEF Put
  <2> HIDE DEF f
  <2> QED
    BY <2>1, <2>2, ExceptSeq, LenProperties
<1>2. CASE ~\E i \in DOMAIN q : q[i] = NoTask
  <2>1. Put(q, t) = Append(q, t)
    BY <1>2 DEF Put
  <2> QED
    BY <2>1, AppendProperties, LenProperties
<1> QED
  BY <1>1, <1>2

(* Without frees slots and changes nothing else.                           *)
LEMMA WithoutProperties ==
    ASSUME NEW q \in Seq(Slot), NEW gone
    PROVE  /\ Without(q, gone) \in Seq(Slot)
           /\ DOMAIN Without(q, gone) = DOMAIN q
           /\ \A i \in DOMAIN q :
                  Without(q, gone)[i] = IF q[i] \in gone THEN NoTask ELSE q[i]
<1>1. /\ Len(q) \in Nat
      /\ DOMAIN q = 1 .. Len(q)
      /\ \A i \in 1 .. Len(q) : q[i] \in Slot
  BY LenProperties
<1>2. Without(q, gone) \in Seq(Slot)
  <2>1. NoTask \in Slot
    BY DEF Slot
  <2>2. Without(q, gone) \in [1 .. Len(q) -> Slot]
    BY <1>1, <2>1 DEF Without
  <2> QED
    BY <1>1, <2>2, SeqDef
<1> QED
  BY <1>2 DEF Without

-----------------------------------------------------------------------------
(* Type correctness *)

(* The three kinds of tasks, told apart by their field kind.               *)
LEMMA TaskSets ==
    /\ DecodeTask \subseteq Task /\ SearchTask \subseteq Task
    /\ NoTask \in Slot /\ NoTask \notin Task
    /\ \A t \in Task : t.id \in Nat
    /\ \A t \in DecodeTask : t.kind = "decode" /\ t.node \in Nodes
    /\ \A t \in SearchTask : t.kind = "search"
    /\ \A t \in ShutdownTask : t.kind = "shutdown"
    /\ \A t \in Task : /\ t.kind = "decode" => t \in DecodeTask
                       /\ t.kind = "search" => t \in SearchTask
                       /\ t.kind = "shutdown" => t \in ShutdownTask
  BY NoTaskAssumption DEF Task, DecodeTask, SearchTask, ShutdownTask, Slot

(* What stopDecoding does to the three variables it writes.                *)
LEMMA UnregisterType ==
    ASSUME TypeOK, NEW n \in Nodes, Unregister(n)
    PROVE  /\ decodingTasks' \in [Nodes -> DecodeTask \cup {NoTask}]
           /\ tasks' \in Seq(Slot)
           /\ cancelled' \in SUBSET Nat
<1>1. tasks \in Seq(Slot)
  BY DEF TypeOK, Slot
<1>2. TaskOf(n) \in SUBSET DecodeTask
  BY DEF TaskOf, TypeOK
<1>3. CancelledBy(TaskOf(n)) \in SUBSET Nat
  BY <1>2, TaskSets DEF CancelledBy
<1> QED
  BY <1>1, <1>3, WithoutProperties DEF Unregister, TypeOK

(* What the clients of the service do keeps the types.                     *)
LEMMA ClientType == TypeOK /\ Client => TypeOK'
<1> SUFFICES ASSUME TypeOK, Client
             PROVE  TypeOK'
  OBVIOUS
<1> USE TaskSets DEF Working, Settled
<1>0. tasks \in Seq(Slot)
  BY DEF TypeOK, Slot
<1>1. ASSUME NEW n \in Nodes, NEW v \in Views, DecodePage(n, v)
      PROVE  TypeOK'
  <2>0. isRecycled' \in BOOLEAN
    BY <1>1 DEF DecodePage, TypeOK
  <2>1. CASE SameRequest(decodingTasks[n], n, v)
    <3>1. nextId' \in Nat \ {0}
      BY <1>1 DEF DecodePage, TypeOK
    <3>2. UNCHANGED <<decodingTasks, tasks, cancelled, searching, pc, current>>
      BY <1>1, <2>1 DEF DecodePage
    <3> QED
      BY <2>0, <3>1, <3>2 DEF TypeOK
  <2>2. CASE ~SameRequest(decodingTasks[n], n, v)
    <3> DEFINE t == NewDecodeTask(n, v)
    <3>1. t \in DecodeTask
      BY DEF NewDecodeTask, DecodeTask, TypeOK
    <3>2. CancelledBy(TaskOf(n)) \in SUBSET Nat
      BY DEF CancelledBy, TaskOf, TypeOK
    <3>3. Put(tasks, t) \in Seq(Slot)
      BY <1>0, <3>1, PutProperties DEF Slot
    <3>4. tasks' \in Seq(Slot)
      BY <1>1, <2>2, <3>3, WithoutProperties DEF DecodePage
    <3>5. decodingTasks' \in [Nodes -> DecodeTask \cup {NoTask}]
      BY <1>1, <2>2, <3>1 DEF DecodePage, TypeOK
    <3>6. nextId' \in Nat \ {0}
      BY <1>1 DEF DecodePage, TypeOK
    <3>7. cancelled' \in SUBSET Nat
      BY <1>1, <2>2, <3>2 DEF DecodePage, TypeOK
    <3>8. UNCHANGED <<searching, current>> /\ Notify
      BY <1>1, <2>2 DEF DecodePage
    <3> QED
      BY <2>0, <3>4, <3>5, <3>6, <3>7, <3>8 DEF Notify, TypeOK, Slot
  <2> QED
    BY <2>1, <2>2
<1>2. ASSUME NEW n \in Nodes, StopDecoding(n)
      PROVE  TypeOK'
  BY <1>2, UnregisterType DEF StopDecoding, TypeOK, Slot
<1>3. ASSUME NEW p \in Patterns, SearchText(p)
      PROVE  TypeOK'
  BY <1>3 DEF SearchText, TypeOK, SearchTask
<1>4. CASE AddSearch
  <2>1. tasks' \in Seq(Slot)
    BY <1>0, <1>4, PutProperties DEF AddSearch, TypeOK, Slot
  <2> QED
    BY <1>4, <2>1 DEF AddSearch, Notify, TypeOK, Slot, Working, Settled
<1>5. ASSUME NEW p \in Patterns, StopSearch(p)
      PROVE  TypeOK'
  <2>1. /\ Len(tasks) \in Nat
        /\ DOMAIN tasks = 1 .. Len(tasks)
        /\ \A i \in 1 .. Len(tasks) : tasks[i] \in Slot
    BY <1>0, LenProperties
  <2>2. tasks' \in [1 .. Len(tasks) -> Slot]
    BY <1>5, <2>1 DEF StopSearch
  <2>3. tasks' \in Seq(Slot)
    BY <2>1, <2>2, SeqDef
  <2> QED
    BY <1>5, <2>3 DEF StopSearch, TypeOK, Slot
<1>6. CASE Recycle
  <2> DEFINE t == [kind |-> "shutdown", id |-> nextId]
  <2>1. t \in Slot
    BY DEF ShutdownTask, Task, Slot, TypeOK
  <2>2. tasks' \in Seq(Slot)
    BY <1>0, <1>6, <2>1, WithoutProperties, AppendProperties DEF Recycle
  <2>3. CancelledBy(Registered) \in SUBSET Nat
    BY DEF CancelledBy, Registered, TypeOK
  <2>4. isRecycled' \in BOOLEAN
    BY <1>6 DEF Recycle
  <2>5. nextId' \in Nat \ {0}
    BY <1>6 DEF Recycle, TypeOK
  <2>6. cancelled' \in SUBSET Nat
    BY <1>6, <2>3 DEF Recycle, TypeOK
  <2>7. UNCHANGED <<decodingTasks, searching, current>> /\ Notify
    BY <1>6 DEF Recycle
  <2> QED
    BY <2>2, <2>4, <2>5, <2>6, <2>7 DEF Notify, TypeOK, Slot
<1> QED
  BY <1>1, <1>2, <1>3, <1>4, <1>5, <1>6 DEF Client

(* What the decoder thread does keeps the types.                           *)
LEMMA DecoderType == TypeOK /\ Decoder => TypeOK'
<1> SUFFICES ASSUME TypeOK, Decoder
             PROVE  TypeOK'
  OBVIOUS
<1> USE TaskSets DEF Goto, Working, Settled
<1>0. tasks \in Seq(Slot)
  BY DEF TypeOK, Slot
<1>1. CASE TakeTask
  <2>1. PICK i \in Candidates(tasks) :
            current' = tasks[i] /\ tasks' = [tasks EXCEPT ![i] = NoTask]
    BY <1>1 DEF TakeTask
  <2>2. i \in 1 .. Len(tasks) /\ tasks[i] \in Task
    BY <1>0, <2>1, LenProperties DEF Candidates, Slot
  <2>3. tasks' \in Seq(Slot)
    BY <1>0, <2>1, <2>2, ExceptSeq
  <2> QED
    BY <1>1, <2>1, <2>2, <2>3 DEF TakeTask, TypeOK, Slot
<1>2. CASE ClearSlots
  BY <1>2, EmptySeq DEF ClearSlots, TypeOK
<1>3. CASE FindNothing \/ BeginWait \/ WaitTimeout
  BY <1>3 DEF FindNothing, BeginWait, WaitTimeout, TypeOK
<1>4. CASE Proceed
  BY <1>4 DEF Proceed, IsDecoding, After, TypeOK
<1>5. CASE Skip
  BY <1>5 DEF Skip, TypeOK
<1>6. CASE Fail
  <2>1. current \in DecodeTask
    BY <1>6 DEF Fail, TypeOK
  <2> QED
    BY <1>6, <2>1, UnregisterType DEF Fail, TypeOK, Slot
<1>7. CASE Finish
  <2>1. current \in DecodeTask
    BY <1>7 DEF Finish, TypeOK
  <2> QED
    BY <1>7, <2>1, UnregisterType DEF Finish, TypeOK, Slot
<1>8. CASE Deliver \/ RunSearch \/ Shutdown
  BY <1>8 DEF Deliver, RunSearch, Shutdown, TypeOK
<1> QED
  BY <1>1, <1>2, <1>3, <1>4, <1>5, <1>6, <1>7, <1>8 DEF Decoder

(* The service starts with values of their types.                          *)
LEMMA InitType == Init => TypeOK
<1>1. Init => isRecycled \in BOOLEAN
  BY DEF Init
<1> QED
  BY <1>1, EmptySeq, TaskSets DEF Init, TypeOK, Working, Settled

(* Each step keeps the types.                                              *)
LEMMA StepType == TypeOK /\ Next => TypeOK'
  BY ClientType, DecoderType DEF Next

(* Type correctness of every reachable state.                              *)
THEOREM TypeCorrect == Spec => []TypeOK
<1>1. TypeOK /\ [Next]_vars => TypeOK'
  BY StepType DEF vars, TypeOK
<1> QED
  BY InitType, <1>1, PTL DEF Spec

-----------------------------------------------------------------------------
(* What the actions do to the slot list, as a set of tasks *)

(* Unregistering a node takes its task out of the queue and leaves the     *)
(* others.                                                                 *)
LEMMA QueuedAfterUnregister ==
    ASSUME TypeOK, NEW n \in Nodes, Unregister(n), NEW t \in Task
    PROVE  Queued(t)' <=> Queued(t) /\ t # decodingTasks[n]
<1>1. tasks \in Seq(Slot)
  BY DEF TypeOK, Slot
<1>2. /\ DOMAIN tasks' = DOMAIN tasks
      /\ \A i \in DOMAIN tasks :
             tasks'[i] = IF tasks[i] \in TaskOf(n) THEN NoTask ELSE tasks[i]
  BY <1>1, WithoutProperties DEF Unregister
<1>3. t # NoTask
  BY TaskSets
<1> QED
  BY <1>2, <1>3 DEF Queued, TaskOf

(* Executor.add queues the new task and takes the old one of the node      *)
(* out.                                                                    *)
LEMMA QueuedAfterAdd ==
    ASSUME TypeOK, NEW n \in Nodes, NEW u \in Task, NEW t \in Task,
           tasks' = Without(Put(tasks, u), TaskOf(n))
    PROVE  Queued(t)' <=> (Queued(t) \/ t = u) /\ t # decodingTasks[n]
<1> DEFINE q == Put(tasks, u)
<1>1. tasks \in Seq(Slot) /\ u \in Slot
  BY DEF TypeOK, Slot
<1>2. /\ q \in Seq(Slot)
      /\ \E j \in DOMAIN q : q[j] = u
      /\ \A i \in DOMAIN tasks : tasks[i] # NoTask =>
             \E j \in DOMAIN q : q[j] = tasks[i]
      /\ \A j \in DOMAIN q :
             \/ q[j] = u
             \/ \E i \in DOMAIN tasks : tasks[i] = q[j]
  BY <1>1, PutProperties
<1>3. t # NoTask
  BY TaskSets
<1>4. (\E j \in DOMAIN q : q[j] = t) <=> Queued(t) \/ t = u
  BY <1>2, <1>3 DEF Queued
<1> HIDE DEF q
<1>5. /\ DOMAIN tasks' = DOMAIN q
      /\ \A j \in DOMAIN q :
             tasks'[j] = IF q[j] \in TaskOf(n) THEN NoTask ELSE q[j]
  <2>1. tasks' = Without(q, TaskOf(n))
    BY DEF q
  <2> QED
    BY <1>2, <2>1, WithoutProperties
<1> QED
  BY <1>3, <1>4, <1>5 DEF Queued, TaskOf

(* A new search is queued and displaces nothing.                           *)
LEMMA QueuedAfterAddSearch ==
    ASSUME TypeOK, AddSearch, NEW t \in Task
    PROVE  Queued(t)' <=> Queued(t) \/ t = searching
<1> DEFINE q == Put(tasks, searching)
<1>1. tasks \in Seq(Slot) /\ searching \in SearchTask /\ searching \in Slot
  BY TaskSets DEF TypeOK, Slot, AddSearch
<1>2. t # NoTask
  BY TaskSets
<1>3. tasks' = q
  BY DEF AddSearch
<1>4. /\ \E j \in DOMAIN q : q[j] = searching
      /\ \A i \in DOMAIN tasks : tasks[i] # NoTask =>
             \E j \in DOMAIN q : q[j] = tasks[i]
      /\ \A j \in DOMAIN q :
             \/ q[j] = searching
             \/ \E i \in DOMAIN tasks : tasks[i] = q[j]
  BY <1>1, PutProperties
<1> HIDE DEF q
<1>5. ASSUME Queued(t)' PROVE Queued(t) \/ t = searching
  <2>1. PICK j \in DOMAIN q : q[j] = t
    BY <1>3, <1>5 DEF Queued
  <2>2. t = searching \/ \E i \in DOMAIN tasks : tasks[i] = t
    BY <1>4, <2>1
  <2> QED
    BY <2>2 DEF Queued
<1>6. ASSUME Queued(t) \/ t = searching PROVE Queued(t)'
  BY <1>2, <1>3, <1>4, <1>6 DEF Queued
<1> QED
  BY <1>5, <1>6

(* stopSearch takes out of the queue no task but searches.                 *)
LEMMA QueuedAfterStopSearch ==
    ASSUME TypeOK, NEW p \in Patterns, StopSearch(p), NEW t \in Task
    PROVE  /\ Queued(t)' => Queued(t)
           /\ t.kind # "search" /\ Queued(t) => Queued(t)'
<1>1. /\ DOMAIN tasks' = DOMAIN tasks
      /\ \A i \in DOMAIN tasks :
             \/ tasks'[i] = tasks[i]
             \/ tasks'[i] = NoTask /\ tasks[i].kind = "search"
  BY DEF StopSearch
<1>2. t # NoTask
  BY TaskSets
<1> QED
  BY <1>1, <1>2 DEF Queued

(* recycle leaves what was not registered queued, takes the registered     *)
(* tasks out and queues a shutdown.                                        *)
LEMMA QueuedAfterRecycle ==
    ASSUME TypeOK, Recycle, NEW t \in Task
    PROVE  /\ Queued(t)' => \/ Queued(t) /\ t \notin Registered
                            \/ t.kind = "shutdown"
           /\ Queued(t) /\ t \notin Registered => Queued(t)'
           /\ \E i \in DOMAIN tasks' :
                  tasks'[i] # NoTask /\ tasks'[i].kind = "shutdown"
<1> DEFINE q == Without(tasks, Registered)
           u == [kind |-> "shutdown", id |-> nextId]
<1>1. tasks \in Seq(Slot)
  BY DEF TypeOK, Slot
<1>2. /\ q \in Seq(Slot)
      /\ DOMAIN q = DOMAIN tasks
      /\ \A i \in DOMAIN tasks :
             q[i] = IF tasks[i] \in Registered THEN NoTask ELSE tasks[i]
  BY <1>1, WithoutProperties
<1>3. u \in Slot /\ u.kind = "shutdown" /\ u # NoTask /\ t # NoTask
  BY TaskSets DEF TypeOK, ShutdownTask, Task, Slot
<1>4. tasks' = Append(q, u)
  BY DEF Recycle
<1> HIDE DEF q, u
<1>5. /\ Len(q) \in Nat /\ DOMAIN q = 1 .. Len(q)
      /\ DOMAIN tasks' = 1 .. (Len(q) + 1)
      /\ \A i \in 1 .. Len(q) : tasks'[i] = q[i]
      /\ tasks'[Len(q) + 1] = u
  BY <1>2, <1>3, <1>4, AppendProperties, LenProperties
<1>6. Len(q) + 1 \in DOMAIN tasks'
  BY <1>5
<1>7. \A i \in DOMAIN tasks' : i \in DOMAIN q \/ i = Len(q) + 1
  BY <1>5
<1>8. ASSUME Queued(t), t \notin Registered PROVE Queued(t)'
  <2>1. PICK i \in DOMAIN tasks : tasks[i] = t
    BY <1>8 DEF Queued
  <2>2. i \in 1 .. Len(q) /\ q[i] = t
    BY <1>2, <1>5, <1>8, <2>1
  <2>3. i \in DOMAIN tasks' /\ tasks'[i] = t
    BY <1>5, <2>2
  <2> QED
    BY <2>3 DEF Queued
<1>9. Queued(t)' => (Queued(t) /\ t \notin Registered) \/ t.kind = "shutdown"
  BY <1>2, <1>3, <1>5, <1>7 DEF Queued
<1> QED
  BY <1>3, <1>5, <1>6, <1>8, <1>9

(* TakeTask moves one task from its slot to the decoder thread.            *)
LEMMA QueuedAfterTake ==
    ASSUME TypeOK, TakeTask, NEW t \in Task
    PROVE  /\ Queued(t)' => Queued(t)
           /\ Queued(t) => Queued(t)' \/ current' = t
           /\ current' \in Task /\ Queued(current')
<1>1. tasks \in Seq(Slot)
  BY DEF TypeOK, Slot
<1>2. PICK i \in Candidates(tasks) :
          current' = tasks[i] /\ tasks' = [tasks EXCEPT ![i] = NoTask]
  BY DEF TakeTask
<1>3. i \in DOMAIN tasks /\ tasks[i] \in Task
  BY <1>1, <1>2, LenProperties DEF Candidates, Slot
<1>4. t # NoTask
  BY TaskSets
<1> QED
  BY <1>2, <1>3, <1>4 DEF Queued

-----------------------------------------------------------------------------
(* The invariant *)

(* LiveIsRegistered, with the quantifier over all decode tasks.            *)
LiveRegistered ==
    \A t \in DecodeTask : Pending(t) /\ ~IsDead(t) => decodingTasks[t.node] = t

(* The property of the runs and its restatement say the same.              *)
LEMMA LiveRestated == TypeOK => (LiveIsRegistered <=> LiveRegistered)
<1> SUFFICES ASSUME TypeOK
             PROVE  LiveIsRegistered <=> LiveRegistered
  OBVIOUS
<1>1. \A t \in DecodeTask :
         Pending(t) => t \in {tasks[i] : i \in DOMAIN tasks} \cup {current}
  BY DEF Pending, Queued
<1>2. \A t \in {tasks[i] : i \in DOMAIN tasks} \cup {current} :
         t # NoTask /\ t.kind = "decode" => t \in DecodeTask
  <2>1. \A i \in DOMAIN tasks : tasks[i] \in Slot
    BY LenProperties DEF TypeOK, Slot
  <2> QED
    BY <2>1, TaskSets DEF TypeOK, Slot
<1>3. \A t \in DecodeTask : t # NoTask /\ t.kind = "decode"
  BY TaskSets
<1> QED
  BY <1>1, <1>2, <1>3 DEF LiveIsRegistered, LiveRegistered

(* Stopping the task of a node keeps every live task registered.           *)
LEMMA UnregisterLive ==
    ASSUME TypeOK, LiveRegistered, NEW n \in Nodes, Unregister(n),
           NEW t \in DecodeTask, Queued(t)' \/ Pending(t), ~IsDead(t)'
    PROVE  decodingTasks'[t.node] = t
<1>1. Pending(t)
  BY QueuedAfterUnregister, TaskSets DEF Pending
<1>2. cancelled' = cancelled \cup CancelledBy(TaskOf(n))
  BY DEF Unregister
<1>3. ~IsDead(t)
  BY <1>2 DEF IsDead
<1>4. decodingTasks[t.node] = t
  BY <1>1, <1>3 DEF LiveRegistered
<1>5. t.node # n
  <2> SUFFICES ASSUME t.node = n
               PROVE  FALSE
    OBVIOUS
  <2>1. t \in TaskOf(n)
    BY <1>4, TaskSets DEF TaskOf
  <2> QED
    BY <1>2, <2>1 DEF CancelledBy, IsDead
<1> QED
  BY <1>4, <1>5, TaskSets DEF Unregister, TypeOK

(* Each step keeps live tasks registered.                                  *)
LEMMA LivePreserved ==
    TypeOK /\ TypeOK' /\ LiveRegistered /\ Next => LiveRegistered'
<1> SUFFICES ASSUME TypeOK, TypeOK', LiveRegistered, Next,
                    NEW t \in DecodeTask, Pending(t)', ~IsDead(t)'
             PROVE  decodingTasks'[t.node] = t
  BY DEF LiveRegistered
<1> USE TaskSets
<1>0. ~IsDead(t) /\ Pending(t) => decodingTasks[t.node] = t
  BY DEF LiveRegistered
<1>1. ASSUME NEW n \in Nodes, NEW v \in Views, DecodePage(n, v)
      PROVE  decodingTasks'[t.node] = t
  <2>1. CASE SameRequest(decodingTasks[n], n, v)
    BY <1>0, <1>1, <2>1 DEF DecodePage, Pending, Queued, IsDead
  <2>2. CASE ~SameRequest(decodingTasks[n], n, v)
    <3> DEFINE u == NewDecodeTask(n, v)
    <3>1. /\ decodingTasks' = [decodingTasks EXCEPT ![n] = u]
          /\ tasks' = Without(Put(tasks, u), TaskOf(n))
          /\ cancelled' = cancelled \cup CancelledBy(TaskOf(n))
          /\ current' = current /\ Notify
      BY <1>1, <2>2 DEF DecodePage
    <3>2. u \in DecodeTask /\ u.node = n
      BY DEF NewDecodeTask, DecodeTask, TypeOK
    <3> HIDE DEF u
    <3>3. CASE t = u
      BY <3>1, <3>2, <3>3 DEF TypeOK
    <3>4. CASE t # u
      <4>1. ~IsDead(t)
        BY <3>1 DEF IsDead
      <4>2. Pending(t)
        BY <3>1, <3>2, <3>4, QueuedAfterAdd DEF Pending, Notify, Working
      <4>3. decodingTasks[t.node] = t
        BY <1>0, <4>1, <4>2
      <4>4. t.node # n
        BY <3>1, <4>3 DEF TaskOf, CancelledBy, IsDead
      <4> QED
        BY <3>1, <4>3, <4>4 DEF TypeOK
    <3> QED
      BY <3>3, <3>4
  <2> QED
    BY <2>1, <2>2
<1>2. ASSUME NEW n \in Nodes, StopDecoding(n)
      PROVE  decodingTasks'[t.node] = t
  BY <1>2, UnregisterLive DEF StopDecoding, Pending, IsDead
<1>3. ASSUME NEW p \in Patterns, SearchText(p)
      PROVE  decodingTasks'[t.node] = t
  BY <1>0, <1>3 DEF SearchText, Pending, Queued, IsDead
<1>4. CASE AddSearch
  <2>1. t # searching
    BY <1>4 DEF AddSearch, TypeOK
  <2>2. Pending(t)
    BY <1>4, <2>1, QueuedAfterAddSearch DEF AddSearch, Pending, Notify, Working
  <2> QED
    BY <1>0, <1>4, <2>2 DEF AddSearch, IsDead
<1>5. ASSUME NEW p \in Patterns, StopSearch(p)
      PROVE  decodingTasks'[t.node] = t
  BY <1>0, <1>5, QueuedAfterStopSearch DEF StopSearch, Pending, IsDead
<1>6. CASE Recycle
  <2>1. Pending(t) /\ ~IsDead(t)
    BY <1>6, QueuedAfterRecycle DEF Recycle, Pending, Notify, Working, IsDead
  <2>2. t \in Registered
    BY <1>0, <2>1 DEF Registered
  <2> QED
    BY <1>6, <2>2 DEF Recycle, CancelledBy, IsDead
<1>7. CASE TakeTask
  <2>1. Pending(t)
    BY <1>7, QueuedAfterTake DEF Pending
  <2> QED
    BY <1>0, <1>7, <2>1 DEF TakeTask, Goto, IsDead
<1>8. CASE ClearSlots
  BY <1>0, <1>8 DEF ClearSlots, Goto, Pending, Queued, IsDead, Working
<1>9. CASE FindNothing \/ BeginWait \/ WaitTimeout
  BY <1>0, <1>9 DEF FindNothing, BeginWait, WaitTimeout, Goto, Pending,
                    Queued, IsDead, Working
<1>10. CASE Proceed
  BY <1>0, <1>10 DEF Proceed, IsDecoding, After, Goto, Pending, Queued, IsDead,
                     Working
<1>11. CASE Fail \/ Finish
  <2>1. Unregister(current.node) /\ current \in DecodeTask
    BY <1>11 DEF Fail, Finish, TypeOK, Working, Settled
  <2>2. Queued(t)'
    BY <1>11 DEF Fail, Finish, Goto, Pending, Working
  <2> QED
    BY <2>1, <2>2, UnregisterLive
<1>12. CASE Skip \/ Deliver \/ RunSearch \/ Shutdown
  BY <1>0, <1>12 DEF Skip, Deliver, RunSearch, Shutdown, Goto, Pending, Queued,
                     IsDead, Working
<1> QED
  BY <1>1, <1>2, <1>3, <1>4, <1>5, <1>6, <1>7, <1>8, <1>9, <1>10, <1>11, <1>12
  DEF Next, Client, Decoder

(* Each step keeps a registration under the node of its task, and older    *)
(* than the tasks to come.                                                 *)
LEMMA KeyedPreserved ==
    TypeOK /\ TypeOK' /\ RegistrationsKeyed /\ Next => RegistrationsKeyed'
<1> SUFFICES ASSUME TypeOK, TypeOK', RegistrationsKeyed, Next, NEW m \in Nodes,
                    decodingTasks'[m] # NoTask
             PROVE  /\ decodingTasks'[m].node = m
                    /\ decodingTasks'[m].id < nextId'
  BY DEF RegistrationsKeyed
<1> USE TaskSets
<1>0. decodingTasks[m] # NoTask =>
          /\ decodingTasks[m].node = m
          /\ decodingTasks[m].id < nextId
          /\ decodingTasks[m].id \in Nat
  BY DEF RegistrationsKeyed, TypeOK
<1>1. ASSUME NEW n \in Nodes, NEW v \in Views, DecodePage(n, v)
      PROVE  /\ decodingTasks'[m].node = m
             /\ decodingTasks'[m].id < nextId'
  <2>1. nextId' = nextId + 1 /\ nextId \in Nat
    BY <1>1 DEF DecodePage, TypeOK
  <2>2. \/ decodingTasks' = decodingTasks
        \/ decodingTasks' = [decodingTasks EXCEPT ![n] = NewDecodeTask(n, v)]
    BY <1>1 DEF DecodePage
  <2>3. decodingTasks'[m] = decodingTasks[m]
            \/ (m = n /\ decodingTasks'[m] = NewDecodeTask(n, v))
    BY <2>2 DEF TypeOK
  <2>4. NewDecodeTask(n, v).node = n /\ NewDecodeTask(n, v).id = nextId
    BY DEF NewDecodeTask
  <2> QED
    BY <1>0, <2>1, <2>3, <2>4
<1>2. ASSUME NEW n \in Nodes, Unregister(n), nextId' = nextId
      PROVE  /\ decodingTasks'[m].node = m
             /\ decodingTasks'[m].id < nextId'
  <2>1. decodingTasks'[m] = decodingTasks[m]
    BY <1>2 DEF Unregister, TypeOK
  <2> QED
    BY <1>0, <1>2, <2>1
<1>3. ASSUME decodingTasks' = decodingTasks,
             nextId' = nextId \/ nextId' = nextId + 1
      PROVE  /\ decodingTasks'[m].node = m
             /\ decodingTasks'[m].id < nextId'
  <2>1. nextId \in Nat
    BY DEF TypeOK
  <2> QED
    BY <1>0, <1>3, <2>1
<1>4. CASE Client
  <2>1. \/ \E n \in Nodes, v \in Views : DecodePage(n, v)
        \/ \E n \in Nodes : Unregister(n) /\ nextId' = nextId
        \/ decodingTasks' = decodingTasks
               /\ (nextId' = nextId \/ nextId' = nextId + 1)
    BY <1>4 DEF Client, StopDecoding, SearchText, AddSearch, StopSearch, Recycle
  <2> QED
    BY <1>1, <1>2, <1>3, <2>1
<1>5. CASE Decoder
  <2>1. CASE Fail \/ Finish
    <3>1. Unregister(current.node) /\ nextId' = nextId
      BY <2>1 DEF Fail, Finish, Goto
    <3>2. current.node \in Nodes
      BY <2>1 DEF Fail, Finish, TypeOK, Working, Settled
    <3> QED
      BY <1>2, <3>1, <3>2
  <2>2. CASE ~(Fail \/ Finish)
    BY <1>3, <1>5, <2>2
    DEF Decoder, TakeTask, ClearSlots, FindNothing, BeginWait, WaitTimeout,
        Proceed, Skip, Deliver, RunSearch, Shutdown, Goto
  <2> QED
    BY <2>1, <2>2
<1> QED
  BY <1>4, <1>5 DEF Next

(* Stopping the task of a node forgets no request of another node.         *)
LEMMA UnregisterPending ==
    ASSUME TypeOK, RegistrationsKeyed, RegisteredIsPending,
           NEW n \in Nodes, Unregister(n), NEW m \in Nodes,
           decodingTasks'[m] # NoTask, ~IsDead(decodingTasks[m])'
    PROVE  /\ m # n /\ decodingTasks'[m] = decodingTasks[m]
           /\ decodingTasks[m].node = m
           /\ Queued(decodingTasks[m]) => Queued(decodingTasks[m])'
           /\ Pending(decodingTasks[m])
<1>1. m # n /\ decodingTasks'[m] = decodingTasks[m]
  BY DEF Unregister, TypeOK
<1>2. decodingTasks[m] \in DecodeTask /\ decodingTasks[m].node = m
  BY <1>1 DEF RegistrationsKeyed, TypeOK
<1>3. decodingTasks[m] # decodingTasks[n]
  BY <1>1, <1>2 DEF RegistrationsKeyed
<1>4. ~IsDead(decodingTasks[m])
  BY <1>1 DEF Unregister, IsDead
<1>5. tasks \in Seq(Slot)
  BY DEF TypeOK, Slot
<1>6. /\ DOMAIN tasks' = DOMAIN tasks
      /\ \A i \in DOMAIN tasks :
             tasks'[i] = IF tasks[i] \in TaskOf(n) THEN NoTask ELSE tasks[i]
  BY <1>5, WithoutProperties DEF Unregister
<1>7. Queued(decodingTasks[m]) => Queued(decodingTasks[m])'
  BY <1>1, <1>3, <1>6 DEF Queued, TaskOf
<1> QED
  BY <1>1, <1>2, <1>4, <1>7 DEF RegisteredIsPending

(* Each step keeps a live registered task queued or in the decoder's       *)
(* hands.                                                                  *)
LEMMA PendingPreserved ==
    /\ TypeOK /\ TypeOK' /\ RegistrationsKeyed /\ RegisteredIsPending /\ Next
    => RegisteredIsPending'
<1> SUFFICES ASSUME TypeOK, TypeOK', RegistrationsKeyed, RegisteredIsPending,
                    Next, NEW m \in Nodes, NEW t, t = decodingTasks'[m],
                    t # NoTask, ~(t.id \in cancelled')
             PROVE  \/ \E i \in DOMAIN tasks' : tasks'[i] = t
                    \/ current' = t /\ pc' \in Working
  BY DEF RegisteredIsPending, IsDead, Pending, Queued
<1> DEFINE Goal == \/ \E i \in DOMAIN tasks' : tasks'[i] = t
                   \/ current' = t /\ pc' \in Working
<1> USE TaskSets DEF Working
<1>0. /\ t \in DecodeTask
      /\ t = decodingTasks[m] /\ t.id \notin cancelled =>
             \/ \E i \in DOMAIN tasks : tasks[i] = t
             \/ current = t /\ pc \in Working
  BY DEF RegisteredIsPending, IsDead, Pending, Queued, TypeOK
<1>1. ASSUME NEW n \in Nodes, NEW v \in Views, DecodePage(n, v)
      PROVE  Goal
  <2>1. CASE SameRequest(decodingTasks[n], n, v)
    BY <1>0, <1>1, <2>1 DEF DecodePage
  <2>2. CASE ~SameRequest(decodingTasks[n], n, v)
    <3> DEFINE u == NewDecodeTask(n, v)
    <3>1. /\ decodingTasks' = [decodingTasks EXCEPT ![n] = u]
          /\ tasks' = Without(Put(tasks, u), TaskOf(n))
          /\ cancelled' = cancelled \cup CancelledBy(TaskOf(n))
          /\ current' = current /\ Notify
      BY <1>1, <2>2 DEF DecodePage
    <3>2. u \in Task /\ u.id = nextId /\ nextId \in Nat
      BY DEF NewDecodeTask, DecodeTask, Task, TypeOK
    <3>3. decodingTasks[n] # u
      BY <3>2 DEF RegistrationsKeyed
    <3> HIDE DEF u
    <3>4. (\E i \in DOMAIN tasks' : tasks'[i] = t)
              <=> ((\E i \in DOMAIN tasks : tasks[i] = t) \/ t = u)
                      /\ t # decodingTasks[n]
      BY <1>0, <3>1, <3>2, QueuedAfterAdd DEF Queued
    <3>5. CASE m = n
      BY <3>1, <3>3, <3>4, <3>5 DEF TypeOK
    <3>6. CASE m # n
      <4>1. t = decodingTasks[m] /\ t.node = m /\ t.id \notin cancelled
        BY <3>1, <3>6 DEF TypeOK, RegistrationsKeyed
      <4>2. t # decodingTasks[n]
        BY <3>6, <4>1 DEF RegistrationsKeyed
      <4> QED
        BY <1>0, <3>1, <3>4, <4>1, <4>2 DEF Notify
    <3> QED
      BY <3>5, <3>6
  <2> QED
    BY <2>1, <2>2
<1>2. ASSUME NEW n \in Nodes, StopDecoding(n)
      PROVE  Goal
  BY <1>2, UnregisterPending DEF StopDecoding, Pending, Queued, IsDead
<1>3. ASSUME NEW p \in Patterns, SearchText(p)
      PROVE  Goal
  BY <1>0, <1>3 DEF SearchText
<1>4. CASE AddSearch
  <2>1. Queued(t) => Queued(t)'
    BY <1>0, <1>4, QueuedAfterAddSearch
  <2> QED
    BY <1>0, <1>4, <2>1 DEF AddSearch, Queued, Notify
<1>5. ASSUME NEW p \in Patterns, StopSearch(p)
      PROVE  Goal
  <2>1. Queued(t) => Queued(t)'
    BY <1>0, <1>5, QueuedAfterStopSearch
  <2> QED
    BY <1>0, <1>5, <2>1 DEF StopSearch, Queued
<1>6. CASE Recycle
  BY <1>6 DEF Recycle, Registered, CancelledBy
<1>7. CASE TakeTask
  <2>1. Queued(t) => Queued(t)' \/ current' = t
    BY <1>0, <1>7, QueuedAfterTake
  <2>2. current = NoTask /\ pc' = "task" /\ UNCHANGED <<decodingTasks, cancelled>>
    BY <1>7 DEF TakeTask, Goto, TypeOK, Settled
  <2> QED
    BY <1>0, <2>1, <2>2 DEF Queued
<1>8. CASE ClearSlots
  BY <1>0, <1>8 DEF ClearSlots, Goto
<1>9. CASE FindNothing \/ BeginWait \/ WaitTimeout
  BY <1>0, <1>9 DEF FindNothing, BeginWait, WaitTimeout, Goto
<1>10. CASE Proceed
  BY <1>0, <1>10 DEF Proceed, IsDecoding, After, Goto
<1>11. CASE Fail \/ Finish
  <2>1. Unregister(current.node) /\ current.node \in Nodes
    BY <1>11 DEF Fail, Finish, TypeOK, Settled
  <2>2. /\ t.node = m /\ m # current.node
        /\ Queued(t) => Queued(t)'
        /\ Pending(t)
    BY <2>1, UnregisterPending DEF IsDead
  <2> QED
    BY <2>2 DEF Pending, Queued
<1>12. CASE Skip
  BY <1>0, <1>12 DEF Skip, IsDead, Goto
<1>13. CASE Deliver \/ RunSearch \/ Shutdown
  BY <1>0, <1>13 DEF Deliver, RunSearch, Shutdown, Goto
<1> QED
  BY <1>1, <1>2, <1>3, <1>4, <1>5, <1>6, <1>7, <1>8, <1>9, <1>10, <1>11, <1>12,
     <1>13
  DEF Next, Client, Decoder

(* A queued shutdown is what the decoder thread takes next: nothing is     *)
(* before it, and every other kind of task is after it.                    *)
LEMMA TakesShutdown ==
    ASSUME TypeOK, TakeTask,
           \E i \in DOMAIN tasks : tasks[i] # NoTask /\ tasks[i].kind = "shutdown"
    PROVE  current'.kind = "shutdown"
<1>1. PICK k \in DOMAIN tasks : tasks[k] # NoTask /\ tasks[k].kind = "shutdown"
  OBVIOUS
<1>2. PICK i \in Candidates(tasks) : current' = tasks[i]
  BY DEF TakeTask
<1>3. /\ i \in DOMAIN tasks /\ tasks[i] # NoTask
      /\ ~Before(tasks[k], tasks[i])
  BY <1>1, <1>2 DEF Candidates
<1>4. tasks[i] \in Task
  BY <1>3, LenProperties DEF TypeOK
<1>5. tasks[i].kind \in {"decode", "search", "shutdown"}
  BY <1>4 DEF Task, DecodeTask, SearchTask, ShutdownTask
<1>6. Priority(tasks[k]) = 0
  BY <1>1 DEF Priority
<1>7. tasks[i].kind = "shutdown" \/ Priority(tasks[i]) \in {1, 2}
  BY <1>5 DEF Priority
<1> QED
  BY <1>2, <1>3, <1>6, <1>7 DEF Before

(* Each step keeps the shutdown of a recycled service ahead of its         *)
(* decoder, or done.                                                       *)
LEMMA ShutdownAheadPreserved ==
    TypeOK /\ TypeOK' /\ ShutdownAhead /\ Next => ShutdownAhead'
<1> DEFINE InSlot == \E i \in DOMAIN tasks :
                         tasks[i] # NoTask /\ tasks[i].kind = "shutdown"
           Goal   == \/ InSlot'
                     \/ pc' = "task" /\ current'.kind = "shutdown"
                     \/ pc' = "done"
<1> SUFFICES ASSUME TypeOK, TypeOK', ShutdownAhead, Next, isRecycled'
             PROVE  Goal
  BY DEF ShutdownAhead
<1> USE TaskSets
<1>0. /\ tasks \in Seq(Slot)
      /\ \A i \in DOMAIN tasks : tasks[i] \in Slot
  BY LenProperties DEF TypeOK, Slot
<1>a. InSlot <=> \E t \in ShutdownTask : Queued(t)
  BY <1>0 DEF Queued, Slot, Task
<1>b. InSlot' <=> \E t \in ShutdownTask : Queued(t)'
  <2>1. \A i \in DOMAIN tasks' : tasks'[i] \in Slot
    BY LenProperties DEF TypeOK, Slot
  <2> QED
    BY <2>1 DEF Queued, Slot, Task
<1>c. ShutdownTask \subseteq Task
  BY DEF Task
<1>d. isRecycled => InSlot \/ (pc = "task" /\ current.kind = "shutdown") \/ pc = "done"
  BY DEF ShutdownAhead
<1> HIDE DEF InSlot
<1>1. ASSUME NEW n \in Nodes, NEW v \in Views, DecodePage(n, v)
      PROVE  Goal
  BY <1>1 DEF DecodePage
<1>2. ASSUME NEW n \in Nodes, Unregister(n)
      PROVE  InSlot => InSlot'
  <2>1. \A t \in ShutdownTask : t # decodingTasks[n]
    BY <1>c DEF TypeOK
  <2> QED
    BY <1>2, <1>a, <1>b, <1>c, <2>1, QueuedAfterUnregister
<1>3. CASE \E n \in Nodes : StopDecoding(n)
  BY <1>2, <1>3, <1>d DEF StopDecoding
<1>4. CASE \E p \in Patterns : SearchText(p)
  BY <1>4 DEF SearchText
<1>5. CASE AddSearch
  <2>1. InSlot => InSlot'
    BY <1>5, <1>a, <1>b, <1>c, QueuedAfterAddSearch
  <2> QED
    BY <1>5, <1>d, <2>1 DEF AddSearch, Notify
<1>6. ASSUME NEW p \in Patterns, StopSearch(p)
      PROVE  Goal
  <2>1. InSlot => InSlot'
    BY <1>6, <1>a, <1>b, <1>c, QueuedAfterStopSearch
  <2> QED
    BY <1>6, <1>d, <2>1 DEF StopSearch
<1>7. CASE Recycle
  <2> DEFINE t == [kind |-> "shutdown", id |-> 0]
  <2>1. t \in ShutdownTask
    BY DEF ShutdownTask
  <2> HIDE DEF t
  <2> QED
    BY <1>7, <1>c, <2>1, QueuedAfterRecycle DEF InSlot
<1>8. CASE TakeTask
  <2>1. pc = "loop" /\ pc' = "task" /\ isRecycled
    BY <1>8 DEF TakeTask, Goto
  <2>2. InSlot
    BY <1>d, <2>1
  <2> QED
    BY <1>8, <2>1, <2>2, TakesShutdown DEF InSlot
<1>9. CASE Fail \/ Finish
  <2>1. /\ Unregister(current.node) /\ current.node \in Nodes
        /\ pc \notin {"task", "done"} /\ isRecycled
    BY <1>9 DEF Fail, Finish, Goto, TypeOK, Working, Settled
  <2> QED
    BY <1>2, <1>d, <2>1
<1>10. CASE ClearSlots
  <2>1. ~InSlot /\ pc = "loop" /\ isRecycled
    BY <1>10 DEF ClearSlots, InSlot, Goto
  <2> QED
    BY <1>d, <2>1
<1>11. CASE FindNothing \/ BeginWait \/ WaitTimeout
  BY <1>11, <1>d DEF FindNothing, BeginWait, WaitTimeout, Goto, InSlot
<1>12. CASE Proceed \/ Skip \/ Deliver \/ RunSearch
  BY <1>12, <1>d
  DEF Proceed, Skip, Deliver, RunSearch, IsDecoding, After, Goto, InSlot
<1>13. CASE Shutdown
  BY <1>13 DEF Shutdown, Goto
<1> QED
  BY <1>1, <1>3, <1>4, <1>5, <1>6, <1>7, <1>8, <1>9, <1>10, <1>11, <1>12, <1>13
  DEF Next, Client, Decoder

-----------------------------------------------------------------------------
(* The theorems *)

(* What the properties need together, LiveIsRegistered in its restated form. *)
Inductive ==
    /\ TypeOK /\ LiveRegistered /\ RegistrationsKeyed
    /\ RegisteredIsPending /\ ShutdownAhead

(* The invariant of the executor holds.                                    *)
LEMMA InductiveHolds == Spec => []Inductive
<1>1. Init => Inductive
  <2>1. Init => LiveRegistered /\ RegistrationsKeyed /\ RegisteredIsPending
    BY TaskSets
    DEF Init, LiveRegistered, RegistrationsKeyed, RegisteredIsPending, Pending,
        Queued, Working
  <2>2. Init => ShutdownAhead
    BY DEF Init, ShutdownAhead
  <2>3. Init => TypeOK
    BY InitType
  <2> QED
    BY <2>1, <2>2, <2>3 DEF Inductive
<1>2. Inductive /\ [Next]_vars => Inductive'
  <2>1. CASE Next
    BY <2>1, StepType, LivePreserved, KeyedPreserved, PendingPreserved,
       ShutdownAheadPreserved
    DEF Inductive
  <2>2. CASE UNCHANGED vars
    BY <2>2
    DEF vars, Inductive, TypeOK, LiveRegistered, RegistrationsKeyed,
        RegisteredIsPending, ShutdownAhead, Pending, Queued, IsDead
  <2> QED
    BY <2>1, <2>2
<1> QED
  BY <1>1, <1>2, PTL DEF Spec

(* Every live decode task is the one registered for its node: a node never *)
(* has two live renderings, and each can be stopped through its node.      *)
THEOREM LiveTaskIsRegistered == Spec => []LiveIsRegistered
  BY InductiveHolds, LiveRestated, PTL DEF Inductive

(* No registered request is ever forgotten by the executor.                *)
THEOREM NoRequestForgotten == Spec => []RegisteredIsPending
  BY InductiveHolds, PTL DEF Inductive

(* After recycle the decoder thread starts the shutdown and nothing else.  *)
THEOREM ShutdownComesFirst == Spec => OnlyShutdownAfterRecycle
<1>1. Inductive /\ [Next]_vars
          => [TakeTask /\ isRecycled => current'.kind = "shutdown"]_vars
  <2> SUFFICES ASSUME Inductive, TakeTask, isRecycled
               PROVE  current'.kind = "shutdown"
    OBVIOUS
  <2>1. pc = "loop"
    BY DEF TakeTask
  <2>2. \E i \in DOMAIN tasks : tasks[i] # NoTask /\ tasks[i].kind = "shutdown"
    BY <2>1 DEF Inductive, ShutdownAhead
  <2> QED
    BY <2>2, TakesShutdown DEF Inductive
<1> QED
  BY <1>1, InductiveHolds, PTL DEF Spec, OnlyShutdownAfterRecycle

-----------------------------------------------------------------------------
(* The refinement rests on Inductive and on four more facts that relate    *)
(* the cancelled flags to slots and registrations.                         *)

(* QueuedIsLive, with the quantifier over all decode tasks.                *)
QueuedLive == \A t \in DecodeTask : Queued(t) => ~IsDead(t)

Linked ==
    /\ Inductive /\ QueuedLive /\ SettledIsDead /\ ClosedIsDead
    /\ CancelledPast /\ RegistrationsDistinct

-----------------------------------------------------------------------------
(* What the clients see of the two ways in which registrations change *)

(* Stopping the task of a node withdraws the request of that node only.    *)
LEMMA UnregisterWithdraws ==
    ASSUME TypeOK, RegistrationsDistinct, NEW n \in Nodes, Unregister(n)
    PROVE  /\ \A m \in Nodes :
                  m # n => /\ decodingTasks'[m] = decodingTasks[m]
                           /\ decodingTasks[m] # NoTask =>
                                  (IsDead(decodingTasks[m])'
                                       <=> IsDead(decodingTasks[m]))
           /\ Want' = [Want EXCEPT ![n] = NoTask]
<1>1. /\ decodingTasks' = [decodingTasks EXCEPT ![n] = NoTask]
      /\ cancelled' = cancelled \cup CancelledBy(TaskOf(n))
  BY DEF Unregister
<1>2. ASSUME NEW m \in Nodes, m # n
      PROVE  /\ decodingTasks'[m] = decodingTasks[m]
             /\ decodingTasks[m] # NoTask =>
                    (decodingTasks[m].id \in cancelled'
                         <=> decodingTasks[m].id \in cancelled)
  <2>1. decodingTasks'[m] = decodingTasks[m]
    BY <1>1, <1>2 DEF TypeOK
  <2>2. decodingTasks[m] # NoTask =>
            decodingTasks[m].id \notin CancelledBy(TaskOf(n))
    BY <1>2 DEF RegistrationsDistinct, CancelledBy, TaskOf
  <2> QED
    BY <1>1, <2>1, <2>2
<1>3. decodingTasks'[n] = NoTask
  BY <1>1 DEF TypeOK
<1>4. Want' = [Want EXCEPT ![n] = NoTask]
  BY <1>2, <1>3 DEF Want, Wanted, IsDead
<1> QED
  BY <1>2, <1>4 DEF IsDead

(* A new task replaces the request of its node only.                       *)
LEMMA RegisterReplaces ==
    ASSUME TypeOK, RegistrationsKeyed, RegistrationsDistinct, CancelledPast,
           NEW n \in Nodes, NEW v \in Views,
           decodingTasks' = [decodingTasks EXCEPT ![n] = NewDecodeTask(n, v)],
           cancelled' = cancelled \cup CancelledBy(TaskOf(n))
    PROVE  /\ nextId \notin cancelled'
           /\ Want' = [Want EXCEPT ![n] = NewDecodeTask(n, v)]
<1> DEFINE u == NewDecodeTask(n, v)
<1>1. u \in DecodeTask /\ u.id = nextId /\ u # NoTask /\ nextId \in Nat
  BY TaskSets DEF NewDecodeTask, DecodeTask, TypeOK
<1>2. nextId \notin cancelled'
  <2>1. nextId \notin cancelled
    BY <1>1 DEF CancelledPast
  <2>2. nextId \notin CancelledBy(TaskOf(n))
    BY <1>1 DEF CancelledBy, TaskOf, RegistrationsKeyed
  <2> QED
    BY <2>1, <2>2
<1> HIDE DEF u
<1>3. ASSUME NEW m \in Nodes, m # n
      PROVE  /\ decodingTasks'[m] = decodingTasks[m]
             /\ decodingTasks[m] # NoTask =>
                    (decodingTasks[m].id \in cancelled'
                         <=> decodingTasks[m].id \in cancelled)
  <2>1. decodingTasks'[m] = decodingTasks[m]
    BY <1>3 DEF TypeOK
  <2>2. decodingTasks[m] # NoTask =>
            decodingTasks[m].id \notin CancelledBy(TaskOf(n))
    BY <1>3 DEF RegistrationsDistinct, CancelledBy, TaskOf
  <2> QED
    BY <2>1, <2>2
<1>4. decodingTasks'[n] = u
  BY DEF TypeOK, u
<1>5. Wanted(n)' = u
  BY <1>1, <1>2, <1>4 DEF Wanted, IsDead
<1>6. \A m \in Nodes : m # n => Wanted(m)' = Wanted(m)
  BY <1>3 DEF Wanted, IsDead
<1>7. Want' = [Want EXCEPT ![n] = u]
  BY <1>5, <1>6 DEF Want
<1> QED
  BY <1>2, <1>7 DEF u
-----------------------------------------------------------------------------
(* The four facts, one at a time *)

(* The property of the runs and its restatement say the same.              *)
LEMMA QueuedRestated == TypeOK => (QueuedIsLive <=> QueuedLive)
<1> SUFFICES ASSUME TypeOK
             PROVE  QueuedIsLive <=> QueuedLive
  OBVIOUS
<1>1. \A i \in DOMAIN tasks : tasks[i] \in Slot
  BY LenProperties DEF TypeOK, Slot
<1> QED
  BY <1>1, TaskSets DEF QueuedIsLive, QueuedLive, Queued, Slot

(* Stopping the task of a node cancels the task it takes out of the        *)
(* queue, and no queued one.                                               *)
LEMMA UnregisterQueuedLive ==
    ASSUME Linked, NEW n \in Nodes, Unregister(n)
    PROVE  QueuedLive'
<1> SUFFICES ASSUME NEW t \in DecodeTask, Queued(t)', IsDead(t)'
             PROVE  FALSE
  BY DEF QueuedLive
<1>1. TypeOK /\ t \in Task
  BY TaskSets DEF Linked, Inductive
<1>2. Queued(t) /\ t # decodingTasks[n]
  BY <1>1, QueuedAfterUnregister
<1>3. ~IsDead(t) /\ decodingTasks[t.node] = t /\ t.node \in Nodes
  BY <1>2, TaskSets DEF Linked, QueuedLive, Inductive, LiveRegistered, Pending
<1>4. t.id \in CancelledBy(TaskOf(n))
  BY <1>3 DEF Unregister, IsDead
<1>5. decodingTasks[n] # NoTask /\ decodingTasks[n].id = t.id
  BY <1>4 DEF CancelledBy, TaskOf
<1>6. t.node = n
  BY <1>1, <1>3, <1>5, TaskSets DEF Linked, RegistrationsDistinct
<1> QED
  BY <1>2, <1>3, <1>6

(* Each step keeps cancelled tasks out of the queue.                       *)
LEMMA QueuedLivePreserved == Linked /\ Next => QueuedLive'
<1> SUFFICES ASSUME Linked, Next
             PROVE  QueuedLive'
  OBVIOUS
<1> USE TaskSets
<1>0. TypeOK /\ QueuedLive
  BY DEF Linked, Inductive
<1>1. ASSUME NEW n \in Nodes, NEW v \in Views, DecodePage(n, v)
      PROVE  QueuedLive'
  <2>1. CASE SameRequest(decodingTasks[n], n, v)
    BY <1>0, <1>1, <2>1 DEF DecodePage, QueuedLive, Queued, IsDead
  <2>2. CASE ~SameRequest(decodingTasks[n], n, v)
    <3> DEFINE u == NewDecodeTask(n, v)
    <3>1. /\ decodingTasks' = [decodingTasks EXCEPT ![n] = u]
          /\ tasks' = Without(Put(tasks, u), TaskOf(n))
          /\ cancelled' = cancelled \cup CancelledBy(TaskOf(n))
      BY <1>1, <2>2 DEF DecodePage
    <3>2. u \in DecodeTask /\ u \in Task /\ u.id = nextId
      BY <1>0 DEF NewDecodeTask, DecodeTask, Task, TypeOK
    <3>3. nextId \notin cancelled'
      BY <3>1, RegisterReplaces DEF Linked, Inductive
    <3> HIDE DEF u
    <3> SUFFICES ASSUME NEW t \in DecodeTask, Queued(t)', IsDead(t)'
                 PROVE  FALSE
      BY DEF QueuedLive
    <3>4. (Queued(t) \/ t = u) /\ t # decodingTasks[n]
      BY <1>0, <3>1, <3>2, QueuedAfterAdd
    <3>5. Queued(t)
      BY <3>2, <3>3, <3>4 DEF IsDead
    <3>6. ~IsDead(t) /\ decodingTasks[t.node] = t /\ t.node \in Nodes
      BY <3>5 DEF Linked, QueuedLive, Inductive, LiveRegistered, Pending
    <3>7. decodingTasks[n] # NoTask /\ decodingTasks[n].id = t.id
      BY <3>1, <3>6 DEF CancelledBy, TaskOf, IsDead
    <3>8. t.node = n
      BY <3>6, <3>7 DEF Linked, RegistrationsDistinct
    <3> QED
      BY <3>4, <3>6, <3>8
  <2> QED
    BY <2>1, <2>2
<1>2. ASSUME NEW n \in Nodes, StopDecoding(n)
      PROVE  QueuedLive'
  BY <1>2, UnregisterQueuedLive DEF StopDecoding
<1>3. CASE \E p \in Patterns : SearchText(p)
  BY <1>0, <1>3 DEF SearchText, QueuedLive, Queued, IsDead
<1>4. CASE AddSearch
  <2>1. searching \in SearchTask /\ cancelled' = cancelled
    BY <1>0, <1>4 DEF AddSearch, TypeOK
  <2> QED
    BY <1>0, <1>4, <2>1, QueuedAfterAddSearch DEF QueuedLive, IsDead
<1>5. ASSUME NEW p \in Patterns, StopSearch(p)
      PROVE  QueuedLive'
  <2>1. cancelled' = cancelled
    BY <1>5 DEF StopSearch
  <2> QED
    BY <1>0, <1>5, <2>1, QueuedAfterStopSearch DEF QueuedLive, IsDead
<1>6. CASE Recycle
  <2> SUFFICES ASSUME NEW t \in DecodeTask, Queued(t)'
               PROVE  FALSE
    BY DEF QueuedLive
  <2>1. Queued(t) /\ t \notin Registered
    BY <1>0, <1>6, QueuedAfterRecycle
  <2>2. decodingTasks[t.node] = t /\ t.node \in Nodes
    BY <2>1 DEF Linked, QueuedLive, Inductive, LiveRegistered, Pending
  <2> QED
    BY <2>1, <2>2 DEF Registered
<1>7. CASE TakeTask
  <2>1. cancelled' = cancelled
    BY <1>7 DEF TakeTask
  <2> QED
    BY <1>0, <1>7, <2>1, QueuedAfterTake DEF QueuedLive, IsDead
<1>8. CASE ClearSlots
  BY <1>0, <1>8 DEF ClearSlots, QueuedLive, Queued, IsDead
<1>9. CASE Fail \/ Finish
  <2>1. Unregister(current.node) /\ current.node \in Nodes
    BY <1>0, <1>9 DEF Fail, Finish, TypeOK, Working, Settled
  <2> QED
    BY <2>1, UnregisterQueuedLive
<1>10. CASE UNCHANGED <<tasks, cancelled>>
  BY <1>0, <1>10 DEF QueuedLive, Queued, IsDead
<1> QED
  BY <1>1, <1>2, <1>3, <1>4, <1>5, <1>6, <1>7, <1>8, <1>9, <1>10
  DEF Next, Client, Decoder, FindNothing, BeginWait, WaitTimeout, Proceed, Skip,
      Deliver, RunSearch, Shutdown

(* Flags are set and never reset.                                          *)
LEMMA CancelledGrows == Next => cancelled \subseteq cancelled'
  BY DEF Next, Client, Decoder, DecodePage, StopDecoding, Unregister, SearchText,
         AddSearch, StopSearch, Recycle, TakeTask, ClearSlots, FindNothing,
         BeginWait, WaitTimeout, Proceed, Skip, Fail, Finish, Deliver, RunSearch,
         Shutdown

(* Each step keeps a finished or aborted task dead.                        *)
LEMMA SettledPreserved == Linked /\ Next => SettledIsDead'
<1> SUFFICES ASSUME Linked, Next, pc' \in Settled
             PROVE  IsDead(current)'
  BY DEF SettledIsDead
<1> USE DEF Settled
<1>0. TypeOK /\ SettledIsDead /\ cancelled \subseteq cancelled'
  BY CancelledGrows DEF Linked, Inductive
<1>1. CASE Client
  <2>1. current' = current /\ pc \in Settled
    BY <1>1 DEF Client, DecodePage, StopDecoding, SearchText, AddSearch,
                StopSearch, Recycle, Notify
  <2> QED
    BY <1>0, <2>1 DEF SettledIsDead, IsDead
<1>2. CASE Fail \/ Finish
  <2>1. /\ current' = current /\ Unregister(current.node)
        /\ current \in DecodeTask /\ current # NoTask
        /\ pc \in Settled \/ pc \in Working
    BY <1>0, <1>2, TaskSets DEF Fail, Finish, TypeOK, Working
  <2>2. CASE IsDead(current)
    BY <1>0, <2>1, <2>2 DEF IsDead
  <2>3. CASE ~IsDead(current)
    <3>1. decodingTasks[current.node] = current
      BY <1>0, <2>1, <2>3
      DEF SettledIsDead, Linked, Inductive, LiveRegistered, Pending
    <3>2. current.id \in CancelledBy(TaskOf(current.node))
      BY <2>1, <3>1 DEF CancelledBy, TaskOf
    <3> QED
      BY <2>1, <3>2 DEF Unregister, IsDead
  <2> QED
    BY <2>2, <2>3
<1>3. CASE Decoder /\ ~(Fail \/ Finish)
  BY <1>3 DEF Decoder, TakeTask, ClearSlots, FindNothing, BeginWait, WaitTimeout,
              Proceed, IsDecoding, After, Skip, Deliver, RunSearch, Shutdown, Goto
<1> QED
  BY <1>1, <1>2, <1>3 DEF Next

(* Besides DecodePage only stopDecoding changes the registrations.         *)
LEMMA Registrations ==
    ASSUME TypeOK, Next
    PROVE  \/ \E n \in Nodes, v \in Views : DecodePage(n, v)
           \/ \E n \in Nodes : Unregister(n) /\ UNCHANGED <<nextId, isRecycled>>
           \/ /\ UNCHANGED <<decodingTasks, cancelled>>
              /\ nextId' \in {nextId, nextId + 1}
              /\ UNCHANGED isRecycled
           \/ Recycle
<1>1. Fail \/ Finish => current.node \in Nodes
  BY TaskSets DEF Fail, Finish, TypeOK, Working, Settled
<1>2. Fail \/ Finish => \E n \in Nodes : Unregister(n) /\ UNCHANGED <<nextId, isRecycled>>
  BY <1>1 DEF Fail, Finish, Goto
<1> QED
  BY <1>2
  DEF Next, Client, Decoder, StopDecoding, SearchText, AddSearch, StopSearch,
      TakeTask, ClearSlots, FindNothing, BeginWait, WaitTimeout, Proceed, Skip,
      Deliver, RunSearch, Shutdown, Goto

(* Each step keeps the registrations of a recycled service dead.           *)
LEMMA ClosedPreserved == Linked /\ Next => ClosedIsDead'
<1> SUFFICES ASSUME Linked, Next, isRecycled', NEW m \in Nodes,
                    decodingTasks'[m] # NoTask
             PROVE  decodingTasks'[m].id \in cancelled'
  BY DEF ClosedIsDead, IsDead
<1>0. TypeOK /\ cancelled \subseteq cancelled'
  BY CancelledGrows DEF Linked, Inductive
<1>1. isRecycled /\ decodingTasks[m] # NoTask => decodingTasks[m].id \in cancelled
  BY DEF Linked, ClosedIsDead, IsDead
<1>2. CASE \E n \in Nodes, v \in Views : DecodePage(n, v)
  BY <1>2 DEF DecodePage
<1>3. ASSUME NEW n \in Nodes, Unregister(n), UNCHANGED isRecycled
      PROVE  decodingTasks'[m].id \in cancelled'
  <2>1. decodingTasks'[m] = decodingTasks[m]
    BY <1>0, <1>3 DEF Unregister, TypeOK
  <2> QED
    BY <1>0, <1>1, <1>3, <2>1
<1>4. CASE UNCHANGED <<decodingTasks, cancelled, isRecycled>>
  BY <1>1, <1>4
<1>5. CASE Recycle
  BY <1>5 DEF Recycle, CancelledBy, Registered
<1> QED
  BY <1>0, <1>2, <1>3, <1>4, <1>5, Registrations

(* Each step cancels numbers that were given out only.                     *)
LEMMA PastPreserved == Linked /\ Next => CancelledPast'
<1> SUFFICES ASSUME Linked, Next, NEW x \in cancelled'
             PROVE  x < nextId'
  BY DEF CancelledPast
<1>0. TypeOK /\ nextId \in Nat /\ cancelled \subseteq Nat
  BY DEF Linked, Inductive, TypeOK
<1>1. ASSUME NEW S \in SUBSET Registered, x \in cancelled \cup CancelledBy(S)
      PROVE  x \in Nat /\ x < nextId
  <2>1. CASE x \in cancelled
    BY <1>0, <2>1 DEF Linked, CancelledPast
  <2>2. CASE x \in CancelledBy(S)
    <3>1. PICK n \in Nodes : decodingTasks[n] # NoTask /\ x = decodingTasks[n].id
      BY <1>1, <2>2 DEF CancelledBy, Registered
    <3>2. decodingTasks[n] \in DecodeTask
      BY <1>0, <3>1 DEF TypeOK
    <3> QED
      BY <3>1, <3>2, TaskSets DEF Linked, Inductive, RegistrationsKeyed
  <2> QED
    BY <1>1, <2>1, <2>2
<1>2. \A n \in Nodes : TaskOf(n) \subseteq Registered
  BY DEF TaskOf, Registered
<1>3. nextId' \in {nextId, nextId + 1}
  BY <1>0, Registrations DEF DecodePage, Recycle
<1>4. \/ \E n \in Nodes : cancelled' = cancelled \cup CancelledBy(TaskOf(n))
      \/ cancelled' = cancelled
      \/ cancelled' = cancelled \cup CancelledBy(Registered)
  BY <1>0, Registrations DEF DecodePage, Recycle, Unregister
<1>5. x < nextId /\ x \in Nat
  <2>1. \E S \in SUBSET Registered : x \in cancelled \cup CancelledBy(S)
    BY <1>2, <1>4
  <2> QED
    BY <1>1, <2>1
<1> QED
  BY <1>0, <1>3, <1>5

(* Each step keeps the tasks of different nodes different.                 *)
LEMMA DistinctPreserved == Linked /\ Next => RegistrationsDistinct'
<1> SUFFICES ASSUME Linked, Next, NEW m \in Nodes, NEW k \in Nodes,
                    decodingTasks'[m] # NoTask, decodingTasks'[k] # NoTask,
                    decodingTasks'[m].id = decodingTasks'[k].id
             PROVE  m = k
  BY DEF RegistrationsDistinct
<1>0. TypeOK /\ nextId \in Nat
  BY DEF Linked, Inductive, TypeOK
<1>1. \A n \in Nodes : decodingTasks[n] # NoTask => decodingTasks[n].id # nextId
  <2>1. \A n \in Nodes : decodingTasks[n] # NoTask =>
            decodingTasks[n].id \in Nat /\ decodingTasks[n].id < nextId
    BY <1>0, TaskSets DEF Linked, Inductive, RegistrationsKeyed, TypeOK
  <2> QED
    BY <1>0, <2>1
<1>2. decodingTasks[m] # NoTask /\ decodingTasks[k] # NoTask
          /\ decodingTasks[m].id = decodingTasks[k].id => m = k
  BY DEF Linked, RegistrationsDistinct
<1>3. ASSUME NEW n \in Nodes, NEW v \in Views, DecodePage(n, v)
      PROVE  m = k
  <2>1. \/ decodingTasks' = decodingTasks
        \/ decodingTasks' = [decodingTasks EXCEPT ![n] = NewDecodeTask(n, v)]
    BY <1>3 DEF DecodePage
  <2>2. NewDecodeTask(n, v).id = nextId
    BY DEF NewDecodeTask
  <2> QED
    BY <1>0, <1>1, <1>2, <2>1, <2>2 DEF TypeOK
<1>4. ASSUME NEW n \in Nodes, Unregister(n)
      PROVE  m = k
  <2>1. decodingTasks'[m] = decodingTasks[m] /\ decodingTasks'[k] = decodingTasks[k]
    BY <1>0, <1>4 DEF Unregister, TypeOK
  <2> QED
    BY <1>2, <2>1
<1>5. CASE UNCHANGED decodingTasks
  BY <1>2, <1>5
<1>6. CASE Recycle
  BY <1>2, <1>6 DEF Recycle
<1> QED
  BY <1>0, <1>3, <1>4, <1>5, <1>6, Registrations

(* The invariant of the refinement holds.                                  *)
LEMMA LinkedHolds == Spec => []Linked
<1>1. Init => QueuedLive /\ SettledIsDead /\ ClosedIsDead /\ CancelledPast
                /\ RegistrationsDistinct
  BY DEF Init, QueuedLive, Queued, SettledIsDead, Settled, ClosedIsDead,
         CancelledPast, RegistrationsDistinct
<1>2. Linked /\ Inductive' /\ [Next]_vars => Linked'
  <2>1. CASE Next
    BY <2>1, QueuedLivePreserved, SettledPreserved, ClosedPreserved, PastPreserved,
       DistinctPreserved
    DEF Linked
  <2>2. CASE UNCHANGED vars
    BY <2>2
    DEF vars, Linked, QueuedLive, Queued, SettledIsDead, ClosedIsDead,
        CancelledPast, RegistrationsDistinct, IsDead
  <2> QED
    BY <2>1, <2>2
<1>3. Init /\ Inductive => Linked
  BY <1>1 DEF Linked
<1> QED
  BY <1>2, <1>3, InductiveHolds, PTL DEF Spec
-----------------------------------------------------------------------------
(* The refinement *)

(* The initial states are initial states of the board.                     *)
LEMMA InitRefines == Init => Board!Init
<1>1. Init => Want = [n \in Nodes |-> NoTask] /\ Served = NoTask
  BY DEF Init, Want, Wanted, Served
<1> QED
  BY <1>1 DEF Init, Board!Init

(* What a client does is asking, withdrawing, closing, or nothing.         *)
LEMMA ClientRefines == Linked /\ Linked' /\ Client => [Board!Next]_Board!vars
<1> SUFFICES ASSUME Linked, Linked', Client
             PROVE  [Board!Next]_Board!vars
  OBVIOUS
<1>0. /\ TypeOK /\ RegistrationsDistinct /\ RegistrationsKeyed /\ CancelledPast
      /\ ClosedIsDead'
  BY DEF Linked, Inductive
<1>1. ASSUME NEW n \in Nodes, NEW v \in Views, DecodePage(n, v)
      PROVE  Board!Ask(n, v)
  <2>1. /\ ~isRecycled /\ nextId' = nextId + 1
        /\ isRecycled' = isRecycled /\ Served' = Served
    BY <1>1 DEF DecodePage, Served
  <2>2. Want[n] = Wanted(n)
    BY DEF Want
  <2>3. CASE SameRequest(decodingTasks[n], n, v)
    <3>1. Want[n] # NoTask /\ Want[n].view = v
      BY <2>2, <2>3 DEF Wanted, SameRequest
    <3>2. Want' = Want
      BY <1>1, <2>3 DEF DecodePage, Want, Wanted, IsDead
    <3> QED
      BY <2>1, <3>1, <3>2 DEF Board!Ask
  <2>4. CASE ~SameRequest(decodingTasks[n], n, v)
    <3>1. ~(Want[n] # NoTask /\ Want[n].view = v)
      BY <2>2, <2>4 DEF Wanted, SameRequest
    <3>2. Want' = [Want EXCEPT ![n] = NewDecodeTask(n, v)]
      BY <1>0, <1>1, <2>4, RegisterReplaces DEF DecodePage
    <3> QED
      BY <2>1, <3>1, <3>2 DEF Board!Ask, NewDecodeTask
  <2> QED
    BY <2>3, <2>4
<1>2. ASSUME NEW n \in Nodes, StopDecoding(n)
      PROVE  Board!Withdraw(n)
  <2>1. Want' = [Want EXCEPT ![n] = NoTask]
    BY <1>0, <1>2, UnregisterWithdraws DEF StopDecoding
  <2> QED
    BY <1>2, <2>1 DEF StopDecoding, Served, Board!Withdraw
<1>3. ASSUME NEW p \in Patterns, SearchText(p)
      PROVE  Board!UseNumber
  BY <1>3 DEF SearchText, Want, Wanted, IsDead, Served, Board!UseNumber
<1>4. CASE AddSearch \/ \E p \in Patterns : StopSearch(p)
  <2>1. UNCHANGED Board!vars
    BY <1>4 DEF AddSearch, StopSearch, Want, Wanted, IsDead, Served, Board!vars
  <2> QED
    BY <2>1
<1>5. CASE Recycle
  <2>1. Want' = [n \in Nodes |-> NoTask]
    BY <1>0, <1>5 DEF Recycle, ClosedIsDead, Want, Wanted, IsDead
  <2> QED
    BY <1>5, <2>1 DEF Recycle, Served, Board!Close, Board!Next
<1> QED
  BY <1>1, <1>2, <1>3, <1>4, <1>5 DEF Client, Board!Next

(* The decoder thread takes a request, gives one up, or does nothing that  *)
(* a client can see.                                                       *)
LEMMA DecoderRefines == Linked /\ Decoder => [Board!Next]_Board!vars
<1> SUFFICES ASSUME Linked, Decoder
             PROVE  [Board!Next]_Board!vars
  OBVIOUS
<1> USE TaskSets
<1>0. TypeOK /\ RegistrationsDistinct /\ SettledIsDead
  BY DEF Linked, Inductive
<1>1. ASSUME UNCHANGED <<decodingTasks, cancelled, nextId, isRecycled>>,
             Served' = Served
      PROVE  UNCHANGED Board!vars
  BY <1>1 DEF Want, Wanted, IsDead, Board!vars
<1>2. ASSUME UNCHANGED <<decodingTasks, cancelled, nextId, isRecycled>>
      PROVE  Want' = Want
  BY <1>2 DEF Want, Wanted, IsDead
<1>3. CASE TakeTask
  <2>1. /\ UNCHANGED <<decodingTasks, cancelled, nextId, isRecycled>>
        /\ pc = "loop"
    BY <1>3 DEF TakeTask, Goto
  <2>2. current = NoTask /\ Served = NoTask
    BY <1>0, <2>1 DEF TypeOK, Working, Settled, Served
  <2>3. current' \in Task /\ Queued(current')
    <3>1. [kind |-> "shutdown", id |-> 0] \in Task
      BY DEF Task, ShutdownTask
    <3> QED
      BY <1>0, <1>3, <3>1, QueuedAfterTake
  <2>4. CASE current'.kind = "decode"
    <3> DEFINE t == current'
    <3>1. t \in DecodeTask /\ t # NoTask /\ Served' = t /\ t.node \in Nodes
      BY <2>3, <2>4 DEF Served
    <3>2. ~IsDead(t)
      <4>1. \A u \in DecodeTask : Queued(u) => ~IsDead(u)
        BY DEF Linked, QueuedLive
      <4> QED
        BY <2>3, <3>1, <4>1
    <3>3. decodingTasks[t.node] = t
      <4>1. \A u \in DecodeTask :
                Queued(u) /\ ~IsDead(u) => decodingTasks[u.node] = u
        BY DEF Linked, Inductive, LiveRegistered, Pending
      <4> QED
        BY <2>3, <3>1, <3>2, <4>1
    <3>4. Want[t.node] = t
      BY <3>1, <3>2, <3>3 DEF Want, Wanted
    <3>5. ~isRecycled
      BY <3>1, <3>2, <3>3 DEF Linked, ClosedIsDead
    <3>6. Board!Take
      BY <1>2, <2>1, <2>2, <3>1, <3>4, <3>5 DEF Board!Take
    <3> QED
      BY <3>6 DEF Board!Next
  <2>5. CASE current'.kind # "decode"
    BY <1>1, <2>1, <2>2, <2>5 DEF Served
  <2> QED
    BY <2>4, <2>5
<1>4. CASE ClearSlots \/ FindNothing \/ BeginWait \/ WaitTimeout \/ Proceed
  <2>1. UNCHANGED <<decodingTasks, cancelled, nextId, isRecycled, current>>
    BY <1>4 DEF ClearSlots, FindNothing, BeginWait, WaitTimeout, Proceed, Goto
  <2> QED
    BY <1>1, <2>1 DEF Served
<1>5. CASE Skip \/ Deliver
  <2>1. /\ UNCHANGED <<decodingTasks, cancelled, nextId, isRecycled>>
        /\ current' = NoTask
    BY <1>5 DEF Skip, Deliver, Goto
  <2>2. IsDead(current) /\ current \in DecodeTask /\ current # NoTask
    BY <1>0, <1>5 DEF Skip, IsDecoding, Deliver, SettledIsDead, TypeOK, After,
                      Working, Settled
  <2>3. Served = current /\ Served' = NoTask
    BY <2>1, <2>2 DEF Served
  <2>4. Want[current.node] # current
    <3>1. current.node \in Nodes
      BY <2>2
    <3> QED
      BY <2>2, <3>1 DEF Want, Wanted
  <2>5. Board!Release
    BY <1>2, <2>1, <2>2, <2>3, <2>4 DEF Board!Release
  <2> QED
    BY <2>5 DEF Board!Next
<1>6. CASE Fail \/ Finish
  <2>1. /\ Unregister(current.node) /\ UNCHANGED <<nextId, isRecycled, current>>
        /\ current.node \in Nodes
    BY <1>0, <1>6 DEF Fail, Finish, Goto, TypeOK, Working, Settled
  <2>2. Want' = [Want EXCEPT ![current.node] = NoTask]
    BY <1>0, <2>1, UnregisterWithdraws
  <2>3. Board!Withdraw(current.node)
    BY <2>1, <2>2 DEF Served, Board!Withdraw
  <2> QED
    BY <2>1, <2>3 DEF Board!Next
<1>7. CASE RunSearch \/ Shutdown
  <2>1. /\ UNCHANGED <<decodingTasks, cancelled, nextId, isRecycled>>
        /\ current' = NoTask /\ current.kind # "decode"
    BY <1>7 DEF RunSearch, Shutdown, Goto
  <2> QED
    BY <1>1, <2>1 DEF Served
<1> QED
  BY <1>3, <1>4, <1>5, <1>6, <1>7 DEF Decoder

(* The executor implements the board: no client can tell its slots, flags  *)
(* and unlocked steps from a board with one wanted request for each node.  *)
THEOREM ExecutorImplementsBoard == Spec => BoardSpec
<1>1. Linked /\ Linked' /\ [Next]_vars => [Board!Next]_Board!vars
  <2>1. UNCHANGED vars => UNCHANGED Board!vars
    BY DEF vars, Want, Wanted, IsDead, Served, Board!vars
  <2> QED
    BY <2>1, ClientRefines, DecoderRefines DEF Next
<1> QED
  BY <1>1, InitRefines, LinkedHolds, PTL DEF Spec, BoardSpec, Board!Spec

(* A withdrawn request leaves its slot at once, and is never started.      *)
THEOREM QueuedTasksAreLive == Spec => []QueuedIsLive
  BY LinkedHolds, QueuedRestated, PTL DEF Linked, Inductive

-----------------------------------------------------------------------------
(* Searches *)

(* A queued search stays in its slot, unless the decoder thread takes it   *)
(* or its pattern is stopped.                                              *)
LEMMA SearchStays ==
    ASSUME TypeOK, Next, NEW t \in Task, t.kind = "search", Queued(t)
    PROVE  Queued(t)' \/ current' = t \/ StopSearch(t.pattern)
<1>1. t # NoTask /\ \A n \in Nodes : t # decodingTasks[n]
  BY TaskSets DEF TypeOK
<1>2. ASSUME NEW n \in Nodes, NEW v \in Views, DecodePage(n, v) PROVE Queued(t)'
  <2>1. CASE SameRequest(decodingTasks[n], n, v)
    BY <1>2, <2>1 DEF DecodePage, Queued
  <2>2. CASE ~SameRequest(decodingTasks[n], n, v)
    <3>1. NewDecodeTask(n, v) \in Task
      BY TaskSets DEF TypeOK, NewDecodeTask, DecodeTask, Task
    <3>2. tasks' = Without(Put(tasks, NewDecodeTask(n, v)), TaskOf(n))
      BY <1>2, <2>2 DEF DecodePage
    <3> QED
      BY <1>1, <3>1, <3>2, QueuedAfterAdd
  <2> QED
    BY <2>1, <2>2
<1>3. ASSUME NEW n \in Nodes, Unregister(n) PROVE Queued(t)'
  BY <1>1, <1>3, QueuedAfterUnregister
<1>4. CASE AddSearch
  BY <1>4, QueuedAfterAddSearch
<1>5. ASSUME NEW p \in Patterns, StopSearch(p) PROVE Queued(t)' \/ StopSearch(t.pattern)
  <2>1. CASE t.pattern = p
    BY <1>5, <2>1
  <2>2. CASE t.pattern # p
    <3>1. /\ DOMAIN tasks' = DOMAIN tasks
          /\ \A i \in DOMAIN tasks : tasks[i] = t => tasks'[i] = t
      BY <1>5, <2>2 DEF StopSearch
    <3> QED
      BY <3>1 DEF Queued
  <2> QED
    BY <2>1, <2>2
<1>6. CASE Recycle
  BY <1>1, <1>6, QueuedAfterRecycle DEF Registered
<1>7. CASE TakeTask
  BY <1>7, QueuedAfterTake
<1>8. CASE ClearSlots
  BY <1>1, <1>8 DEF ClearSlots, Queued
<1>9. CASE tasks' = tasks
  BY <1>9 DEF Queued
<1>10. CASE Fail \/ Finish
  <2>1. current.node \in Nodes /\ Unregister(current.node)
    BY <1>10, TaskSets DEF Fail, Finish, TypeOK, Working, Settled
  <2> QED
    BY <1>3, <2>1
<1> QED
  BY <1>2, <1>3, <1>4, <1>5, <1>6, <1>7, <1>8, <1>9, <1>10
  DEF Next, Client, Decoder, StopDecoding, SearchText, FindNothing, BeginWait, WaitTimeout,
      Proceed, Skip, Deliver, RunSearch, Shutdown

(* A search that is queued is run or stopped: no request for a page, no    *)
(* cancelled decoding and no recycle() takes it out of its slot.           *)
THEOREM SearchesAreKept == Spec => SearchNotDropped
<1>1. TypeOK /\ [Next]_vars =>
        [\A t \in {tasks[i] : i \in DOMAIN tasks} :
             (t # NoTask /\ t.kind = "search")
                 => \/ Queued(t)'
                    \/ current' = t
                    \/ StopSearch(t.pattern)]_vars
  <2> SUFFICES ASSUME TypeOK, Next, NEW i \in DOMAIN tasks, NEW t, t = tasks[i],
                      t # NoTask, t.kind = "search"
               PROVE  Queued(t)' \/ current' = t \/ StopSearch(t.pattern)
    OBVIOUS
  <2>1. t \in Task
    BY LenProperties DEF TypeOK
  <2>2. Queued(t)
    BY DEF Queued
  <2> QED
    BY <2>1, <2>2, SearchStays
<1> QED
  BY <1>1, TypeCorrect, PTL DEF Spec, SearchNotDropped
=============================================================================
