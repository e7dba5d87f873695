---------------------------- MODULE ThreadPoolProofs ----------------------------
(***************************************************************************)
(* Proofs about ThreadPool, for any size of the pool and any number of     *)
(* tasks: type correctness, and that a task is in one place from its offer *)
(* on.                                                                     *)
(***************************************************************************)
EXTENDS ThreadPool, TLAPS, FiniteSetTheorems, WellFoundedInduction

-----------------------------------------------------------------------------
(* The newest task of a queue *)

(* A nonempty set of naturals with a bound has a greatest element.         *)
LEMMA GreatestNatural ==
    ASSUME NEW N \in Nat, NEW S \in SUBSET (1 .. N), S # {}
    PROVE  \E x \in S : \A y \in S : y <= x
<1> DEFINE D == {N - x : x \in S}
<1>1. D \in SUBSET Nat /\ D # {}
  <2>1. \A x \in S : x \in 1 .. N /\ N - x \in Nat
    OBVIOUS
  <2>2. PICK x \in S : TRUE
    OBVIOUS
  <2>3. N - x \in D
    BY <2>2
  <2> QED
    BY <2>1, <2>3
<1>2. \E d \in D : \A e \in D : <<e, d>> \notin OpToRel(<, Nat)
  BY <1>1, WFMin, NatLessThanWellFounded, Zenon
<1>3. PICK d \in D : \A e \in D : <<e, d>> \notin OpToRel(<, Nat)
  BY <1>2
<1>4. \A e \in D : d <= e
  <2>1. \A a, b \in Nat : <<a, b>> \notin OpToRel(<, Nat) => b <= a
    BY DEF OpToRel
  <2> QED
    BY <1>1, <1>3, <2>1
<1>5. PICK x \in S : d = N - x
  OBVIOUS
<1>6. ASSUME NEW y \in S PROVE y <= x
  <2>1. N - y \in D
    OBVIOUS
  <2>2. N - x <= N - y
    BY <2>1, <1>4, <1>5
  <2>3. x \in Nat /\ y \in Nat
    OBVIOUS
  <2> HIDE DEF D
  <2> QED
    BY <2>2, <2>3
<1> QED
  BY <1>6

(* A nonempty queue has a newest task, which is one of its tasks.          *)
LEMMA NewestIsQueued ==
    ASSUME NEW q \in SUBSET Tasks, q # {}
    PROVE  Newest(q) \in q
<1>1. \E x \in q : \A y \in q : y <= x
  BY GreatestNatural, SizesAssumption DEF Tasks
<1> QED
  BY <1>1 DEF Newest

-----------------------------------------------------------------------------
(* The inductive invariant *)

(* The dispatcher has found a thread when it gives a task away.            *)
HasThread == dpc = "start" => scanned \in Threads

(* Who has a task in hand shows it.                                        *)
InHand ==
    /\ held = NoTask <=> dpc = "poll"
    /\ \A i \in Threads : task[i] = NoTask <=> pc[i] # "run"

(* Threads the pool has not made yet do nothing.                           *)
Unborn == \A i \in Threads : pc[i] = "none" <=> i > poolSize

OnePlace(t) == \E p : Places(t) = {p}

Inductive ==
    /\ TypeOK
    /\ HasThread
    /\ InHand
    /\ Unborn
    /\ \A t \in Tasks : IF t <= offered THEN OnePlace(t) ELSE Places(t) = {}

(* What it takes for a task to be at a place.                              *)
At(p, t) ==
    \/ p = <<"queue", 0>> /\ t \in queue
    \/ p = <<"dispatcher", 0>> /\ held = t
    \/ p = <<"done", 0>> /\ t \in done
    \/ \E i \in Threads : p = <<"tasks", i>> /\ t \in tasks[i]
    \/ \E i \in Threads : p = <<"task", i>> /\ task[i] = t

(* The places of a task, by what it takes to be there.                     *)
LEMMA PlacesAt == \A t : \A p : p \in Places(t) <=> At(p, t)
BY DEF Places, At

(* The step leaves every task where it is.                                 *)
LEMMA StayInPlace ==
    ASSUME Inductive, offered' = offered,
           \A t \in Tasks : \A p : At(p, t)' <=> At(p, t)
    PROVE  \A t \in Tasks : IF t <= offered' THEN OnePlace(t)' ELSE Places(t)' = {}
<1>1. \A t \in Tasks : Places(t)' = Places(t)
  BY PlacesAt DEF Places, At
<1> QED
  BY <1>1 DEF Inductive, OnePlace

(* The step moves task x to place b and leaves the others where they are.  *)
LEMMA MoveOne ==
    ASSUME Inductive, offered' = offered,
           NEW x \in Tasks, NEW a, NEW b,
           At(a, x),
           \A p : At(p, x)' <=> (p = b \/ (At(p, x) /\ p # a)),
           \A t \in Tasks \ {x} : \A p : At(p, t)' <=> At(p, t)
    PROVE  \A t \in Tasks : IF t <= offered' THEN OnePlace(t)' ELSE Places(t)' = {}
<1>1. \A p : p \in Places(x)' <=> At(p, x)'
  BY PlacesAt DEF Places, At
<1>2. x <= offered /\ Places(x) = {a}
  BY PlacesAt DEF Inductive, OnePlace
<1>3. Places(x)' = {b}
  BY <1>1, <1>2, PlacesAt
<1>4. \A t \in Tasks \ {x} : Places(t)' = Places(t)
  BY PlacesAt DEF Places, At
<1> QED
  BY <1>2, <1>3, <1>4 DEF Inductive, OnePlace

-----------------------------------------------------------------------------
(* Every step keeps the invariant *)

(* At the start no task is anywhere.                                       *)
LEMMA InductiveInit == Init => Inductive
<1> SUFFICES ASSUME Init PROVE Inductive
  OBVIOUS
<1>1. TypeOK
  <2>1. /\ 0 \in 0 .. MaxTasks /\ InitPoolSize \in InitPoolSize .. MaxPoolSize
        /\ 0 \in 0 .. InitPoolSize
    BY SizesAssumption
  <2>2. /\ pc \in [Threads -> {"none", "top", "notify", "take", "mark", "pop", "run"}]
        /\ running \in [Threads -> BOOLEAN] /\ hasIdleThread \in BOOLEAN
        /\ tasks \in [Threads -> SUBSET Tasks]
        /\ task \in [Threads -> Tasks \cup {NoTask}]
    BY DEF Init
  <2> QED
    BY <2>1, <2>2 DEF Init, TypeOK
<1>2. \A t \in Tasks : Places(t) = {}
  BY PlacesAt DEF Init, At, Tasks, NoTask
<1>3. \A t \in Tasks : ~(t <= offered)
  BY SizesAssumption DEF Init, Tasks
<1> QED
  BY <1>1, <1>2, <1>3, SizesAssumption DEF Init, Inductive, HasThread, InHand, Unborn, Unborn, Threads

(* An offered task is in the queue and nowhere else.                       *)
LEMMA InductiveOffer ==
    ASSUME Inductive, OfferTask
    PROVE  Inductive'
<1> USE SizesAssumption
<1>1. offered \in Nat /\ offered' = offered + 1 /\ offered' \in Tasks
  BY DEF Inductive, TypeOK, OfferTask, Tasks
<1>2. TypeOK'
  BY <1>1 DEF Inductive, TypeOK, OfferTask, poolVars, dispatcher, threadVars, Tasks
<1>3. HasThread' /\ InHand' /\ Unborn'
  BY DEF Inductive, HasThread, InHand, Unborn, OfferTask, poolVars, dispatcher, threadVars
<1>4. ASSUME NEW t \in Tasks
      PROVE  IF t <= offered' THEN OnePlace(t)' ELSE Places(t)' = {}
  <2>1. \A p : p \in Places(t)' <=> At(p, t)'
    BY PlacesAt DEF Places, At
  <2>2. CASE t = offered'
    <3>1. Places(t) = {}
      BY <1>1, <2>2 DEF Inductive
    <3>2. \A p : At(p, t)' <=> (p = <<"queue", 0>> \/ At(p, t))
      BY <2>2 DEF At, OfferTask, poolVars, dispatcher, threadVars
    <3>3. Places(t)' = {<<"queue", 0>>}
      BY <2>1, <3>1, <3>2, PlacesAt
    <3>4. OnePlace(t)'
      BY <3>3 DEF OnePlace
    <3>5. t <= offered'
      BY <2>2, <1>1 DEF Tasks
    <3> QED
      BY <3>4, <3>5
  <2>3. CASE t # offered'
    <3>1. \A p : At(p, t)' <=> At(p, t)
      BY <2>3 DEF At, OfferTask, poolVars, dispatcher, threadVars
    <3>2. Places(t)' = Places(t)
      BY <2>1, <3>1, PlacesAt
    <3>3. t <= offered' <=> t <= offered
      BY <2>3, <1>1 DEF Tasks
    <3> QED
      BY <3>2, <3>3 DEF Inductive, OnePlace
  <2> QED
    BY <2>2, <2>3
<1> QED
  BY <1>2, <1>3, <1>4 DEF Inductive

(* The dispatcher moves one task from place to place.                      *)
LEMMA InductiveDispatch ==
    ASSUME Inductive, Dispatch
    PROVE  Inductive'
<1> USE SizesAssumption
<1>0. TypeOK
  BY DEF Inductive
<1>1. CASE PollTasks
  <2>1. PICK x \in Tasks : held' = x /\ x \in queue
    BY <1>0, <1>1, NewestIsQueued DEF TypeOK, PollTasks
  <2>2. TypeOK'
    <3>1. queue' \subseteq Tasks /\ held' \in Tasks \cup {NoTask} /\ dpc' \in {"poll", "scan", "start", "waiting"}
      BY <1>0, <1>1, <2>1 DEF TypeOK, PollTasks
    <3>2. scanned' \in 0 .. poolSize'
      BY <1>0, <1>1 DEF TypeOK, PollTasks
    <3> QED
      BY <1>0, <1>1, <3>1, <3>2 DEF TypeOK, PollTasks, threadVars
  <2>3. HasThread' /\ InHand' /\ Unborn'
    BY <1>1, <2>1 DEF Inductive, HasThread, InHand, Unborn, PollTasks, threadVars, Tasks, NoTask
  <2>4. held = NoTask
    BY <1>1 DEF Inductive, InHand, PollTasks
  <2>5. \A p : At(p, x)' <=> (p = <<"dispatcher", 0>> \/ (At(p, x) /\ p # <<"queue", 0>>))
    BY <1>1, <2>1, <2>4 DEF At, PollTasks, threadVars, Tasks, NoTask
  <2>6. \A t \in Tasks \ {x} : \A p : At(p, t)' <=> At(p, t)
    BY <1>1, <2>1, <2>4 DEF At, PollTasks, threadVars, Tasks, NoTask
  <2>7. At(<<"queue", 0>>, x)
    BY <2>1 DEF At
  <2>8. offered' = offered
    BY <1>1 DEF PollTasks
  <2>9. \A t \in Tasks : IF t <= offered' THEN OnePlace(t)' ELSE Places(t)' = {}
    BY <2>5, <2>6, <2>7, <2>8, MoveOne
  <2> QED
    BY <2>2, <2>3, <2>9 DEF Inductive
<1>2. CASE PassOver \/ FindIdle \/ BeginWait
  <2>1. TypeOK'
    <3>1. scanned' \in 0 .. poolSize'
      BY <1>0, <1>2 DEF TypeOK, PassOver, FindIdle, BeginWait, poolVars
    <3>2. hasIdleThread' \in BOOLEAN /\ dpc' \in {"poll", "scan", "start", "waiting"}
      BY <1>0, <1>2 DEF TypeOK, PassOver, FindIdle, BeginWait, poolVars
    <3>3. UNCHANGED <<offered, queue, poolSize, held, pc, running, tasks, task, done>>
      BY <1>2 DEF PassOver, FindIdle, BeginWait, poolVars, threadVars
    <3> QED
      BY <1>0, <3>1, <3>2, <3>3 DEF TypeOK
  <2>2. HasThread' /\ InHand' /\ Unborn'
    BY <1>0, <1>2 DEF TypeOK, Inductive, HasThread, InHand, Unborn, PassOver, FindIdle, BeginWait,
       poolVars, threadVars, Threads
  <2>3. offered' = offered /\ \A t \in Tasks : \A p : At(p, t)' <=> At(p, t)
    BY <1>2 DEF At, PassOver, FindIdle, BeginWait, poolVars, threadVars
  <2>4. \A t \in Tasks : IF t <= offered' THEN OnePlace(t)' ELSE Places(t)' = {}
    BY <2>3, StayInPlace
  <2> QED
    BY <2>1, <2>2, <2>4 DEF Inductive
<1>3. CASE AddThread
  <2>1. poolSize' \in Threads /\ poolSize' \in InitPoolSize .. MaxPoolSize
    BY <1>0, <1>3 DEF TypeOK, AddThread, Threads
  <2>2. TypeOK'
    BY <1>0, <1>3, <2>1 DEF TypeOK, AddThread
  <2>3. HasThread' /\ InHand' /\ Unborn'
    <3>1. \A i \in Threads : pc'[i] = IF i = poolSize' THEN "top" ELSE pc[i]
      BY <1>0, <1>3, <2>1 DEF TypeOK, AddThread
    <3>2. poolSize' = poolSize + 1 /\ poolSize \in Nat /\ pc[poolSize'] = "none"
      BY <1>0, <1>3, <2>1 DEF TypeOK, Inductive, Unborn, AddThread, Threads
    <3>3. HasThread' /\ InHand'
      BY <1>3, <2>1, <3>1, <3>2 DEF Inductive, HasThread, InHand, AddThread
    <3>4. Unborn'
      BY <2>1, <3>1, <3>2 DEF Inductive, Unborn, Threads
    <3> QED
      BY <3>3, <3>4
  <2>4. offered' = offered /\ \A t \in Tasks : \A p : At(p, t)' <=> At(p, t)
    BY <1>3 DEF At, AddThread
  <2>5. \A t \in Tasks : IF t <= offered' THEN OnePlace(t)' ELSE Places(t)' = {}
    BY <2>4, StayInPlace
  <2> QED
    BY <2>2, <2>3, <2>5 DEF Inductive
<1>4. CASE StartTasks
  <2>1. PICK x \in Tasks, i \in Threads : held = x /\ scanned = i
    BY <1>0, <1>4 DEF TypeOK, Inductive, InHand, HasThread, StartTasks
  <2>2. TypeOK'
    BY <1>0, <1>4, <2>1 DEF TypeOK, StartTasks, poolVars
  <2>3. HasThread' /\ InHand' /\ Unborn'
    BY <1>4 DEF Inductive, HasThread, InHand, Unborn, StartTasks, poolVars
  <2>4. \A j \in Threads : tasks'[j] = IF j = i THEN tasks[j] \cup {x} ELSE tasks[j]
    BY <1>0, <1>4, <2>1 DEF TypeOK, StartTasks
  <2>5. \A p : At(p, x)' <=>
                 (p = <<"tasks", i>> \/ (At(p, x) /\ p # <<"dispatcher", 0>>))
    BY <1>4, <2>1, <2>4 DEF At, StartTasks, poolVars, Tasks, NoTask
  <2>6. \A t \in Tasks \ {x} : \A p : At(p, t)' <=> At(p, t)
    BY <1>4, <2>1, <2>4 DEF At, StartTasks, poolVars, Tasks, NoTask
  <2>7. At(<<"dispatcher", 0>>, x)
    BY <2>1 DEF At
  <2>8. offered' = offered
    BY <1>4 DEF StartTasks
  <2>9. \A t \in Tasks : IF t <= offered' THEN OnePlace(t)' ELSE Places(t)' = {}
    BY <2>5, <2>6, <2>7, <2>8, MoveOne
  <2> QED
    BY <2>2, <2>3, <2>9 DEF Inductive
<1> QED
  BY <1>1, <1>2, <1>3, <1>4 DEF Dispatch

(* A pooled thread moves its task from place to place.                     *)
LEMMA InductiveLoop ==
    ASSUME Inductive, NEW i \in Threads, Loop(i) \/ EndTask(i)
    PROVE  Inductive'
<1>0. TypeOK
  BY DEF Inductive
<1>1. CASE Top(i) \/ NotifyForIdleThread(i) \/ Take(i) \/ Mark(i) \/ BecomeIdle(i)
  <2>1. TypeOK'
    <3>1. pc' \in [Threads -> {"none", "top", "notify", "take", "mark", "pop", "run"}]
      BY <1>0, <1>1 DEF TypeOK, Top, NotifyForIdleThread, Take, Mark, BecomeIdle
    <3>2. running' \in [Threads -> BOOLEAN] /\ hasIdleThread' \in BOOLEAN
      BY <1>0, <1>1 DEF TypeOK, Top, NotifyForIdleThread, Take, Mark, BecomeIdle, poolVars
    <3>3. dpc' \in {"poll", "scan", "start", "waiting"} /\ scanned' \in 0 .. poolSize'
      BY <1>0, <1>1, SizesAssumption DEF TypeOK, Top, NotifyForIdleThread, Take, Mark,
         BecomeIdle, poolVars, dispatcher
    <3>4. UNCHANGED <<offered, queue, poolSize, held, tasks, task, done>>
      BY <1>1 DEF Top, NotifyForIdleThread, Take, Mark, BecomeIdle, poolVars, dispatcher
    <3> QED
      BY <1>0, <3>1, <3>2, <3>3, <3>4 DEF TypeOK
  <2>2. HasThread' /\ InHand' /\ Unborn'
    <3>1. \A j \in Threads \ {i} : pc'[j] = pc[j]
      BY <1>0, <1>1 DEF TypeOK, Top, NotifyForIdleThread, Take, Mark, BecomeIdle
    <3>2. pc[i] \notin {"none", "run"} /\ pc'[i] \notin {"none", "run"}
      BY <1>0, <1>1 DEF TypeOK, Top, NotifyForIdleThread, Take, Mark, BecomeIdle
    <3>3. UNCHANGED <<poolSize, held, task>>
      BY <1>1 DEF Top, NotifyForIdleThread, Take, Mark, BecomeIdle, poolVars, dispatcher
    <3>4. HasThread'
      BY <1>1 DEF Inductive, HasThread, Top, NotifyForIdleThread, Take, Mark, BecomeIdle,
         dispatcher
    <3>5. dpc' = "poll" <=> dpc = "poll"
      BY <1>1 DEF Top, NotifyForIdleThread, Take, Mark, BecomeIdle, dispatcher
    <3> QED
      BY <3>1, <3>2, <3>3, <3>4, <3>5 DEF Inductive, InHand, Unborn
  <2>3. offered' = offered /\ \A t \in Tasks : \A p : At(p, t)' <=> At(p, t)
    BY <1>1 DEF At, Top, NotifyForIdleThread, Take, Mark, BecomeIdle, poolVars, dispatcher
  <2>4. \A t \in Tasks : IF t <= offered' THEN OnePlace(t)' ELSE Places(t)' = {}
    BY <2>3, StayInPlace
  <2> QED
    BY <2>1, <2>2, <2>4 DEF Inductive
<1>2. CASE PopTask(i)
  <2>1. PICK x \in Tasks : x = Newest(tasks[i]) /\ x \in tasks[i]
    BY <1>0, <1>2, NewestIsQueued DEF TypeOK, PopTask
  <2>2. /\ pc' = [pc EXCEPT ![i] = "run"] /\ pc[i] = "pop"
        /\ task' = [task EXCEPT ![i] = x]
        /\ tasks' = [tasks EXCEPT ![i] = @ \ {x}]
        /\ UNCHANGED <<offered, poolVars, dispatcher, running, done>>
    BY <1>2, <2>1 DEF PopTask
  <2>3. task[i] = NoTask
    BY <2>2 DEF Inductive, InHand
  <2>4. TypeOK'
    BY <1>0, <2>2 DEF TypeOK, poolVars, dispatcher
  <2>5. HasThread' /\ InHand' /\ Unborn'
    BY <1>0, <2>2 DEF TypeOK, Inductive, HasThread, InHand, Unborn, poolVars, dispatcher,
       Tasks, NoTask
  <2>6. \A j \in Threads : /\ tasks'[j] = IF j = i THEN tasks[i] \ {x} ELSE tasks[j]
                           /\ task'[j] = IF j = i THEN x ELSE task[j]
    BY <1>0, <2>2 DEF TypeOK
  <2>7. \A p : At(p, x)' <=> (p = <<"task", i>> \/ (At(p, x) /\ p # <<"tasks", i>>))
    BY <2>2, <2>3, <2>6 DEF At, poolVars, dispatcher, Tasks, NoTask
  <2>8. \A t \in Tasks \ {x} : \A p : At(p, t)' <=> At(p, t)
    BY <2>2, <2>3, <2>6 DEF At, poolVars, dispatcher, Tasks, NoTask
  <2>9. At(<<"tasks", i>>, x)
    BY <2>1 DEF At
  <2>10. \A t \in Tasks : IF t <= offered' THEN OnePlace(t)' ELSE Places(t)' = {}
    BY <2>2, <2>7, <2>8, <2>9, MoveOne
  <2> QED
    BY <2>4, <2>5, <2>10 DEF Inductive
<1>3. CASE EndTask(i)
  <2>1. PICK x \in Tasks : x = task[i]
    BY <1>0, <1>3 DEF TypeOK, Inductive, InHand, EndTask
  <2>2. /\ pc' = [pc EXCEPT ![i] = "pop"] /\ pc[i] = "run"
        /\ task' = [task EXCEPT ![i] = NoTask]
        /\ done' = done \cup {x}
        /\ UNCHANGED <<offered, poolVars, dispatcher, running, tasks>>
    BY <1>3, <2>1 DEF EndTask
  <2>3. TypeOK'
    BY <1>0, <2>2 DEF TypeOK, poolVars, dispatcher
  <2>4. HasThread' /\ InHand' /\ Unborn'
    BY <1>0, <2>2 DEF TypeOK, Inductive, HasThread, InHand, Unborn, poolVars, dispatcher
  <2>5. \A j \in Threads : task'[j] = IF j = i THEN NoTask ELSE task[j]
    BY <1>0, <2>2 DEF TypeOK
  <2>6. \A p : At(p, x)' <=> (p = <<"done", 0>> \/ (At(p, x) /\ p # <<"task", i>>))
    BY <2>1, <2>2, <2>5 DEF At, poolVars, dispatcher, Tasks, NoTask
  <2>7. \A t \in Tasks \ {x} : \A p : At(p, t)' <=> At(p, t)
    BY <2>1, <2>2, <2>5 DEF At, poolVars, dispatcher, Tasks, NoTask
  <2>8. At(<<"task", i>>, x)
    BY <2>1 DEF At
  <2>9. \A t \in Tasks : IF t <= offered' THEN OnePlace(t)' ELSE Places(t)' = {}
    BY <2>2, <2>6, <2>7, <2>8, MoveOne
  <2> QED
    BY <2>3, <2>4, <2>9 DEF Inductive
<1> QED
  BY <1>1, <1>2, <1>3 DEF Loop

(* Every offered task has one place.                                       *)
LEMMA InductiveInvariant == Spec => []Inductive
<1>1. Inductive /\ [Next]_vars => Inductive'
  <2> SUFFICES ASSUME Inductive, [Next]_vars PROVE Inductive'
    OBVIOUS
  <2>1. CASE Next
    BY <2>1, InductiveOffer, InductiveDispatch, InductiveLoop DEF Next
  <2>2. CASE UNCHANGED vars
    <3>1. TypeOK'
      BY <2>2 DEF Inductive, TypeOK, vars, poolVars, dispatcher, threadVars
    <3>2. HasThread' /\ InHand' /\ Unborn'
      BY <2>2 DEF Inductive, HasThread, InHand, Unborn, vars, poolVars, dispatcher, threadVars
    <3>3. offered' = offered /\ \A t \in Tasks : \A p : At(p, t)' <=> At(p, t)
      BY <2>2 DEF At, vars, poolVars, dispatcher, threadVars
    <3>4. \A t \in Tasks : IF t <= offered' THEN OnePlace(t)' ELSE Places(t)' = {}
      BY <3>3, StayInPlace
    <3> QED
      BY <3>1, <3>2, <3>4 DEF Inductive
  <2> QED
    BY <2>1, <2>2
<1> QED
  BY <1>1, InductiveInit, PTL DEF Spec

-----------------------------------------------------------------------------
(* Results *)

(* The variables of the pool keep their types, and the pool its limits.    *)
THEOREM PoolTypeCorrect == Spec => []TypeOK
<1>1. Inductive => TypeOK
  BY DEF Inductive
<1> QED
  BY <1>1, InductiveInvariant, PTL

(* No task is lost and none is run twice, however the dispatcher and the   *)
(* threads interleave: every task offered is in one place.                 *)
THEOREM NoTaskLostOrDoubled == Spec => []EachTaskOnce
<1>1. Inductive => EachTaskOnce
  <2> SUFFICES ASSUME Inductive, NEW t \in 1 .. offered
               PROVE  Cardinality(Places(t)) = 1
    BY DEF EachTaskOnce
  <2>1. t \in Tasks /\ t <= offered
    BY SizesAssumption DEF Inductive, TypeOK, Tasks
  <2>2. PICK p : Places(t) = {p}
    BY <2>1 DEF Inductive, OnePlace
  <2> QED
    BY <2>2, FS_Singleton
<1> QED
  BY <1>1, InductiveInvariant, PTL
===============================================================================
