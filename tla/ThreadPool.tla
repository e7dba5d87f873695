------------------------------ MODULE ThreadPool ------------------------------
(***************************************************************************)
(* ThreadPool and PooledThread, which run the background tasks of the      *)
(* library and of the epub reader.  Clients offer tasks; one dispatcher    *)
(* thread takes the newest, looks for an idle thread and puts the task in  *)
(* the queue of that thread.  Nobody calls setPoolSize, kill, stopTasks,   *)
(* pauseTasks or clearTasks: they are left out.                            *)
(***************************************************************************)
EXTENDS Naturals, FiniteSets

CONSTANTS
    InitPoolSize,   \* CORE_POOL_SIZE
    MaxPoolSize,    \* MAXIMUM_POOL_SIZE
    MaxTasks,       \* bound: how many tasks are offered in a behaviour
    Daemons         \* tasks that may run for ever (WebReader's two loops)

ASSUME SizesAssumption ==
    /\ {InitPoolSize, MaxPoolSize, MaxTasks} \subseteq Nat
    /\ InitPoolSize <= MaxPoolSize
    /\ MaxPoolSize > 0

Tasks   == 1 .. MaxTasks
Threads == 1 .. MaxPoolSize
NoTask  == 0

ASSUME DaemonsAssumption == Daemons \subseteq Tasks

VARIABLES
    offered,        \* how many tasks were offered; a task is its number
    queue,          \* ThreadPool.queue
    hasIdleThread,  \* ThreadPool.hasIdleThread
    poolSize,       \* threads.size()
    dpc,            \* where the dispatcher is
    held,           \* the task it looks for a thread for
    scanned,        \* how many threads it has passed over
    pc,             \* where each pooled thread is
    running,        \* PooledThread.running
    tasks,          \* PooledThread.tasks
    task,           \* the task a thread executes, or NoTask
    done            \* the tasks that have ended

poolVars   == <<queue, hasIdleThread, poolSize>>
dispatcher == <<dpc, held, scanned>>
threadVars == <<pc, running, tasks, task, done>>
vars       == <<offered, poolVars, dispatcher, threadVars>>

(* init starts the first threads; a thread not yet created is "none".      *)
Init ==
    /\ offered = 0
    /\ queue = {}
    /\ hasIdleThread = FALSE
    /\ poolSize = InitPoolSize
    /\ dpc = "poll" /\ held = NoTask /\ scanned = 0
    /\ pc = [i \in Threads |-> IF i <= InitPoolSize THEN "top" ELSE "none"]
    /\ running = [i \in Threads |-> FALSE]
    /\ tasks = [i \in Threads |-> {}]
    /\ task = [i \in Threads |-> NoTask]
    /\ done = {}

(* Both queues are ordered by creation time, the newest first.             *)
Newest(q) == CHOOSE t \in q : \A u \in q : u <= t

OfferTask ==
    /\ offered < MaxTasks
    /\ offered' = offered + 1
    /\ queue' = queue \cup {offered'}
    /\ UNCHANGED <<hasIdleThread, poolSize, dispatcher, threadVars>>

-----------------------------------------------------------------------------
(* The dispatcher *)

PollTasks ==
    /\ dpc = "poll"
    /\ queue # {}
    /\ held' = Newest(queue)
    /\ queue' = queue \ {held'}
    /\ dpc' = "scan" /\ scanned' = 0
    /\ UNCHANGED <<offered, hasIdleThread, poolSize, threadVars>>

(* getIdleThread reads the running flags one after another, unlocked.      *)
PassOver ==
    /\ dpc = "scan"
    /\ scanned < poolSize
    /\ running[scanned + 1]
    /\ scanned' = scanned + 1
    /\ UNCHANGED <<offered, poolVars, dpc, held, threadVars>>

FindIdle ==
    /\ dpc = "scan"
    /\ scanned < poolSize
    /\ ~running[scanned + 1]
    /\ scanned' = scanned + 1
    /\ dpc' = "start"
    /\ UNCHANGED <<offered, poolVars, held, threadVars>>

\* A variant that makes one thread too many.
AddThreadOver ==
    /\ dpc = "scan"
    /\ scanned = poolSize
    /\ poolSize <= MaxPoolSize
    /\ poolSize' = poolSize + 1
    /\ pc' = [i \in Threads |-> IF i = poolSize' THEN "top" ELSE pc[i]]
    /\ scanned' = poolSize'
    /\ dpc' = "start"
    /\ UNCHANGED <<offered, queue, hasIdleThread, held, running, tasks, task, done>>

\* A variant that does not return the thread it has made: the task is dropped.
AddThreadInVain ==
    /\ dpc = "scan"
    /\ scanned = poolSize
    /\ poolSize < MaxPoolSize
    /\ poolSize' = poolSize + 1
    /\ pc' = [pc EXCEPT ![poolSize'] = "top"]
    /\ held' = NoTask
    /\ dpc' = "poll"
    /\ UNCHANGED <<offered, queue, hasIdleThread, scanned, running, tasks, task, done>>

AddThread ==
    /\ dpc = "scan"
    /\ scanned = poolSize
    /\ poolSize < MaxPoolSize
    /\ poolSize' = poolSize + 1
    /\ pc' = [pc EXCEPT ![poolSize'] = "top"]
    /\ scanned' = poolSize'
    /\ dpc' = "start"
    /\ UNCHANGED <<offered, queue, hasIdleThread, held, running, tasks, task, done>>

\* The dispatcher gives its task to the thread it has found.
StartTasks ==
    /\ dpc = "start"
    /\ tasks' = [tasks EXCEPT ![scanned] = @ \cup {held}]
    /\ held' = NoTask
    /\ dpc' = "poll"
    /\ UNCHANGED <<offered, poolVars, scanned, pc, running, task, done>>

(* waitForIdleThread forgets the notifications of before.                  *)
BeginWait ==
    /\ dpc = "scan"
    /\ scanned = poolSize
    /\ poolSize = MaxPoolSize
    /\ hasIdleThread' = FALSE
    /\ dpc' = "waiting"
    /\ UNCHANGED <<offered, queue, poolSize, held, scanned, threadVars>>

Dispatch ==
    PollTasks \/ PassOver \/ FindIdle \/ AddThread \/ StartTasks \/ BeginWait

-----------------------------------------------------------------------------
(* A pooled thread *)

Top(i) ==
    /\ pc[i] = "top"
    /\ pc' = [pc EXCEPT ![i] =
                 IF ~running[i] \/ tasks[i] = {} THEN "notify" ELSE "pop"]
    /\ UNCHANGED <<offered, poolVars, dispatcher, running, tasks, task, done>>

(* notifyForIdleThread: the dispatcher, if it waits, scans again.          *)
NotifyForIdleThread(i) ==
    /\ pc[i] = "notify"
    /\ pc' = [pc EXCEPT ![i] = "take"]
    /\ hasIdleThread' = TRUE
    /\ IF dpc = "waiting" THEN dpc' = "scan" /\ scanned' = 0
                          ELSE UNCHANGED <<dpc, scanned>>
    /\ UNCHANGED <<offered, queue, poolSize, held, running, tasks, task, done>>

\* A variant that does not put back what it took.
TakeAway(i) ==
    /\ pc[i] = "take"
    /\ tasks[i] # {}
    /\ tasks' = [tasks EXCEPT ![i] = @ \ {Newest(@)}]
    /\ pc' = [pc EXCEPT ![i] = "mark"]
    /\ UNCHANGED <<offered, poolVars, dispatcher, running, task, done>>

(* tasks.take() blocks until there is a task, which is then put back.      *)
Take(i) ==
    /\ pc[i] = "take"
    /\ tasks[i] # {}
    /\ pc' = [pc EXCEPT ![i] = "mark"]
    /\ UNCHANGED <<offered, poolVars, dispatcher, running, tasks, task, done>>

Mark(i) ==
    /\ pc[i] = "mark"
    /\ running' = [running EXCEPT ![i] = TRUE]
    /\ pc' = [pc EXCEPT ![i] = "top"]
    /\ UNCHANGED <<offered, poolVars, dispatcher, tasks, task, done>>

PopTask(i) ==
    /\ pc[i] = "pop"
    /\ tasks[i] # {}
    /\ task' = [task EXCEPT ![i] = Newest(tasks[i])]
    /\ tasks' = [tasks EXCEPT ![i] = @ \ {Newest(@)}]
    /\ pc' = [pc EXCEPT ![i] = "run"]
    /\ UNCHANGED <<offered, poolVars, dispatcher, running, done>>

EndTask(i) ==
    /\ pc[i] = "run"
    /\ done' = done \cup {task[i]}
    /\ task' = [task EXCEPT ![i] = NoTask]
    /\ pc' = [pc EXCEPT ![i] = "pop"]
    /\ UNCHANGED <<offered, poolVars, dispatcher, running, tasks>>

BecomeIdle(i) ==
    /\ pc[i] = "pop"
    /\ tasks[i] = {}
    /\ running' = [running EXCEPT ![i] = FALSE]
    /\ pc' = [pc EXCEPT ![i] = "top"]
    /\ UNCHANGED <<offered, poolVars, dispatcher, tasks, task, done>>

Loop(i) ==
    \/ Top(i) \/ NotifyForIdleThread(i) \/ Take(i) \/ Mark(i) \/ PopTask(i)
    \/ BecomeIdle(i)

Next == OfferTask \/ Dispatch \/ \E i \in Threads : Loop(i) \/ EndTask(i)

Spec == Init /\ [][Next]_vars

(* Threads are scheduled; every task but a daemon ends.                    *)
Fairness ==
    /\ WF_vars(Dispatch)
    /\ \A i \in Threads :
          /\ WF_vars(Loop(i))
          /\ WF_vars(EndTask(i) /\ task[i] \notin Daemons)

FairSpec == Spec /\ Fairness

-----------------------------------------------------------------------------
(* Properties *)

TypeOK ==
    /\ offered \in 0 .. MaxTasks
    /\ queue \subseteq Tasks
    /\ hasIdleThread \in BOOLEAN
    /\ poolSize \in InitPoolSize .. MaxPoolSize
    /\ dpc \in {"poll", "scan", "start", "waiting"}
    /\ held \in Tasks \cup {NoTask}
    /\ scanned \in 0 .. poolSize
    /\ pc \in [Threads -> {"none", "top", "notify", "take", "mark", "pop", "run"}]
    /\ running \in [Threads -> BOOLEAN]
    /\ tasks \in [Threads -> SUBSET Tasks]
    /\ task \in [Threads -> Tasks \cup {NoTask}]
    /\ done \subseteq Tasks

\* The places where a task may be.
Places(t) ==
    {<<"queue", 0>> : x \in queue \cap {t}}
        \cup {<<"dispatcher", 0>> : x \in {held} \cap {t}}
        \cup {<<"done", 0>> : x \in done \cap {t}}
        \cup {<<"tasks", i>> : i \in {j \in Threads : t \in tasks[j]}}
        \cup {<<"task", i>> : i \in {j \in Threads : task[j] = t}}

\* No task is lost or run twice: each is in one place between offer and end,
\* whatever the dispatcher and the threads do to the queues meanwhile.
EachTaskOnce == \A t \in 1 .. offered : Cardinality(Places(t)) = 1

\* Every offered task ends, unless the dispatcher waits for ever at the limit of
\* the pool (WaitsForBusyThread shows how): no other wait, queue or flag of the
\* pool stops a task for good.
OfferedEnds ==
    \A t \in Tasks : (t <= offered) ~> (t \in done \/ [](dpc = "waiting"))

\* "Keep waiting if there is no idle thread and no thread can be made"
\* (waitForIdleThread): the dispatcher does not wait while every thread is idle.
WaitsForBusyThread ==
    dpc = "waiting" => \E i \in Threads : ~(pc[i] = "take" /\ tasks[i] = {})

\* A task offered to a pool with threads to spare starts even if another never
\* ends: tasks of the pool run in parallel (ParallelTask).
RunsInParallel ==
    \A t \in Tasks : (t <= offered) ~> (t \in done \/ \E i \in Threads : task[i] = t)
=============================================================================
