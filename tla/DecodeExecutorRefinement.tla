----------------------- MODULE DecodeExecutorRefinement -----------------------
(***************************************************************************)
(* DecodeExecutor implements RequestBoard.  The wanted request of a node   *)
(* is its registered task while nobody has cancelled it; the server works  *)
(* on the decode task in the hands of the decoder thread.                  *)
(***************************************************************************)
EXTENDS DecodeExecutor

Wanted(n) ==
    IF decodingTasks[n] # NoTask /\ ~IsDead(decodingTasks[n])
    THEN decodingTasks[n] ELSE NoTask

Want == [n \in Nodes |-> Wanted(n)]

Served == IF current # NoTask /\ current.kind = "decode" THEN current ELSE NoTask

Board == INSTANCE RequestBoard WITH
    None <- NoTask, want <- Want, serving <- Served,
    closed <- isRecycled

(* Every behaviour of the executor is one of the board, so that the slots, *)
(* the cancelled flags and the unlocked steps of the decoder thread show   *)
(* to no client.                                                           *)
BoardSpec == Board!Spec

(* What the refinement needs besides the invariants of DecodeExecutor.     *)
(* Only live tasks are queued: what is cancelled (by a newer request,      *)
(* stopDecoding, a finished task or recycle) leaves its slot with it, and  *)
(* the decoder thread starts no request that was withdrawn.                *)
QueuedIsLive ==
    \A i \in DOMAIN tasks :
        (tasks[i] # NoTask /\ tasks[i].kind = "decode") => ~IsDead(tasks[i])

(* A task that was finished or aborted is no longer wanted.                *)
SettledIsDead == pc \in Settled => IsDead(current)

(* A recycled service wants nothing.                                       *)
ClosedIsDead ==
    isRecycled => \A n \in Nodes :
                      decodingTasks[n] # NoTask => IsDead(decodingTasks[n])

(* A number is cancelled only after a task got it.                         *)
CancelledPast == \A x \in cancelled : x < nextId

(* No two nodes have the same task.                                        *)
RegistrationsDistinct ==
    \A m, n \in Nodes :
        (decodingTasks[m] # NoTask /\ decodingTasks[n] # NoTask
            /\ decodingTasks[m].id = decodingTasks[n].id) => m = n
=============================================================================
