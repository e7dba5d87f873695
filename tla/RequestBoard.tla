----------------------------- MODULE RequestBoard -----------------------------
(***************************************************************************)
(* What the decoding service promises its clients, without slots, flags    *)
(* and threads: a board with at most one wanted request for each node, and *)
(* a server that starts nothing but wanted requests, one at a time, and    *)
(* gives up on a request only when it is no longer wanted.                 *)
(***************************************************************************)
EXTENDS Naturals

CONSTANTS
    Nodes,      \* what a request is for
    Views,      \* how it is to be seen
    None        \* no request

Request == [kind : {"decode"}, id : Nat, node : Nodes, view : Views]

VARIABLES
    want,       \* the request wanted for each node, or None
    serving,    \* the request the server works on, or None
    nextId,     \* the number of the next request
    closed      \* no request is taken any more

vars == <<want, serving, nextId, closed>>

Init ==
    /\ want = [n \in Nodes |-> None]
    /\ serving = None
    /\ nextId = 1
    /\ closed = FALSE

(* A request equal to the wanted one changes nothing but uses a number.    *)
Ask(n, v) ==
    /\ ~closed
    /\ nextId' = nextId + 1
    /\ want' = IF want[n] # None /\ want[n].view = v
               THEN want
               ELSE [want EXCEPT ![n] = [kind |-> "decode", id |-> nextId,
                                         node |-> n, view |-> v]]
    /\ UNCHANGED <<serving, closed>>

(* By its client, or because work for the node has come to an end.         *)
Withdraw(n) ==
    /\ want' = [want EXCEPT ![n] = None]
    /\ UNCHANGED <<serving, nextId, closed>>

(* Other work of the service uses numbers of the same sequence.            *)
UseNumber ==
    /\ ~closed
    /\ nextId' = nextId + 1
    /\ UNCHANGED <<want, serving, closed>>

Close ==
    /\ ~closed
    /\ closed' = TRUE
    /\ want' = [n \in Nodes |-> None]
    /\ nextId' = nextId + 1
    /\ UNCHANGED serving

Take ==
    /\ ~closed
    /\ serving = None
    /\ \E n \in Nodes : want[n] # None /\ serving' = want[n]
    /\ UNCHANGED <<want, nextId, closed>>

Release ==
    /\ serving # None
    /\ want[serving.node] # serving
    /\ serving' = None
    /\ UNCHANGED <<want, nextId, closed>>

Next ==
    \/ \E n \in Nodes : Withdraw(n) \/ \E v \in Views : Ask(n, v)
    \/ UseNumber \/ Close \/ Take \/ Release

Spec == Init /\ [][Next]_vars
=============================================================================
