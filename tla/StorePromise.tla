----------------------------- MODULE StorePromise -----------------------------
(***************************************************************************)
(* What the store promises (fitz/fitz-internal.h): it "can be seen as a    *)
(* dictionary that maps keys to fz_storable values".  A value exists as    *)
(* long as the dictionary or a thread has it; the dictionary gives up what *)
(* it likes, but as long as the document is open nothing that is in use.   *)
(***************************************************************************)
EXTENDS FiniteSets

CONSTANTS Threads, Vals, KeyOf, Hashed

VARIABLES
    dict,   \* the values in the dictionary
    live,   \* the values that exist
    held,   \* those each thread has a reference to
    open    \* the document is open

vars == <<dict, live, held, open>>

Init ==
    /\ dict = {} /\ live = {}
    /\ held = [t \in Threads |-> {}]
    /\ open = TRUE

(* Values that nobody has any more are freed, now or later.                *)
FreeUnused ==
    /\ live' \subseteq live
    /\ live \cap (dict' \cup UNION {held'[t] : t \in Threads}) \subseteq live'

Create(t, v) ==
    /\ v \in Vals \ live
    /\ live' = live \cup {v}
    /\ held' = [held EXCEPT ![t] = @ \cup {v}]
    /\ UNCHANGED <<dict, open>>

Put(t, v) ==
    /\ open /\ v \in held[t] \ dict
    /\ KeyOf[v] \in Hashed => \A u \in dict : KeyOf[u] # KeyOf[v]
    /\ dict' = dict \cup {v}
    /\ UNCHANGED <<live, held, open>>

Get(t, v) ==
    /\ open /\ v \in dict
    /\ held' = [held EXCEPT ![t] = @ \cup {v}]
    /\ UNCHANGED <<dict, live, open>>

Give(t, u, v) ==
    /\ v \in held[t]
    /\ held' = [held EXCEPT ![u] = @ \cup {v}]
    /\ UNCHANGED <<dict, live, open>>

Drop(t, v) ==
    /\ v \in held[t]
    /\ held' = [held EXCEPT ![t] = @ \ {v}]
    /\ FreeUnused
    /\ UNCHANGED <<dict, open>>

Evict(v) ==
    /\ v \in dict
    /\ open => \A t \in Threads : v \notin held[t]
    /\ dict' = dict \ {v}
    /\ FreeUnused
    /\ UNCHANGED <<held, open>>

Free == FreeUnused /\ UNCHANGED <<dict, held, open>>

Close == open /\ open' = FALSE /\ UNCHANGED <<dict, live, held>>

Next ==
    \/ \E t \in Threads, v \in Vals :
         Create(t, v) \/ Put(t, v) \/ Get(t, v) \/ Drop(t, v)
    \/ \E t, u \in Threads, v \in Vals : Give(t, u, v)
    \/ \E v \in Vals : Evict(v)
    \/ Free \/ Close

Spec == Init /\ [][Next]_vars
----------------------------------------------------------------------------
(* What a caller may rely on.                                              *)

TypeOK ==
    /\ dict \subseteq Vals /\ live \subseteq Vals
    /\ held \in [Threads -> SUBSET Vals]
    /\ open \in BOOLEAN

(* Nothing that a thread or the dictionary has is ever freed.              *)
InUseIsLive == dict \cup UNION {held[t] : t \in Threads} \subseteq live

(* Threads that load one hashed key at a time end up with one entry.       *)
OneEntryPerKey ==
    \A u, v \in dict : KeyOf[u] = KeyOf[v] /\ KeyOf[u] \in Hashed => u = v
===============================================================================
