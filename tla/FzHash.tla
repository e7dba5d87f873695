-------------------------------- MODULE FzHash --------------------------------
(***************************************************************************)
(* The hash table of mupdf (fitz/base_hash.c): open addressing with linear *)
(* probing, and no tombstones, so that a removal closes its gap by moving  *)
(* entries back.  A table is a function from 0 .. size-1 to values or      *)
(* NoVal; the key of a value is KeyOf[v], its hash Slot[KeyOf[v]].         *)
(***************************************************************************)
EXTENDS Integers, FiniteSetsExt, SequencesExt

CONSTANTS
    KeyOf,      \* the key of each value
    Slot,       \* what hash() makes of each key
    NoVal,      \* ents[i].val = NULL
    LoadTenths  \* the share of a table that may be in use, in tenths: 8

EmptyTable(size) == [i \in 0 .. size - 1 |-> NoVal]

SizeOf(table) == Cardinality(DOMAIN table)

Entries(table) == {i \in DOMAIN table : table[i] # NoVal}

Load(table) == Cardinality(Entries(table))

Home(table, k) == Slot[k] % SizeOf(table)

(* Where the search for k ends: at its entry or at the first empty one.    *)
Probe(table, k) ==
    LET Pos(d) == (Home(table, k) + d) % SizeOf(table)
        Ends(d) == table[Pos(d)] = NoVal \/ KeyOf[table[Pos(d)]] = k
    IN  Pos(Min({d \in 0 .. SizeOf(table) - 1 : Ends(d)}))

HashFind(table, k) == table[Probe(table, k)]

(* Only for a key that is absent: otherwise the entry stays as it is.      *)
HashInsert(table, v) ==
    [table EXCEPT ![Probe(table, KeyOf[v])] = v]

TooFull(table) == Load(table) > (SizeOf(table) * LoadTenths) \div 10

Resized(table, size) ==
    LET Old == [i \in 1 .. SizeOf(table) |-> table[i - 1]]
        Put(new, v) == IF v = NoVal THEN new ELSE HashInsert(new, v)
    IN  FoldLeft(Put, EmptyTable(size), Old)

\* A variant that compares positions as if the table did not wrap.
MayFillWithoutWrap(code, hole, look) == code <= hole /\ hole < look

(* Is the gap on the way from the home of an entry to where it is now?     *)
MayFill(code, hole, look) ==
    \/ code <= hole /\ hole < look
    \/ look < code /\ code <= hole
    \/ hole < look /\ look < code

(* The entries behind i up to the next empty one, in order.                *)
RunAfter(table, i) ==
    LET At(d) == (i + d) % SizeOf(table)
        End == Min({d \in 1 .. SizeOf(table) : table[At(d)] = NoVal \/ At(d) = i})
    IN  [d \in 1 .. End - 1 |-> At(d)]

HashRemove(table, k) ==
    LET pos == Probe(table, k)
        Fill(s, look) ==
            IF MayFill(Home(table, KeyOf[s.ents[look]]), s.hole, look)
            THEN [ents |-> [s.ents EXCEPT ![s.hole] = s.ents[look], ![look] = NoVal],
                  hole |-> look]
            ELSE s
    IN  IF table[pos] = NoVal
        THEN table
        ELSE FoldLeft(Fill, [ents |-> [table EXCEPT ![pos] = NoVal], hole |-> pos],
                      RunAfter(table, pos)).ents
===============================================================================
