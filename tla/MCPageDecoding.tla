---------------------------- MODULE MCPageDecoding ----------------------------
(* Small instances of PageDecoding for TLC: the root of a page and two     *)
(* objects that the same slot of its children may hold, or the root alone. *)
EXTENDS PageDecoding, TLC

CONSTANTS root, child, successor

Children == {child, successor}
MCNodes  == {root} \cup Children
MCPlace  == [n \in MCNodes |-> IF n = root THEN 0 ELSE 1]
MCKin    == [n \in MCNodes |-> IF n = root THEN Children ELSE {root}]
OneRoot  == {root}
RootKin  == [n \in OneRoot |-> {}]
Symmetry == Permutations(Children)
MCViews  == 1 .. 2
=============================================================================
