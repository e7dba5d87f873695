--------------------------- MODULE MCDecodeExecutor ---------------------------
(* A small instance of DecodeExecutor and its refinement for TLC.          *)
EXTENDS DecodeExecutorRefinement

CONSTANTS n1, n2, v1, v2, p1

MCNodes    == {n1, n2}
MCViews    == {v1, v2}
MCPatterns == {p1}
=============================================================================
