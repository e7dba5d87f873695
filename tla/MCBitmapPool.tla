----------------------------- MODULE MCBitmapPool -----------------------------
(* Model values and symmetry for BitmapPool.                               *)
EXTENDS BitmapPool, TLC

CONSTANTS decoder, ui, r1, r2, r3, b1

TwoThreads == {decoder, ui}
DecoderOnly == {decoder}
UIOnly == {ui}
Nobody == {}
ThreeRefs == {r1, r2, r3}
OneBitmaps == {b1}
TwoHeights == {1, 2}
OneHeight == {1}

PoolSymmetry == Permutations(Refs)
===============================================================================
