---------------------------- MODULE MCWasmCache ----------------------------
(* Model-checking instances of WasmCache.                                   *)
EXTENDS WasmCache, TLC

CONSTANTS t1, t2, c1, c2, c3

(* Compiled sizes: c1 is small, c2 larger.                                  *)
MCSize == [c \in Checksums |-> IF c = c1 THEN 1 ELSE 2]

ThreadSymmetry == Permutations(Threads)
=============================================================================
