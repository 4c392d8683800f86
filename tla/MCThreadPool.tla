--------------------------- MODULE MCThreadPool ---------------------------
(* Small instances of ThreadPool for TLC.                                  *)
EXTENDS ThreadPool, TLC

\* Thread handles are interchangeable.
Symmetry == Permutations(Threads)
===========================================================================
