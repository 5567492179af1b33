---------------------------- MODULE MCThreadPool ----------------------------
(* Small instances of ThreadPool.  Workers, tasks and callers are           *)
(* interchangeable, so the safety runs identify permuted states.            *)
EXTENDS ThreadPool, TLC

Symmetry == Permutations(Workers) \cup Permutations(Tasks)
                \cup Permutations(Enqueuers) \cup Permutations(Stoppers)
=============================================================================
