----------------------------- MODULE MCThreadPool -----------------------------
(* Instances of ThreadPool for TLC. *)
EXTENDS ThreadPool, TLC

\* Workers are interchangeable, and so are callers and tasks.  Used with
\* invariants only: symmetry is not sound for the temporal properties.
PoolSymmetry ==
    Permutations(Workers) \cup Permutations(Callers) \cup Permutations(Tasks)
===============================================================================
