----------------------------- MODULE MCSqlConnPool -----------------------------
(* Instances of SqlConnPool for TLC. *)
EXTENDS SqlConnPool, TLC

\* The threads are alike.
ThreadSymmetry == Permutations(Threads)

\* All requests; but a name that SQL reads otherwise comes with one password, since
\* what is asked then does not depend on it.
MCAsked ==
    {r \in Request : r.name \in Quoted =>
                         r.pwd \in {Empty, CHOOSE p \in Passwords : p \notin Quoted}}
===============================================================================
