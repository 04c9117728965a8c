------------------------------ MODULE MCWebServer ------------------------------
(* Instances of WebServer for TLC. *)
EXTENDS WebServer, TLC

\* The threads, the descriptors and the clients are alike.
ServerSymmetry == Permutations(Workers) \cup Permutations(FDs) \cup Permutations(Conns)
===============================================================================
