------------------------------- MODULE MCHttpConn -------------------------------
(* Instances of HttpConn for TLC. *)
EXTENDS HttpConn

File(n) == [kind |-> "file", size |-> n, opens |-> TRUE, odd |-> FALSE]

\* A page, a page that cannot be opened (no descriptor is left), a page that is
\* not for others, one that begins with four bytes 0xff, an empty one, a name
\* that does not exist; one of the two error pages is missing.
MCSite ==
    [name \in {"403", "404", "", "page", "locked", "private", "odd", "empty"} |->
       CASE name = "404" -> File(1)
         [] name = "403" -> [kind |-> "none", size |-> 0, opens |-> FALSE, odd |-> FALSE]
         [] name = "" -> [kind |-> "dir", size |-> 4, opens |-> TRUE, odd |-> FALSE]
         [] name = "page" -> File(2)
         [] name = "locked" -> [File(2) EXCEPT !.opens = FALSE]
         [] name = "private" -> [File(2) EXCEPT !.kind = "private"]
         [] name = "odd" -> [File(1) EXCEPT !.odd = TRUE]
         [] name = "empty" -> File(0)]
===============================================================================
