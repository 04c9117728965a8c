----------------------------- MODULE MCPageScripts -----------------------------
(* A page with links of each kind, in two families of browsers. *)
EXTENDS PageScripts

MCTops == [grown \in BOOLEAN |->
    IF grown THEN [about |-> 180, end |-> 400] ELSE [about |-> 40, end |-> 200]]

MCBottom == [grown \in BOOLEAN |-> IF grown THEN 300 ELSE 51]

MCLinks == {
    [href |-> "page", place |-> "brand", smooth |-> FALSE],
    [href |-> "page", place |-> "menu", smooth |-> TRUE],
    [href |-> "end", place |-> "brand", smooth |-> FALSE],
    [href |-> "about", place |-> "menu", smooth |-> TRUE],
    [href |-> "about", place |-> "other", smooth |-> TRUE],
    [href |-> "missing", place |-> "menu", smooth |-> TRUE]}

\* Firefox, and the browsers of today that call themselves WebKit.
MCBrowsers == {[scrolls |-> "html", animates |-> "html"],
               [scrolls |-> "html", animates |-> "body"]}
===============================================================================
