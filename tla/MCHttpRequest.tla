----------------------------- MODULE MCHttpRequest -----------------------------
(* Clients that send one request, or two or three without waiting. *)
EXTENDS HttpRequest

Get(path, keep) == [method |-> "GET", path |-> path, keep |-> keep, form |-> <<>>]
Post(path, keep, name, pwd) ==
    [method |-> "POST", path |-> path, keep |-> keep, form |-> <<name, pwd>>]

A == Sym("text", "a")
B == Sym("text", "b")

MCWords == {"-", "1.1", "Host", "server", "Connection", "keep-alive", "Content-Type",
            "application/x-www-form-urlencoded", "a", "b", "/", "/picture", "/welcome.html",
            "/login", "/login.html", "/register"}

MCConversations == {
    <<Get("/", FALSE)>>,
    <<Get("/", TRUE), Get("/picture", TRUE), Get("/welcome.html", FALSE)>>,
    <<Get("/picture", TRUE), Post("/login", FALSE, <<A>>, <<A, B>>)>>,
    <<Post("/register", TRUE, <<A>>, <<A, B>>), Get("/", TRUE)>>,
    <<Post("/login.html", TRUE, <<A>>, <<>>), Post("/picture", TRUE, <<B>>, <<A>>), Get("/", FALSE)>>,
    <<[Get("/", TRUE) EXCEPT !.method = "POST"], Get("/picture", TRUE)>>}
===============================================================================
