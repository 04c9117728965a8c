------------------------------- MODULE HttpRequest -------------------------------
(***************************************************************************)
(* What becomes of the bytes of one client: HttpConn::Read into h_readBuff *)
(* (module Buffer), HttpConn::process with HttpRequest::Parse, and the     *)
(* answer, after which WebServer::OnWrite closes the connection or lets    *)
(* process look at the buffer again.                                       *)
(*                                                                         *)
(* TCP keeps no requests apart: the client's bytes arrive in pieces of any *)
(* size.  A piece ends between two symbols; a symbol is a part of a line   *)
(* that the code does not look into.  "HTTP/" is all of " path HTTP/", and *)
(* ":" is ": ", so that every space of a request is in one of them.        *)
(* UserVerify may say yes or no.                                           *)
(***************************************************************************)
EXTENDS Integers, Sequences, FiniteSets, SequencesExt

CONSTANTS
    Words,          \* what a symbol may say
    Conversations,  \* what a client may send: sequences of requests
    InitSize,       \* initBuffSize (1024)
    StackSize,      \* the array in ReadFd (65535)
    EventModes      \* the values InitEventMode may give to HttpConn::isET

Sym(kind, text) == [kind |-> kind, text |-> text]
Mark(kind) == Sym(kind, "-")    \* it says no more than what it is
Nul == Mark("NUL")
INSTANCE Buffer WITH Zero <- Nul

\* What a cell of the buffer can hold.
Kinds == {"NUL", "CR", "LF", "GET", "POST", "HTTP/", "version", "name", ":", "value",
          "username=", "&password=", "text"}
Symbols == [kind : Kinds, text : Words]

\* A request names a method, a path and whether the connection is to be kept; its
\* form is empty, or a name and a password.  No path is the mark of an answer 400.
Text == Seq([kind : {"text"}, text : Words])
Request == [method : {"GET", "POST"}, path : Words \ {"400"}, keep : BOOLEAN,
            form : {<<>>} \cup (Text \X Text)]

ASSUME RequestAssumption ==
    /\ {"-", "1.1", "Host", "server", "Connection", "keep-alive", "Content-Type",
        "application/x-www-form-urlencoded"} \subseteq Words
    /\ \A c \in Conversations :
         /\ c \in Seq(Request)
         /\ \A r \in ToSet(c) : r.form # <<>> => r.method = "POST"
    /\ InitSize \in Nat
    /\ StackSize \in Nat \ {0}
    /\ EventModes \subseteq BOOLEAN

VARIABLES
    isET,
    convo,      \* the requests that this client sends
    unsent,     \* what it has not sent yet
    socket,     \* what has arrived and has not been read
    h_readBuff,
    taken,      \* how much has been retrieved from it (history)
    pc,         \* "wait", "read", "process", "parse", "answer", "closed"
    h_state, h_method, h_path, h_version, h_header, h_post,
    ok,         \* what Parse has returned
    whole,      \* Parse has been given the next request and nothing else (history)
    answers     \* what was sent to the client

request == <<h_state, h_method, h_path, h_version, h_header, h_post>>
vars == <<isET, convo, unsent, socket, h_readBuff, taken, pc, request, ok, whole, answers>>

-------------------------------------------------------------------------------
(* What a client sends *)

CR == Mark("CR")
LF == Mark("LF")
Line(s) == s \o <<CR, LF>>
HeaderLine(name, value) == Line(<<Sym("name", name), Mark(":"), Sym("value", value)>>)

KeepAlive == Sym("value", "keep-alive")
UrlEncoded == Sym("value", "application/x-www-form-urlencoded")

Wire(r) ==
    Line(<<Mark(r.method), Sym("HTTP/", r.path), Sym("version", "1.1")>>) \o
    HeaderLine("Host", "server") \o
    (IF r.keep THEN HeaderLine("Connection", KeepAlive.text) ELSE <<>>) \o
    (IF r.form # <<>> THEN HeaderLine("Content-Type", UrlEncoded.text) ELSE <<>>) \o
    Line(<<>>) \o
    (IF r.form # <<>> THEN <<Mark("username=")>> \o r.form[1] \o
                           <<Mark("&password=")>> \o r.form[2]
                      ELSE <<>>)

StreamOf(requests) == FlattenSeq([i \in DOMAIN requests |-> Wire(requests[i])])
Stream == StreamOf(convo)

Init ==
    /\ isET \in EventModes
    /\ convo \in Conversations
    /\ unsent = Stream
    /\ socket = <<>>
    /\ h_readBuff = NewBuffer(InitSize)
    /\ taken = 0
    /\ pc = "wait"
    /\ h_state = "REQUEST_LINE"
    /\ h_method = ""
    /\ h_path = ""
    /\ h_version = <<>>
    /\ h_header = [name \in {"Connection", "Content-Type"} |-> <<>>]
    /\ h_post = <<<<>>, <<>>>>
    /\ ok = FALSE
    /\ whole = FALSE
    /\ answers = <<>>

Send ==
    /\ unsent # <<>> /\ pc # "closed"
    /\ \E n \in DOMAIN unsent :
         /\ socket' = socket \o SubSeq(unsent, 1, n)
         /\ unsent' = SubSeq(unsent, n + 1, Len(unsent))
    /\ UNCHANGED <<isET, convo, h_readBuff, taken, pc, request, ok, whole, answers>>

-------------------------------------------------------------------------------
(* HttpConn::Read and the beginning of process *)

Readiness ==
    /\ pc = "wait"
    /\ socket # <<>>
    /\ pc' = "read"
    /\ UNCHANGED <<isET, convo, unsent, socket, h_readBuff, taken, request, ok, whole, answers>>

\* One readv: all that has arrived, as far as there is room for it.  In ET mode
\* the loop ends with EAGAIN.
Read ==
    LET n == Min({Len(socket), WritableBytes(h_readBuff) + StackSize}) IN
    /\ pc = "read"
    /\ h_readBuff' = IF n = 0 THEN h_readBuff ELSE ReadFd(h_readBuff, SubSeq(socket, 1, n))
    /\ socket' = SubSeq(socket, n + 1, Len(socket))
    /\ pc' = IF isET /\ n > 0 THEN "read" ELSE "process"
    /\ UNCHANGED <<isET, convo, unsent, taken, request, ok, whole, answers>>

\* Mutant: h_header.clear() is missing.
InitKeepsHeader ==
    /\ h_state' = "REQUEST_LINE"
    /\ h_method' = "" /\ h_path' = "" /\ h_version' = <<>>
    /\ h_post' = <<<<>>, <<>>>>
    /\ UNCHANGED h_header

\* HttpRequest::Init.
InitRequest ==
    /\ h_state' = "REQUEST_LINE"
    /\ h_method' = "" /\ h_path' = "" /\ h_version' = <<>>
    /\ h_post' = <<<<>>, <<>>>>
    /\ h_header' = [name \in DOMAIN h_header |-> <<>>]

Due == Len(answers) + 1

Process ==
    /\ pc = "process"
    /\ InitRequest
    /\ pc' = IF ReadableBytes(h_readBuff) = 0 THEN "wait" ELSE "parse"
    /\ whole' = (Due <= Len(convo) /\ Readable(h_readBuff) = Wire(convo[Due]))
    /\ UNCHANGED <<isET, convo, unsent, socket, h_readBuff, taken, ok, answers>>

-------------------------------------------------------------------------------
(* HttpRequest::Parse, one line at a time *)

\* The search for CRLF, up to the end of what is readable.
LineEnd ==
    LET s == Readable(h_readBuff)
        ends == {i \in 0..(Len(s) - 2) : s[i + 1] = CR /\ s[i + 2] = LF}
    IN  IF ends = {} THEN Len(s) ELSE Min(ends)

TheLine == SubSeq(Readable(h_readBuff), 1, LineEnd)

KindsOf(s) == {s[i].kind : i \in DOMAIN s}

\* The end of an iteration; n symbols of the buffer go.
Consume(n, goOn) ==
    /\ h_readBuff' = Retrieve(h_readBuff, n)
    /\ taken' = taken + n
    /\ pc' = IF goOn /\ ReadableBytes(h_readBuff) > n THEN "parse" ELSE "answer"
    /\ ok' = TRUE
    /\ UNCHANGED <<isET, convo, unsent, socket, whole, answers>>

\* Mutant: a line without an end stays in the buffer, be it a body.
BodyStays ==
    IF LineEnd = ReadableBytes(h_readBuff) THEN Consume(0, FALSE)
      ELSE Consume(LineEnd + 2, h_state' # "FINISH")

\* A line without an end stays in the buffer, but for the body of a POST.
EndOfLine ==
    IF LineEnd = ReadableBytes(h_readBuff)
      THEN Consume(IF h_method' = "POST" /\ h_state' = "FINISH" THEN LineEnd ELSE 0, FALSE)
      ELSE Consume(LineEnd + 2, h_state' # "FINISH")

\* ParsePath: the names in DEFAULT_HTML get their suffix.
Html(path) ==
    CASE path = "/" -> "/index.html"
      [] path = "/index" -> "/index.html"
      [] path = "/welcome" -> "/welcome.html"
      [] path = "/video" -> "/video.html"
      [] path = "/picture" -> "/picture.html"
      [] path = "/login" -> "/login.html"
      [] path = "/register" -> "/register.html"
      [] OTHER -> path

\* The regular expression of ParseRequestLine wants two spaces, the second of them in
\* front of "HTTP/".  A path has both, a colon one, and nothing else has any.
IsRequestLine(s) ==
    \E i \in DOMAIN s :
        /\ s[i].kind = "HTTP/"
        /\ \A j \in DOMAIN s \ {i} : s[j].kind \notin {"HTTP/", ":"}

PathIn(s) == CHOOSE i \in DOMAIN s : s[i].kind = "HTTP/"

\* Whatever stands before the first space is a method; the code asks for POST only.
Method(s) ==
    CASE s = <<Mark("GET")>> -> "GET"
      [] s = <<Mark("POST")>> -> "POST"
      [] OTHER -> "other"

ParseRequestLine ==
    LET i == PathIn(TheLine) IN
    /\ pc = "parse" /\ h_state = "REQUEST_LINE"
    /\ IsRequestLine(TheLine)
    /\ h_state' = "HEADERS"
    /\ h_method' = Method(SubSeq(TheLine, 1, i - 1))
    /\ h_path' = Html(TheLine[i].text)
    /\ h_version' = SubSeq(TheLine, i + 1, Len(TheLine))
    /\ UNCHANGED <<h_header, h_post>>
    /\ EndOfLine

BadRequestLine ==
    /\ pc = "parse" /\ h_state = "REQUEST_LINE"
    /\ ~IsRequestLine(TheLine)
    /\ pc' = "answer"
    /\ ok' = FALSE
    /\ UNCHANGED <<isET, convo, unsent, socket, h_readBuff, taken, request, whole, answers>>

\* The regular expression of ParseHeader; its dot is no CR and no LF.
Colon(s) == Min({i \in DOMAIN s : s[i].kind = ":"})
IsHeader(s) ==
    /\ ":" \in KindsOf(s)
    /\ KindsOf(SubSeq(s, Colon(s), Len(s))) \cap {"CR", "LF"} = {}

Header(s) ==
    IF Colon(s) = 2 /\ s[1].kind = "name" /\ s[1].text \in DOMAIN h_header
      THEN [h_header EXCEPT ![s[1].text] = SubSeq(s, 3, Len(s))]
      ELSE h_header

\* ReadableBytes() <= 2: no other symbol is as short.
AtMostCRLF ==
    ReadableBytes(h_readBuff) <= 2 /\ KindsOf(Readable(h_readBuff)) \subseteq {"CR", "LF"}

ParseHeader ==
    /\ pc = "parse" /\ h_state = "HEADERS"
    /\ h_header' = IF IsHeader(TheLine) THEN Header(TheLine) ELSE h_header
    /\ h_state' = IF AtMostCRLF THEN "FINISH"
                  ELSE IF IsHeader(TheLine) THEN "HEADERS" ELSE "BODY"
    /\ UNCHANGED <<h_method, h_path, h_version, h_post>>
    /\ EndOfLine

\* ParseFromUrlEncoded: what follows a key, up to the next key or the end.
Field(body, key) ==
    LET from == {i \in DOMAIN body : body[i].kind = key}
        keys == {i \in DOMAIN body : body[i].kind \in {"username=", "&password="}}
        i == Min(from)
        to == Min({k \in keys : k > i} \cup {Len(body) + 1})
    IN  IF from = {} \/ "CR" \in KindsOf(SubSeq(body, i, to - 1)) THEN <<>>
        ELSE SubSeq(body, i + 1, to - 1)

\* ParseBody and ParsePost.  Without a name or a password nobody is asked.
ParseBody ==
    /\ pc = "parse" /\ h_state = "BODY"
    /\ h_state' = "FINISH"
    /\ IF h_method = "POST" /\ h_header["Content-Type"] = <<UrlEncoded>>
         THEN /\ h_post' = <<Field(TheLine, "username="), Field(TheLine, "&password=")>>
              /\ h_path' \in IF h_path \notin {"/login.html", "/register.html"} THEN {h_path}
                             ELSE IF <<>> \in ToSet(h_post') THEN {"/error.html"}
                             ELSE {"/welcome.html", "/error.html"}
         ELSE UNCHANGED <<h_post, h_path>>
    /\ UNCHANGED <<h_method, h_version, h_header>>
    /\ EndOfLine

-------------------------------------------------------------------------------
(* The rest of process, Write and OnWrite *)

IsKeepAlive ==
    /\ h_header["Connection"] = <<KeepAlive>>
    /\ h_version = <<Sym("version", "1.1")>>

Answer ==
    /\ pc = "answer"
    /\ answers' = Append(answers, [page |-> IF ok THEN h_path ELSE "400", kept |-> IsKeepAlive])
    /\ pc' = IF IsKeepAlive THEN "process" ELSE "closed"
    /\ UNCHANGED <<isET, convo, unsent, socket, h_readBuff, taken, request, ok, whole>>

Next ==
    \/ Send \/ Readiness \/ Read \/ Process
    \/ ParseRequestLine \/ BadRequestLine \/ ParseHeader \/ ParseBody
    \/ Answer

Spec == Init /\ [][Next]_vars

-------------------------------------------------------------------------------
(* Properties *)

\* The buffer is a queue: what is readable, what is in the socket and what is not
\* sent yet are the rest of the client's stream, however readv fills the vector
\* and the array, and the vector grows or is moved.
BufferIsQueue ==
    /\ IsBuffer(h_readBuff, Symbols)
    /\ Readable(h_readBuff) \o socket \o unsent = SubSeq(Stream, taken + 1, Len(Stream))

\* The pages that answer a request, whole or cut.
Pages(r) ==
    {Html(r.path)} \cup
    (IF r.form # <<>> /\ Html(r.path) \in {"/login.html", "/register.html"}
       THEN {"/welcome.html", "/error.html"} ELSE {})

\* However the stream is cut up or requests are joined, the pages that a client
\* gets are those of its requests, one for each, from the first on; none twice and
\* none left out.  A connection is kept only for a request that asks for it, and
\* where Parse loses its way, an answer of 400 is the last.
AnswersAreRequests ==
    \A i \in DOMAIN answers :
        IF answers[i].page = "400" THEN i = Len(answers) /\ ~answers[i].kept
        ELSE /\ i <= Len(convo)
             /\ answers[i].page \in Pages(convo[i])
             /\ answers[i].kept => convo[i].keep

\* A request that is alone and whole in the buffer when process looks is parsed
\* as what it is, and nothing of it stays there.
WholeIsParsed ==
    LET r == convo[Due] IN
    pc = "answer" /\ whole =>
        /\ ok
        /\ h_method = r.method
        /\ h_path \in Pages(r)
        /\ r.form # <<>> => h_post = r.form /\ h_path \notin {"/login.html", "/register.html"}
        /\ IsKeepAlive = r.keep
        /\ ReadableBytes(h_readBuff) = 0
===============================================================================
