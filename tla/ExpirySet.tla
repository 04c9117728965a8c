------------------------------- MODULE ExpirySet -------------------------------
(***************************************************************************)
(* What the timer promises to WebServer::Start: a set of ids with a        *)
(* timeout, of which some have expired.  Only an expired id is fired, only *)
(* what was fired or cancelled goes, activity puts an expiry off, and      *)
(* epoll_wait is never sent to sleep for the time of a later node while an *)
(* id has expired.  The heap of module Timer implements this, and so do    *)
(* the steps that module WebServer takes on its set of nodes: what is      *)
(* shown of the server with a set holds with the heap.                     *)
(***************************************************************************)
CONSTANT Ids

VARIABLES
    nodes,      \* the ids with a timeout
    due,        \* those of them that have expired
    firing,     \* the ids whose callback is running
    waitMode    \* "forever", "timed" or "zero"

vars == <<nodes, due, firing, waitMode>>

Init ==
    /\ nodes = {}
    /\ due = {}
    /\ firing = {}
    /\ waitMode = "forever"

\* Time passes.
Expire ==
    /\ due' \in SUBSET nodes
    /\ due \subseteq due'
    /\ UNCHANGED <<nodes, firing, waitMode>>

\* Add and Adjust.
Renew(id) ==
    /\ nodes' = nodes \cup {id}
    /\ due' = due \ {id}
    /\ UNCHANGED <<firing, waitMode>>

\* DelWork.
Cancel(id) ==
    /\ nodes' = nodes \ {id}
    /\ due' = due \ {id}
    /\ UNCHANGED <<firing, waitMode>>

Fire(id) ==
    /\ id \in due
    /\ firing' = {id}
    /\ UNCHANGED <<nodes, due, waitMode>>

\* The callback has returned: its own id goes, no other.
Pop ==
    /\ firing # {}
    /\ nodes' = nodes \ firing
    /\ due' = due \ firing
    /\ firing' = {}
    /\ UNCHANGED waitMode

\* The sleep that GetNextTick returns.
SleepMode(mode) ==
    /\ mode \in IF nodes = {} THEN {"forever"}
                ELSE IF due = {} THEN {"timed"} ELSE {"zero", "forever"}
    /\ waitMode' = mode
    /\ UNCHANGED <<nodes, due, firing>>

Next ==
    \/ Expire \/ Pop
    \/ \E id \in Ids : Renew(id) \/ Cancel(id) \/ Fire(id)
    \/ \E mode \in {"forever", "timed", "zero"} : SleepMode(mode)

Spec == Init /\ [][Next]_vars
===============================================================================
