------------------------------ MODULE PageScripts ------------------------------
(***************************************************************************)
(* A page of resources/ in a browser: custom.js, smoothscroll.js and       *)
(* magnific-popup-options.js, with jQuery, Bootstrap, Magnific Popup, WOW  *)
(* and the browser as these scripts use them.                              *)
(*                                                                         *)
(* The page asks for its scripts one after the other, and each of them     *)
(* may fail to arrive; an exception ends the script, the list of ready     *)
(* callbacks or the handlers of a click in which it is thrown, and nothing *)
(* else.  A user follows links, scrolls and opens the menu at any time.    *)
(*                                                                         *)
(* The pages of the site link to other pages; the scripts come with a      *)
(* template whose links lead to sections.  Links has both.                 *)
(***************************************************************************)
EXTENDS Integers, Sequences, SequencesExt

CONSTANTS
    Links,      \* [href, place, smooth]: where to, in which part of the page,
                \* and whether of class smoothScroll
    Tops,       \* offset().top of each section, without and with the images
    Bottom,     \* how far the page scrolls, without and with the images
    Places,     \* the positions where a user or a frame of an animation stops
    Browsers    \* [scrolls, animates]: the element that scrolls the page, and
                \* the one that scrollTo takes for it (by the user agent)

Sections == DOMAIN Tops[TRUE]
Elements == {"html", "body"}

ASSUME PageAssumption ==
    /\ Tops \in [BOOLEAN -> [Sections -> Nat]]
    /\ {"page", "missing", "none"} \cap Sections = {}
    /\ Links \subseteq [href : Sections \cup {"page", "missing"},
                        place : {"brand", "menu", "home", "other"}, smooth : BOOLEAN]
    /\ Bottom \in [BOOLEAN -> Nat]
    /\ Places \subseteq Nat
    /\ Browsers \subseteq [scrolls : Elements, animates : Elements]

VARIABLES
    browser,
    at,         \* the next script, of Scripts
    ran,        \* the scripts that have run and have done what they do
    readyList,  \* jQuery's list of ready callbacks
    ready,      \* DOMContentLoaded has been fired
    bound,      \* the ready callbacks that have run to their end
    images,     \* the images have arrived, and the sections are where they stay
    loaded,     \* the load event has been fired
    preloader,  \* "covers" the page, "fades", "gone"
    menu,       \* .navbar-collapse
    fx,         \* the effects queue of each element; its head runs
    pos,        \* how far the page is scrolled
    scrolled,   \* a scroll event is due
    topNav,     \* .navbar-fixed-top has the class top-nav-collapse
    leaving,    \* a navigation has begun
    goal        \* the section that the last click has promised (history)

scripts == <<browser, at, ran, readyList, ready, bound, loaded, preloader>>
view == <<images, pos, scrolled, topNav>>
vars == <<scripts, view, menu, fx, leaving, goal>>

\* wow.min.js, between the last two, needs nothing and nothing here needs it.
Scripts == <<"jquery", "bootstrap", "smoothscroll", "magnific", "options", "custom">>

TypeOK ==
    /\ browser \in Browsers
    /\ at \in 1..(Len(Scripts) + 1)
    /\ ran \subseteq {Scripts[i] : i \in 1..(at - 1)}
    /\ readyList \in Seq({"localScroll", "options", "smooth"}) /\ IsInjective(readyList)
    /\ {ready, images, loaded, scrolled, topNav, leaving} \subseteq BOOLEAN
    /\ bound \subseteq (IF ready THEN ToSet(readyList) ELSE {})
    /\ preloader \in {"covers", "fades", "gone"}
    /\ menu \in {"closed", "opening", "open"}
    /\ fx \in [Elements -> Seq(Int)]
    /\ pos \in 0..Bottom[images]
    /\ goal \in Sections \cup {"none"}

Init ==
    /\ browser \in Browsers
    /\ at = 1
    /\ ran = {}
    /\ readyList = <<>>
    /\ ready = FALSE
    /\ bound = {}
    /\ images = FALSE
    /\ loaded = FALSE
    /\ preloader = "covers"
    /\ menu = "closed"
    /\ fx = [e \in Elements |-> <<>>]
    /\ pos = 0
    /\ scrolled = FALSE
    /\ topNav = FALSE
    /\ leaving = FALSE
    /\ goal = "none"

-------------------------------------------------------------------------------
(* The scripts, in the order of the page *)

\* Script s arrives or not; without what it needs it throws before it has done
\* anything.  What it does here is to leave callbacks for jQuery's ready.
Run(s, needs, callbacks) ==
    LET works == s \in ran' IN
    /\ at <= Len(Scripts) /\ Scripts[at] = s
    /\ at' = at + 1
    /\ ran' \in {ran} \cup (IF needs \subseteq ran THEN {ran \cup {s}} ELSE {})
    /\ readyList' = readyList \o (IF works THEN callbacks ELSE <<>>)
    /\ UNCHANGED <<browser, ready, bound, loaded, preloader, view, menu, fx, leaving, goal>>

RunLibrary ==
    \/ Run("jquery", {}, <<>>)
    \/ \E s \in {"bootstrap", "magnific"} : Run(s, {"jquery"}, <<>>)

\* Without jQuery: the alert, then a ReferenceError.
RunSmoothscroll == Run("smoothscroll", {"jquery"}, <<"localScroll">>)

RunOptions == Run("options", {"jquery"}, <<"options">>)

\* Mutant: the links are bound twice.
RunCustomTwice == Run("custom", {"jquery"}, <<"smooth", "smooth">>)

\* The handlers of load, of scroll and of the menu are bound and the callback for
\* ready is left before WOW, which may be missing, is asked for.
RunCustom == Run("custom", {"jquery"}, <<"smooth">>)

\* No page has an .image-popup: the options are for an empty set, but their
\* callback calls the plugin.
Throws(callback) == callback = "options" /\ "magnific" \notin ran

\* DOMContentLoaded: an exception in one callback is the end of the list.
Ready ==
    /\ at > Len(Scripts)
    /\ ~ready
    /\ ready' = TRUE
    /\ bound' = {readyList[i] : i \in {n \in DOMAIN readyList :
                                         \A k \in 1..n : ~Throws(readyList[k])}}
    /\ UNCHANGED <<browser, at, ran, readyList, loaded, preloader, view, menu, fx,
                   leaving, goal>>

\* Mutant: the handler of load is bound in the ready callback.
LoadBoundWhenReady == "smooth" \in bound

LoadBound == "custom" \in ran

\* The load event; fadeOut(1000) takes until Faded.
Load ==
    /\ ready
    /\ ~loaded
    /\ loaded' = TRUE
    /\ preloader' = IF LoadBound THEN "fades" ELSE preloader
    /\ UNCHANGED <<browser, at, ran, readyList, ready, bound, view, menu, fx, leaving, goal>>

Faded ==
    /\ preloader = "fades"
    /\ preloader' = "gone"
    /\ UNCHANGED <<browser, at, ran, readyList, ready, bound, loaded, view, menu, fx,
                   leaving, goal>>

MoveTo(p) ==
    /\ pos' = p
    /\ scrolled' = (scrolled \/ p # pos)

\* Images that arrive move the sections; what was promised of them is void.
ImagesArrive ==
    /\ ~images /\ ~loaded
    /\ images' = TRUE
    /\ goal' = "none"
    /\ MoveTo(IF pos > Bottom[TRUE] THEN Bottom[TRUE] ELSE pos)
    /\ UNCHANGED <<scripts, topNav, menu, fx, leaving>>

-------------------------------------------------------------------------------
(* Clicks *)

Clamp(y) == IF y < 0 THEN 0 ELSE IF y > Bottom[images] THEN Bottom[images] ELSE y
Top(section) == Tops[images][section]

\* The handlers that a link has.  localScroll leaves out the links without a hash
\* and those to other pages.
Bound(handler, l) ==
    \/ handler = "collapse" /\ "custom" \in ran /\ l.place = "menu"
    \/ handler = "localScroll" /\ "localScroll" \in bound /\ l.smooth /\ l.href # "page"
    \/ handler = "smooth" /\ "smooth" \in bound /\ l.place # "other"

\* What a click has come to: the queues, the menu, whether the default is
\* prevented and whether an exception was thrown.  A handler takes it further.
Outcome(queues, bar, prevented, threw) ==
    [fx |-> queues, menu |-> bar, prevented |-> prevented, threw |-> threw]

Collapse(s) ==
    Outcome(s.fx, IF s.menu = "open" /\ "bootstrap" \in ran THEN "closed" ELSE s.menu,
            s.prevented, "bootstrap" \notin ran)

\* stop(true) and animate on one element, up to the end of the page.
LocalScroll(l, s) ==
    IF l.href \in Sections
      THEN Outcome([s.fx EXCEPT ![browser.animates] = <<Clamp(Top(l.href))>>], s.menu,
                   TRUE, FALSE)
      ELSE s

\* stop(): the animation that runs goes, the next one in the queue begins.
Stopped(queues) == [e \in Elements |-> IF queues[e] = <<>> THEN <<>> ELSE Tail(queues[e])]

\* stop() and animate on both elements.
ScrollBoth(l, s) ==
    Outcome([e \in Elements |-> Append(Stopped(s.fx)[e], Top(l.href) - 49)], s.menu,
            TRUE, FALSE)

\* Mutant: preventDefault comes first.
SmoothPreventsFirst(l, s) ==
    IF l.href \in Sections THEN ScrollBoth(l, s)
    ELSE Outcome(Stopped(s.fx), s.menu, TRUE, TRUE)

\* Without an element for the href, offset() has no top to read, or $ has no
\* selector: the animations have stopped, and the default is not prevented.
Smooth(l, s) ==
    IF l.href \in Sections THEN ScrollBoth(l, s)
    ELSE Outcome(Stopped(s.fx), s.menu, s.prevented, TRUE)

\* jQuery calls a handler, which makes done of s, unless one before has thrown.
Call(handler, l, s, done) == IF s.threw \/ ~Bound(handler, l) THEN s ELSE done

Unhandled == Outcome(fx, menu, FALSE, FALSE)

\* Mutant: custom.js binds first, as if its callback came before smoothscroll.js.
DispatchSwapped(l) ==
    LET a == Call("collapse", l, Unhandled, Collapse(Unhandled))
        b == Call("smooth", l, a, Smooth(l, a))
    IN  Call("localScroll", l, b, LocalScroll(l, b))

\* The handlers in the order in which they are bound.
Dispatch(l) ==
    LET a == Call("collapse", l, Unhandled, Collapse(Unhandled))
        b == Call("localScroll", l, a, LocalScroll(l, a))
    IN  Call("smooth", l, b, Smooth(l, b))

\* A click, or Enter on a link that has the focus.  The browser does the default
\* unless it was prevented: it leaves, or jumps to the section if there is one.
Click(l) ==
    LET s == Dispatch(l)
        default == ~s.prevented
    IN  /\ ~leaving
        /\ fx' = s.fx
        /\ menu' = s.menu
        /\ leaving' = (default /\ l.href = "page")
        /\ MoveTo(IF default /\ l.href \in Sections THEN Clamp(Top(l.href)) ELSE pos)
        /\ goal' = IF ~default /\ Bound("smooth", l) THEN l.href ELSE "none"
        /\ UNCHANGED <<scripts, images, topNav>>

\* The button of the menu, and the end of its opening, before which it cannot be
\* closed.  (That the menu closes takes no time here.)
ToggleMenu ==
    /\ "bootstrap" \in ran
    /\ menu' = CASE menu = "closed" -> "opening" [] menu = "opening" -> "open"
                 [] menu = "open" -> "closed"
    /\ UNCHANGED <<scripts, view, fx, leaving, goal>>

-------------------------------------------------------------------------------
(* Scrolling *)

\* A tick of an animation sets the position, wherever the user has put it.
Frame(e) ==
    /\ fx[e] # <<>>
    /\ \/ /\ e = browser.scrolls
          /\ \E p \in Places : MoveTo(Clamp(p))
          /\ UNCHANGED fx
       \/ /\ fx' = [fx EXCEPT ![e] = Tail(@)]
          /\ MoveTo(IF e = browser.scrolls THEN Clamp(Head(fx[e])) ELSE pos)
    /\ UNCHANGED <<scripts, images, topNav, menu, leaving, goal>>

UserScrolls ==
    /\ \E p \in Places : MoveTo(Clamp(p))
    /\ goal' = IF fx[browser.scrolls] = <<>> THEN "none" ELSE goal
    /\ UNCHANGED <<scripts, images, topNav, menu, fx, leaving>>

\* .navbar is fixed: its offset is the position of the page.
NavClass == pos > 50

ScrollEvent ==
    /\ scrolled
    /\ scrolled' = FALSE
    /\ topNav' = IF "custom" \in ran THEN NavClass ELSE topNav
    /\ UNCHANGED <<scripts, images, pos, menu, fx, leaving, goal>>

-------------------------------------------------------------------------------
Browser == RunLibrary \/ RunSmoothscroll \/ RunOptions \/ RunCustom \/ Ready \/ Load \/ Faded

Next ==
    \/ Browser
    \/ ImagesArrive
    \/ \E l \in Links : Click(l)
    \/ ToggleMenu
    \/ \E e \in Elements : Frame(e)
    \/ UserScrolls
    \/ ScrollEvent

\* The browser gets on with the page.  Nothing obliges the user, nor images.
Spec == Init /\ [][Next]_vars /\ WF_vars(Browser)

-------------------------------------------------------------------------------
(* Properties *)

\* Clicks do not pile up: each stops what the one before has begun, and where
\* the page comes to rest is below the bar, at the section of the last click that
\* custom.js has handled - not where localScroll would have it.
LastClickWins ==
    /\ \A e \in Elements : Len(fx[e]) <= 1
    /\ goal # "none" /\ fx[browser.scrolls] = <<>> => pos = Clamp(Top(goal) - 49)

\* Only localScroll has the link, and takes the wrong element for the page.
Misled(l) ==
    browser.scrolls # browser.animates /\ Bound("localScroll", l) /\ ~Bound("smooth", l)

LinkLeads(l) ==
    /\ l.href = "page" => leaving'
    /\ l.href \in Sections /\ ~Misled(l) =>
         \/ pos' = Clamp(Top(l.href))
         \/ \E y \in ToSet(fx'[browser.scrolls]) :
              Clamp(y) \in {Clamp(Top(l.href)), Clamp(Top(l.href) - 49)}

\* Whichever scripts have arrived so far or have failed, a link leads somewhere: to
\* another page because the handler throws before preventDefault, to a section
\* by an animation or by the browser.
NoDeadLink == [][\A l \in Links : Click(l) => LinkLeads(l)]_vars

\* The preloader, which covers the page, goes if jQuery and custom.js have
\* arrived, whatever becomes of the other scripts, of ready and of WOW.
PreloaderGoes ==
    "custom" \in ran ~> preloader = "gone"
===============================================================================
