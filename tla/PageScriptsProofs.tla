--------------------------- MODULE PageScriptsProofs ---------------------------
(***************************************************************************)
(* Theorems about PageScripts, for every page: any links to any sections,  *)
(* wherever these are before and after the images have arrived, in any     *)
(* browser, whichever scripts fail to arrive.                              *)
(***************************************************************************)
EXTENDS PageScripts, SequenceTheorems, TLAPS

Menus == {"closed", "opening", "open"}

\* One animation at most.
Short(queues) ==
    /\ queues \in [Elements -> Seq(Int)]
    /\ \A e \in Elements : Len(queues[e]) <= 1

\* A callback is in the list only after the script that leaves it.
LeftInTurn ==
    \A i \in DOMAIN readyList :
        /\ readyList[i] = "localScroll" => at > 3
        /\ readyList[i] = "options" => at > 5
        /\ readyList[i] = "smooth" => at > 6

\* An animation that follows the last click ends where that click has promised.
Aimed ==
    goal # "none" /\ fx[browser.scrolls] # <<>> =>
        Head(fx[browser.scrolls]) = Top(goal) - 49

IInv == TypeOK /\ LeftInTurn /\ LastClickWins /\ Aimed

-------------------------------------------------------------------------------
(* Operators *)

LEMMA Geometry ==
    ASSUME images \in BOOLEAN
    PROVE  /\ \A y \in Int : Clamp(y) \in 0..Bottom[images] /\ Clamp(Clamp(y)) = Clamp(y)
           /\ \A s \in Sections : Top(s) \in Nat
           /\ \A l \in Links : l.href \in Sections \cup {"page", "missing"}
           /\ "page" \notin Sections /\ "missing" \notin Sections /\ "none" \notin Sections
           /\ \A b \in Browsers : b.scrolls \in Elements /\ b.animates \in Elements
  <1>1. Bottom[images] \in Nat
    BY PageAssumption
  <1>2. \A y \in Int : Clamp(y) \in 0..Bottom[images] /\ Clamp(Clamp(y)) = Clamp(y)
    BY <1>1 DEF Clamp
  <1>3. \A s \in Sections : Top(s) \in Nat
    BY PageAssumption DEF Top
  <1>4. /\ \A l \in Links : l.href \in Sections \cup {"page", "missing"}
        /\ "page" \notin Sections /\ "missing" \notin Sections /\ "none" \notin Sections
        /\ \A b \in Browsers : b.scrolls \in Elements /\ b.animates \in Elements
    BY PageAssumption
  <1> QED
    BY <1>2, <1>3, <1>4

LEMMA OneEffect ==
    ASSUME NEW y \in Int
    PROVE  <<y>> \in Seq(Int) /\ Len(<<y>>) = 1 /\ Head(<<y>>) = y /\ <<y>> # <<>>
  OBVIOUS

LEMMA LastEffect ==
    ASSUME NEW q \in Seq(Int), Len(q) <= 1, q # <<>>
    PROVE  Head(q) \in Int /\ Tail(q) = <<>>
  <1>1. Head(q) \in Int /\ Tail(q) \in Seq(Int) /\ Len(Tail(q)) = Len(q) - 1
    BY HeadTailProperties
  <1>2. Len(q) \in Nat \ {0}
    BY EmptySeq
  <1>3. Len(q) = 1
    BY <1>2
  <1>4. Len(Tail(q)) = 0
    BY <1>1, <1>3
  <1> QED
    BY <1>1, <1>4, EmptySeq

LEMMA ShortHas ==
    ASSUME NEW queues, Short(queues)
    PROVE  /\ \A e \in Elements : queues[e] # <<>> =>
                  Head(queues[e]) \in Int /\ Tail(queues[e]) = <<>>
           /\ Stopped(queues) = [e \in Elements |-> <<>>]
  <1>1. ASSUME NEW e \in Elements, queues[e] # <<>>
        PROVE  Head(queues[e]) \in Int /\ Tail(queues[e]) = <<>>
    BY <1>1, LastEffect DEF Short
  <1>2. Stopped(queues) = [e \in Elements |-> <<>>]
    BY <1>1 DEF Stopped
  <1> QED
    BY <1>1, <1>2

-------------------------------------------------------------------------------
(* What becomes of a click *)

\* What Dispatch makes of a click on any link.
ClickEnds(l, s) ==
    /\ Short(s.fx) /\ s.menu \in Menus /\ s.prevented \in BOOLEAN
    /\ s.prevented /\ Bound("smooth", l) =>
           l.href \in Sections /\ s.fx = [e \in Elements |-> <<Top(l.href) - 49>>]
    /\ s.prevented /\ ~Bound("smooth", l) =>
           /\ l.href \in Sections /\ Bound("localScroll", l)
           /\ s.fx[browser.animates] = <<Clamp(Top(l.href))>>

LEMMA DispatchEnds ==
    ASSUME TypeOK, LastClickWins, NEW l \in Links
    PROVE  ClickEnds(l, Dispatch(l))
  <1> DEFINE A == Call("collapse", l, Unhandled, Collapse(Unhandled))
             B == Call("localScroll", l, A, LocalScroll(l, A))
             C == Call("smooth", l, B, Smooth(l, B))
             Aimed2 == [e \in Elements |-> <<Top(l.href) - 49>>]
             There == [fx EXCEPT ![browser.animates] = <<Clamp(Top(l.href))>>]
             Still == [e \in Elements |-> <<>>]
  <1>1. Short(fx)
    BY DEF Short, TypeOK, LastClickWins
  <1>2. browser.animates \in Elements
    BY Geometry DEF TypeOK
  <1>3. l.href \in Sections => Top(l.href) \in Nat /\ Clamp(Top(l.href)) \in Int
    <2>1. images \in BOOLEAN
      BY DEF TypeOK
    <2>2. \A y \in Int : Clamp(y) \in 0..Bottom[images]
      BY <2>1, Geometry
    <2> QED
      BY <2>1, <2>2, Geometry, PageAssumption
  <1>4. PICK m, t : A = Outcome(fx, m, FALSE, t) /\ m \in Menus /\ t \in BOOLEAN
    <2>1. /\ Unhandled.fx = fx /\ Unhandled.menu = menu
          /\ Unhandled.prevented = FALSE /\ Unhandled.threw = FALSE
      BY DEF Unhandled, Outcome
    <2>2. menu \in Menus
      BY DEF TypeOK, Menus
    <2>3. CASE A = Unhandled
      BY <2>2, <2>3 DEF Unhandled
    <2>4. CASE A = Collapse(Unhandled)
      BY <2>1, <2>2, <2>4 DEF Collapse, Menus
    <2> QED
      BY <2>3, <2>4 DEF Call
  <1> HIDE DEF A
  <1>5. \/ B = A
        \/ /\ Bound("localScroll", l) /\ l.href \in Sections
           /\ B = Outcome(There, m, TRUE, FALSE)
    <2>1. A.fx = fx /\ A.menu = m
      BY <1>4 DEF Outcome
    <2> QED
      BY <2>1 DEF Call, LocalScroll
  <1> HIDE DEF B
  <1>6. l.href \in Sections => Short(There) /\ There[browser.animates] = <<Clamp(Top(l.href))>>
    BY <1>1, <1>2, <1>3, OneEffect DEF Short
  <1>7. Short(Still) /\ (l.href \in Sections => Short(Aimed2))
    <2>1. <<>> \in Seq(Int) /\ Len(<<>>) = 0
      OBVIOUS
    <2> QED
      BY <1>3, <2>1, OneEffect DEF Short
  <1>8. PICK f, p, u :
            /\ B = Outcome(f, m, p, u)
            /\ Short(f) /\ p \in BOOLEAN /\ u \in BOOLEAN
            /\ p => /\ l.href \in Sections /\ Bound("localScroll", l) /\ ~u
                    /\ f[browser.animates] = <<Clamp(Top(l.href))>>
    BY <1>1, <1>4, <1>5, <1>6
  <1>9. Stopped(f) = Still
    BY <1>8, ShortHas
  <1>10. Dispatch(l) = C
    BY DEF Dispatch, A, B
  <1>11. B.fx = f /\ B.menu = m /\ B.prevented = p /\ B.threw = u
    BY <1>8 DEF Outcome
  <1>12. CASE u \/ ~Bound("smooth", l)
    <2>1. C = B
      BY <1>11, <1>12 DEF Call
    <2> QED
      BY <1>4, <1>8, <1>10, <1>11, <1>12, <2>1 DEF ClickEnds
  <1>13. CASE ~u /\ Bound("smooth", l) /\ l.href \in Sections
    <2>1. [e \in Elements |-> Append(Stopped(f)[e], Top(l.href) - 49)] = Aimed2
      BY <1>9
    <2>2. C = Outcome(Aimed2, m, TRUE, FALSE)
      BY <1>11, <1>13, <2>1 DEF Call, Smooth, ScrollBoth
    <2>3. C.fx = Aimed2 /\ C.menu = m /\ C.prevented = TRUE
      BY <2>2 DEF Outcome
    <2> QED
      BY <1>4, <1>7, <1>10, <1>13, <2>3 DEF ClickEnds
  <1>14. CASE ~u /\ Bound("smooth", l) /\ l.href \notin Sections
    <2>1. C = Outcome(Still, m, FALSE, TRUE)
      BY <1>8, <1>9, <1>11, <1>14 DEF Call, Smooth
    <2>2. C.fx = Still /\ C.menu = m /\ C.prevented = FALSE
      BY <2>1 DEF Outcome
    <2> QED
      BY <1>4, <1>7, <1>10, <1>14, <2>2 DEF ClickEnds
  <1> QED
    BY <1>8, <1>12, <1>13, <1>14

-------------------------------------------------------------------------------
(* The invariant *)

LEMMA InitHolds == Init => IInv
  <1> SUFFICES ASSUME Init PROVE IInv
    OBVIOUS
  <1>1. Len(Scripts) = 6
    BY DEF Scripts
  <1>2. <<>> \in Seq({"localScroll", "options", "smooth"}) /\ IsInjective(<<>>)
    BY DEF IsInjective
  <1>3. TypeOK
    <2>1. {ready, images, loaded, scrolled, topNav, leaving} \subseteq BOOLEAN
      BY Zenon DEF Init
    <2>2. ran \subseteq {Scripts[i] : i \in 1..(at - 1)}
      <3>1. ran = {}
        BY DEF Init
      <3> QED
        BY <3>1
    <2>3. pos \in 0..Bottom[images] /\ at \in 1..(Len(Scripts) + 1)
      <3>1. Bottom[images] \in Nat
        BY <2>1, PageAssumption
      <3>2. pos = 0 /\ at = 1
        BY DEF Init
      <3> QED
        BY <1>1, <3>1, <3>2
    <2>4. fx \in [Elements -> Seq(Int)]
      BY DEF Init
    <2> QED
      BY <1>2, <2>1, <2>2, <2>3, <2>4 DEF Init, TypeOK
  <1>4. LeftInTurn
    BY DEF Init, LeftInTurn
  <1>5. browser.scrolls \in Elements
    BY <1>3, Geometry DEF TypeOK
  <1>6. LastClickWins /\ Aimed
    BY <1>5 DEF Init, LastClickWins, Aimed
  <1> QED
    BY <1>3, <1>4, <1>6 DEF IInv

\* A callback that is new in the list.
LEMMA AddCallback ==
    ASSUME NEW C, NEW q \in Seq(C), IsInjective(q), NEW c \in C,
           \A i \in DOMAIN q : q[i] # c
    PROVE  /\ q \o <<c>> \in Seq(C) /\ IsInjective(q \o <<c>>)
           /\ ToSet(q) \subseteq ToSet(q \o <<c>>)
           /\ \A i \in DOMAIN (q \o <<c>>) :
                  (q \o <<c>>)[i] = c \/ \E j \in DOMAIN q : (q \o <<c>>)[i] = q[j]
  <1>1. DOMAIN q = 1..Len(q) /\ Len(q) \in Nat
    BY LenProperties
  <1>2. PICK r : r = q \o <<c>>
    OBVIOUS
  <1>3. /\ r \in Seq(C) /\ Len(r) = Len(q) + 1
        /\ \A i \in 1..Len(q) : r[i] = q[i]
        /\ r[Len(q) + 1] = c
    BY <1>1, <1>2
  <1>4. DOMAIN r = 1..(Len(q) + 1)
    BY <1>1, <1>3, LenProperties
  <1>5. IsInjective(r)
    BY <1>1, <1>3, <1>4 DEF IsInjective
  <1>6. ToSet(q) \subseteq ToSet(r)
    BY <1>1, <1>3, <1>4 DEF ToSet
  <1>7. \A i \in DOMAIN r : r[i] = c \/ \E j \in DOMAIN q : r[i] = q[j]
    BY <1>1, <1>3, <1>4
  <1> QED
    BY <1>2, <1>3, <1>5, <1>6, <1>7

\* What a step does not touch stays true.
LEMMA SameAim ==
    LastClickWins /\ Aimed /\ UNCHANGED <<browser, fx, pos, images, goal>>
        => LastClickWins' /\ Aimed'
  BY DEF LastClickWins, Aimed, Clamp, Top

LEMMA SameList == LeftInTurn /\ UNCHANGED <<at, readyList>> => LeftInTurn'
  BY DEF LeftInTurn

\* Scripts that leave no callback.
LEMMA LibraryStep == ASSUME IInv, RunLibrary PROVE IInv'
  <1> USE DEF IInv
  <1>1. PICK s, needs : Run(s, needs, <<>>)
    BY DEF RunLibrary
  <1>2. Len(Scripts) = 6
    BY DEF Scripts
  <1>3. readyList \in Seq({"localScroll", "options", "smooth"})
    BY DEF TypeOK
  <1>4. readyList' = readyList
    BY <1>1, <1>3, ConcatEmptySeq DEF Run
  <1>5. at \in 1..6 /\ at' = at + 1 /\ ran' \subseteq ran \cup {Scripts[at]}
    BY <1>1, <1>2 DEF Run, TypeOK
  <1>6. ran' \subseteq {Scripts[i] : i \in 1..(at' - 1)}
    BY <1>5 DEF TypeOK
  <1>7. TypeOK'
    BY <1>1, <1>2, <1>4, <1>5, <1>6 DEF TypeOK, Run, view
  <1>8. LeftInTurn'
    BY <1>3, <1>4, <1>5, LenProperties DEF LeftInTurn
  <1>9. LastClickWins' /\ Aimed'
    BY <1>1, SameAim DEF Run, view
  <1> QED
    BY <1>7, <1>8, <1>9

\* Scripts that leave a callback, which nobody has left before.
LEMMA CallbackStep ==
    ASSUME IInv, RunSmoothscroll \/ RunOptions \/ RunCustom PROVE IInv'
  <1> USE DEF IInv
  <1> DEFINE Callbacks == {"localScroll", "options", "smooth"}
  <1>1. PICK s, needs, c :
            /\ Run(s, needs, <<c>>)
            /\ <<s, c>> \in {<<"smoothscroll", "localScroll">>, <<"options", "options">>,
                             <<"custom", "smooth">>}
    BY DEF RunSmoothscroll, RunOptions, RunCustom
  <1>2. Len(Scripts) = 6
    BY DEF Scripts
  <1>3. readyList \in Seq(Callbacks) /\ IsInjective(readyList) /\ c \in Callbacks
    BY <1>1 DEF TypeOK
  <1>4. at \in 1..6 /\ at' = at + 1 /\ Scripts[at] = s /\ ran' \subseteq ran \cup {Scripts[at]}
    BY <1>1, <1>2 DEF Run, TypeOK
  <1>5. /\ c = "localScroll" => at = 3
        /\ c = "options" => at = 5
        /\ c = "smooth" => at = 6
    BY <1>1, <1>4 DEF Scripts
  <1>6. \A i \in DOMAIN readyList : readyList[i] # c
    BY <1>1, <1>5 DEF LeftInTurn
  <1>7. readyList' = readyList \/ readyList' = readyList \o <<c>>
    BY <1>1, <1>3, ConcatEmptySeq DEF Run
  <1>8. ran' \subseteq {Scripts[i] : i \in 1..(at' - 1)}
    <2>1. 1..(at' - 1) = (1..(at - 1)) \cup {at}
      BY <1>4
    <2>2. ran \subseteq {Scripts[i] : i \in 1..(at - 1)}
      BY DEF TypeOK
    <2> QED
      BY <1>4, <2>1, <2>2, Zenon
  <1>9. /\ readyList' \in Seq(Callbacks) /\ IsInjective(readyList')
        /\ ToSet(readyList) \subseteq ToSet(readyList')
        /\ \A i \in DOMAIN readyList' :
               readyList'[i] = c \/ \E j \in DOMAIN readyList : readyList'[i] = readyList[j]
    <2>1. CASE readyList' = readyList
      BY <1>3, <2>1
    <2>2. CASE readyList' = readyList \o <<c>>
      BY <1>3, <1>6, <2>2, AddCallback
    <2> QED
      BY <1>7, <2>1, <2>2
  <1>10. TypeOK'
    <2>1. UNCHANGED <<browser, ready, bound, loaded, preloader, view, menu, fx, leaving, goal>>
      BY <1>1 DEF Run
    <2>2. at' \in 1..(Len(Scripts) + 1)
      BY <1>2, <1>4
    <2>3. bound' \subseteq (IF ready' THEN ToSet(readyList') ELSE {})
      BY <1>9, <2>1 DEF TypeOK
    <2> QED
      BY <1>8, <1>9, <2>1, <2>2, <2>3 DEF TypeOK, view
  <1>11. LeftInTurn'
    BY <1>4, <1>5, <1>9 DEF LeftInTurn
  <1>12. LastClickWins' /\ Aimed'
    BY <1>1, SameAim DEF Run, view
  <1> QED
    BY <1>10, <1>11, <1>12

\* The life of the page, in which nothing moves.
LEMMA PageStep ==
    ASSUME IInv, Ready \/ Load \/ Faded \/ ToggleMenu \/ ScrollEvent PROVE IInv'
  <1> USE DEF IInv
  <1>1. UNCHANGED <<browser, at, ran, readyList, fx, pos, images, goal>>
    BY DEF Ready, Load, Faded, ToggleMenu, ScrollEvent, scripts, view
  <1>2. LeftInTurn' /\ LastClickWins' /\ Aimed'
    BY <1>1, SameAim, SameList
  <1>3. TypeOK'
    <2>1. CASE Ready
      <3>1. bound' \subseteq ToSet(readyList)
        BY <2>1 DEF Ready, ToSet
      <3> QED
        BY <2>1, <3>1 DEF Ready, TypeOK, view
    <2>2. CASE Load
      BY <2>2 DEF Load, TypeOK, view
    <2>3. CASE Faded
      BY <2>3 DEF Faded, TypeOK, view
    <2>4. CASE ToggleMenu
      <3>1. menu' \in Menus
        BY <2>4, Zenon DEF ToggleMenu, TypeOK, Menus
      <3> QED
        BY <2>4, <3>1 DEF ToggleMenu, TypeOK, Menus, scripts, view
    <2>5. CASE ScrollEvent
      <3>1. topNav' \in BOOLEAN
        <4>1. CASE "custom" \in ran
          <5>1. topNav' = (pos > 50)
            BY <2>5, <4>1 DEF ScrollEvent, NavClass
          <5>2. CASE pos > 50
            BY <5>1, <5>2
          <5>3. CASE ~(pos > 50)
            BY <5>1, <5>3
          <5> QED
            BY <5>2, <5>3
        <4>2. CASE "custom" \notin ran
          BY <2>5, <4>2 DEF ScrollEvent, TypeOK
        <4> QED
          BY <4>1, <4>2
      <3> QED
        BY <2>5, <3>1 DEF ScrollEvent, TypeOK, scripts
    <2> QED
      BY <2>1, <2>2, <2>3, <2>4, <2>5
  <1> QED
    BY <1>2, <1>3

LEMMA MoveTypes ==
    ASSUME TypeOK, NEW p, MoveTo(p), p \in 0..Bottom[images']
    PROVE  pos' \in 0..Bottom[images'] /\ scrolled' \in BOOLEAN
  <1>1. pos' = p
    BY DEF MoveTo
  <1>2. scrolled' = (scrolled \/ p # pos)
    BY DEF MoveTo
  <1>3. CASE scrolled \/ p # pos
    BY <1>1, <1>2, <1>3
  <1>4. CASE ~(scrolled \/ p # pos)
    BY <1>1, <1>2, <1>4
  <1> QED
    BY <1>3, <1>4

\* Of the steps that move the page, what they leave alone.
LEMMA MovedTypes ==
    ASSUME TypeOK, UNCHANGED <<scripts, topNav>>,
           images' \in BOOLEAN, scrolled' \in BOOLEAN, leaving' \in BOOLEAN,
           pos' \in 0..Bottom[images'], menu' \in Menus, fx' \in [Elements -> Seq(Int)],
           goal' \in Sections \cup {"none"}
    PROVE  TypeOK'
  BY DEF TypeOK, scripts, Menus

LEMMA ImagesStep == ASSUME IInv, ImagesArrive PROVE IInv'
  <1> USE DEF IInv
  <1> DEFINE P == IF pos > Bottom[TRUE] THEN Bottom[TRUE] ELSE pos
  <1>1. images' = TRUE /\ goal' = "none" /\ MoveTo(P)
    BY DEF ImagesArrive
  <1>2. UNCHANGED <<scripts, topNav, menu, fx, leaving>>
    BY DEF ImagesArrive
  <1>3. P \in 0..Bottom[images']
    <2>1. Bottom[TRUE] \in Nat /\ Bottom[images] \in Nat /\ pos \in 0..Bottom[images]
      BY PageAssumption DEF TypeOK
    <2>2. Bottom[images'] = Bottom[TRUE]
      BY <1>1
    <2>3. \A b, c \in Nat : \A q \in 0..c : (IF q > b THEN b ELSE q) \in 0..b
      OBVIOUS
    <2>4. P \in 0..Bottom[TRUE]
      BY <2>1, <2>3
    <2> QED
      BY <2>2, <2>4
  <1>4. TypeOK'
    BY <1>1, <1>2, <1>3, MoveTypes, MovedTypes DEF TypeOK, Menus
  <1>5. LeftInTurn'
    BY <1>2, SameList DEF scripts
  <1>6. LastClickWins' /\ Aimed'
    BY <1>1, <1>2 DEF LastClickWins, Aimed, scripts
  <1> QED
    BY <1>4, <1>5, <1>6

LEMMA FrameStep == ASSUME IInv, NEW e \in Elements, Frame(e) PROVE IInv'
  <1> USE DEF IInv
  <1>1. UNCHANGED <<scripts, images, topNav, menu, leaving, goal>> /\ fx[e] # <<>>
    BY DEF Frame
  <1>2. images \in BOOLEAN /\ Short(fx) /\ browser.scrolls \in Elements
        /\ pos \in 0..Bottom[images]
    BY Geometry DEF TypeOK, LastClickWins, Short
  <1>3. Head(fx[e]) \in Int /\ Tail(fx[e]) = <<>>
    BY <1>1, <1>2, ShortHas
  <1>4. LeftInTurn'
    BY <1>1, SameList DEF scripts
  <1>5. CASE e = browser.scrolls /\ (\E p \in Places : MoveTo(Clamp(p))) /\ UNCHANGED fx
    <2>1. PICK p \in Places : MoveTo(Clamp(p))
      BY <1>5
    <2>2. Clamp(p) \in 0..Bottom[images']
      BY <1>1, <1>2, Geometry, PageAssumption
    <2>3. TypeOK'
      BY <1>1, <1>5, <2>1, <2>2, MoveTypes, MovedTypes DEF TypeOK, Menus
    <2>4. LastClickWins' /\ Aimed'
      BY <1>1, <1>5 DEF LastClickWins, Aimed, scripts, Top
    <2> QED
      BY <1>4, <2>3, <2>4
  <1>6. CASE /\ fx' = [fx EXCEPT ![e] = Tail(@)]
             /\ MoveTo(IF e = browser.scrolls THEN Clamp(Head(fx[e])) ELSE pos)
    <2> DEFINE P == IF e = browser.scrolls THEN Clamp(Head(fx[e])) ELSE pos
    <2>1. P \in 0..Bottom[images']
      BY <1>1, <1>2, <1>3, Geometry
    <2>2. fx' = [fx EXCEPT ![e] = <<>>]
      BY <1>3, <1>6
    <2>3. Short(fx')
      <3>1. <<>> \in Seq(Int) /\ Len(<<>>) = 0
        OBVIOUS
      <3> QED
        BY <1>2, <2>2, <3>1 DEF Short
    <2>4. TypeOK'
      BY <1>1, <1>6, <2>1, <2>3, MoveTypes, MovedTypes DEF TypeOK, Menus, Short
    <2>5. CASE e = browser.scrolls
      <3>1. fx'[browser.scrolls] = <<>> /\ pos' = Clamp(Head(fx[e]))
        BY <1>2, <1>6, <2>2, <2>5 DEF Short, MoveTo
      <3>2. goal # "none" => pos' = Clamp(Top(goal) - 49)
        BY <1>1, <2>5, <3>1 DEF Aimed
      <3> QED
        BY <1>1, <1>4, <2>3, <2>4, <3>1, <3>2
        DEF LastClickWins, Aimed, Short, scripts, Clamp, Top
    <2>6. CASE e # browser.scrolls
      <3>1. fx'[browser.scrolls] = fx[browser.scrolls] /\ pos' = pos
        BY <1>2, <1>6, <2>2, <2>6 DEF Short, MoveTo
      <3> QED
        BY <1>1, <1>4, <2>3, <2>4, <3>1 DEF LastClickWins, Aimed, Short, scripts, Clamp, Top
    <2> QED
      BY <2>5, <2>6
  <1> QED
    BY <1>5, <1>6 DEF Frame

LEMMA UserStep == ASSUME IInv, UserScrolls PROVE IInv'
  <1> USE DEF IInv
  <1>1. UNCHANGED <<scripts, images, topNav, menu, fx, leaving>>
        /\ goal' = IF fx[browser.scrolls] = <<>> THEN "none" ELSE goal
    BY DEF UserScrolls
  <1>2. PICK p \in Places : MoveTo(Clamp(p))
    BY DEF UserScrolls
  <1>3. Clamp(p) \in 0..Bottom[images']
    BY <1>1, Geometry, PageAssumption DEF TypeOK
  <1>4. TypeOK'
    BY <1>1, <1>2, <1>3, MoveTypes, MovedTypes DEF TypeOK, Menus
  <1>5. LeftInTurn'
    BY <1>1, SameList DEF scripts
  <1>6. LastClickWins' /\ Aimed'
    BY <1>1 DEF LastClickWins, Aimed, scripts, Top
  <1> QED
    BY <1>4, <1>5, <1>6

LEMMA ClickStep == ASSUME IInv, NEW l \in Links, Click(l) PROVE IInv'
  <1> USE DEF IInv
  <1> DEFINE s == Dispatch(l)
             P == IF ~s.prevented /\ l.href \in Sections THEN Clamp(Top(l.href)) ELSE pos
  <1>1. ClickEnds(l, s)
    BY DispatchEnds
  <1>2. /\ fx' = s.fx /\ menu' = s.menu /\ leaving' = (~s.prevented /\ l.href = "page")
        /\ MoveTo(P) /\ UNCHANGED <<scripts, images, topNav>>
        /\ goal' = IF ~~s.prevented /\ Bound("smooth", l) THEN l.href ELSE "none"
    BY DEF Click
  <1> HIDE DEF s
  <1>3. images \in BOOLEAN /\ browser.scrolls \in Elements /\ pos \in 0..Bottom[images]
    BY Geometry DEF TypeOK
  <1>4. P \in 0..Bottom[images']
    BY <1>2, <1>3, Geometry
  <1>5. leaving' \in BOOLEAN
    <2>1. CASE ~s.prevented /\ l.href = "page"
      BY <1>2, <2>1
    <2>2. CASE ~(~s.prevented /\ l.href = "page")
      BY <1>2, <2>2
    <2> QED
      BY <2>1, <2>2
  <1>6. Short(fx') /\ menu' \in Menus
    BY <1>1, <1>2 DEF ClickEnds
  <1>7. goal' # "none" => /\ l.href \in Sections /\ goal' = l.href
                          /\ fx' = [e \in Elements |-> <<Top(l.href) - 49>>]
    BY <1>1, <1>2 DEF ClickEnds
  <1>8. TypeOK'
    BY <1>2, <1>3, <1>4, <1>5, <1>6, <1>7, MoveTypes, MovedTypes DEF TypeOK, Short
  <1>9. LeftInTurn'
    BY <1>2, SameList DEF scripts
  <1>10. goal' # "none" =>
            fx'[browser.scrolls] # <<>> /\ Head(fx'[browser.scrolls]) = Top(goal') - 49
    <2> SUFFICES ASSUME goal' # "none"
                 PROVE  fx'[browser.scrolls] # <<>>
                        /\ Head(fx'[browser.scrolls]) = Top(goal') - 49
      OBVIOUS
    <2>1. Top(l.href) - 49 \in Int /\ goal' = l.href
      BY <1>3, <1>7, Geometry
    <2>2. fx'[browser.scrolls] = <<Top(l.href) - 49>>
      BY <1>3, <1>7
    <2> QED
      BY <2>1, <2>2, OneEffect
  <1>11. LastClickWins' /\ Aimed'
    BY <1>2, <1>6, <1>10 DEF LastClickWins, Aimed, Short, scripts, Top
  <1> QED
    BY <1>8, <1>9, <1>11

LEMMA StepHolds == IInv /\ [Next]_vars => IInv'
  <1> SUFFICES ASSUME IInv, [Next]_vars PROVE IInv'
    OBVIOUS
  <1>1. CASE RunLibrary
    BY <1>1, LibraryStep
  <1>2. CASE RunSmoothscroll \/ RunOptions \/ RunCustom
    BY <1>2, CallbackStep
  <1>3. CASE Ready \/ Load \/ Faded \/ ToggleMenu \/ ScrollEvent
    BY <1>3, PageStep
  <1>4. CASE ImagesArrive
    BY <1>4, ImagesStep
  <1>5. CASE \E l \in Links : Click(l)
    BY <1>5, ClickStep
  <1>6. CASE \E e \in Elements : Frame(e)
    BY <1>6, FrameStep
  <1>7. CASE UserScrolls
    BY <1>7, UserStep
  <1>8. CASE UNCHANGED vars
    <2>1. UNCHANGED <<at, readyList, browser, fx, pos, images, goal>>
      BY <1>8 DEF vars, scripts, view
    <2>2. TypeOK'
      BY <1>8 DEF IInv, TypeOK, vars, scripts, view
    <2> QED
      BY <2>1, <2>2, SameAim, SameList DEF IInv
  <1> QED
    BY <1>1, <1>2, <1>3, <1>4, <1>5, <1>6, <1>7, <1>8 DEF Next, Browser

LEMMA Invariant == Spec => []IInv
  BY InitHolds, StepHolds, PTL DEF Spec

-------------------------------------------------------------------------------
(* Theorems *)

\* The variables of the page keep their types.
THEOREM TypeCorrect == Spec => []TypeOK
  <1>1. IInv => TypeOK
    BY DEF IInv
  <1> QED
    BY <1>1, Invariant, PTL

\* Clicks do not pile up, and the page rests where the last one has promised,
\* whichever scripts have run, and whatever the user does meanwhile.
THEOREM LastClickCounts == Spec => []LastClickWins
  <1>1. IInv => LastClickWins
    BY DEF IInv
  <1> QED
    BY <1>1, Invariant, PTL

LEMMA ClickLeads == ASSUME IInv, NEW l \in Links, Click(l) PROVE LinkLeads(l)
  <1> USE DEF IInv
  <1> DEFINE s == Dispatch(l)
  <1>1. ClickEnds(l, s)
    BY DispatchEnds
  <1>2. /\ fx' = s.fx /\ leaving' = (~s.prevented /\ l.href = "page")
        /\ MoveTo(IF ~s.prevented /\ l.href \in Sections THEN Clamp(Top(l.href)) ELSE pos)
    BY DEF Click
  <1> HIDE DEF s
  <1>3. images \in BOOLEAN /\ browser.scrolls \in Elements
    BY Geometry DEF TypeOK
  <1>4. ASSUME l.href = "page" PROVE leaving'
    BY <1>1, <1>2, <1>3, <1>4, Geometry DEF ClickEnds
  <1>5. ASSUME NEW y \in Int, fx'[browser.scrolls] = <<y>>
        PROVE  y \in ToSet(fx'[browser.scrolls])
    BY <1>5 DEF ToSet
  <1>6. ASSUME l.href \in Sections, ~Misled(l)
        PROVE  \/ pos' = Clamp(Top(l.href))
               \/ \E y \in ToSet(fx'[browser.scrolls]) :
                    Clamp(y) \in {Clamp(Top(l.href)), Clamp(Top(l.href) - 49)}
    <2>1. Top(l.href) \in Int /\ Top(l.href) - 49 \in Int
      BY <1>3, <1>6, Geometry
    <2>2. CASE ~s.prevented
      BY <1>2, <1>6, <2>2 DEF MoveTo
    <2>3. CASE s.prevented /\ Bound("smooth", l)
      <3>1. fx'[browser.scrolls] = <<Top(l.href) - 49>>
        BY <1>1, <1>2, <1>3, <2>3 DEF ClickEnds
      <3> QED
        BY <1>5, <2>1, <3>1
    <2>4. CASE s.prevented /\ ~Bound("smooth", l)
      <3>1. fx'[browser.animates] = <<Clamp(Top(l.href))>> /\ Bound("localScroll", l)
        BY <1>1, <1>2, <2>4 DEF ClickEnds
      <3>2. browser.scrolls = browser.animates
        BY <1>6, <2>4, <3>1 DEF Misled
      <3>3. Clamp(Top(l.href)) \in Int /\ Clamp(Clamp(Top(l.href))) = Clamp(Top(l.href))
        <4>1. Bottom[images] \in Nat
          BY <1>3, PageAssumption
        <4> QED
          BY <1>3, <2>1, <4>1, Geometry DEF Clamp
      <3> QED
        BY <1>5, <3>1, <3>2, <3>3
    <2> QED
      BY <1>1, <2>2, <2>3, <2>4 DEF ClickEnds
  <1> QED
    BY <1>4, <1>6 DEF LinkLeads

\* Every link leads somewhere, whichever scripts have run and on whatever page:
\* to another page, or to its section, unless scrollTo takes the wrong element.
THEOREM NoLinkIsDead == Spec => NoDeadLink
  <1>1. IInv => [\A l \in Links : Click(l) => LinkLeads(l)]_vars
    BY ClickLeads
  <1> QED
    BY <1>1, Invariant, PTL DEF NoDeadLink
===============================================================================
