------------------------ MODULE LockedDesktop_proofs ------------------------
(***************************************************************************)
(* What LockScreen(), UnlockScreen() and RemoveWindow() of Desktop.cpp     *)
(* keep, for any number of windows and lockers.  A window thread disturbs  *)
(* only what is said of its own window, so the invariant is stated for one *)
(* window; only the Desktop thread touches all of them, and it notes in    *)
(* raced whom it met between a test and the lock.                          *)
(***************************************************************************)
EXTENDS LockedDesktop, TLAPS

WindowTypes ==
  [added : BOOLEAN, hidden : BOOLEAN, minimized : BOOLEAN, show : BOOLEAN]
Places == {"idle", "show", "hide"} \cup Leaving
ThreadTypes == [pc : Places, wasUnlock : BOOLEAN]
USE DEF Leaving

(* What is so of every window: a thread that is about to show or hide it   *)
(* was asked to; only a locker that goes is held.                          *)
Always(w) ==
  /\ ~window[w].added => window[w] = NoWindow /\ thread[w].pc = "idle"
  /\ thread[w].pc = "show" => window[w].show /\ ~window[w].minimized
  /\ thread[w].pc = "hide" => ~window[w].show
  /\ w \in Lockers => ~window[w].minimized
  /\ w \in held => window[w].added /\ screenLocked
  /\ w \in held \cap Lockers => thread[w].pc \in Leaving
  /\ thread[w].pc = "remove" /\ thread[w].wasUnlock => w \in Lockers

(* What is so unless the Desktop thread came between test and section:     *)
(* the thread's test still holds, and so does what its client asked for.   *)
Unraced(w) ==
  /\ thread[w].pc = "show" => window[w].hidden /\ w \notin held
  /\ thread[w].pc \in {"hide", "quit"} => ~window[w].hidden
  /\ thread[w].pc = "remove" =>
       (thread[w].wasUnlock <=> screenLocked /\ w = unlockTeam)
  /\ window[w].minimized => window[w].hidden
  /\ w \in held => window[w].hidden /\ ~window[w].minimized
  /\ screenLocked /\ w \in AppWindows => window[w].hidden /\ thread[w].pc # "show"
  /\ w \notin disturbed /\ window[w].added /\ thread[w].pc = "idle" =>
       (~window[w].hidden \/ w \in held <=> window[w].show /\ ~window[w].minimized)

WindowInv(w) == Always(w) /\ (w \notin raced => Unraced(w))

(* fFocusList links the visible windows. *)
ListInv ==
  /\ focusList = {w \in Windows : Visible(w)}
  /\ broken => raced # {}

DesktopInv == TypeOK /\ ListInv /\ \A w \in Windows : WindowInv(w)

-----------------------------------------------------------------------------
LEMMA InvInit == Init => DesktopInv
<1> SUFFICES ASSUME Init PROVE DesktopInv
  OBVIOUS
<1>1. \A w \in Windows : window[w] = NoWindow /\ thread[w] = IdleThread
  BY DEF Init
<1>2. TypeOK
  <2>1. NoWindow \in WindowTypes /\ IdleThread \in ThreadTypes
    BY DEF NoWindow, IdleThread, WindowTypes, ThreadTypes, Places
  <2> QED BY <2>1 DEF Init, TypeOK, WindowTypes, ThreadTypes, Places
<1>3. ListInv
  BY <1>1 DEF Init, ListInv, Visible, NoWindow
<1>4. \A w \in Windows : WindowInv(w)
  BY <1>1 DEF Init, WindowInv, Always, Unraced, NoWindow, IdleThread
<1> QED BY <1>2, <1>3, <1>4 DEF DesktopInv

LEMMA EachWindow ==
  ASSUME TypeOK, NEW w \in Windows
  PROVE  window[w] \in WindowTypes /\ thread[w] \in ThreadTypes
<1>1. window \in [Windows -> WindowTypes]
  BY DEF TypeOK, WindowTypes
<1>2. thread \in [Windows -> ThreadTypes]
  BY DEF TypeOK, ThreadTypes, Places
<1> QED BY <1>1, <1>2

(* Writing the fields of one window leaves the others as they were ...     *)
LEMMA OneWindowWritten ==
  ASSUME TypeOK, NEW w \in Windows, NEW r \in WindowTypes,
         window' = [window EXCEPT ![w] = r]
  PROVE  /\ window' \in [Windows -> WindowTypes]
         /\ window'[w] = r
         /\ \A u \in Windows \ {w} : window'[u] = window[u]
<1>1. window \in [Windows -> WindowTypes]
  BY DEF TypeOK, WindowTypes
<1> QED BY <1>1

LEMMA ThreadGoes ==
  ASSUME TypeOK, NEW w \in Windows, NEW pc \in Places,
         thread' = [thread EXCEPT ![w].pc = pc]
  PROVE  /\ thread' \in [Windows -> ThreadTypes]
         /\ thread'[w] = [thread[w] EXCEPT !.pc = pc] /\ thread'[w].pc = pc
         /\ \A u \in Windows \ {w} : thread'[u] = thread[u]
<1>1. thread \in [Windows -> ThreadTypes]
  BY DEF TypeOK, ThreadTypes, Places
<1>2. /\ [thread[w] EXCEPT !.pc = pc] \in ThreadTypes
      /\ [thread[w] EXCEPT !.pc = pc].pc = pc
  BY <1>1 DEF ThreadTypes
<1> QED BY <1>1, <1>2

(* ... and SetHidden() writes one field of the windows it is given.        *)
LEMMA HiddenWritten ==
  ASSUME TypeOK, NEW ws \in SUBSET Windows, NEW h \in BOOLEAN, SetHidden(ws, h)
  PROVE  /\ window' \in [Windows -> WindowTypes]
         /\ \A u \in ws : window'[u] = [window[u] EXCEPT !.hidden = h]
         /\ \A u \in Windows \ ws : window'[u] = window[u]
<1>1. \A u \in Windows : window[u] \in WindowTypes
  BY DEF TypeOK, WindowTypes
<1>2. \A u \in Windows : [window[u] EXCEPT !.hidden = h] \in WindowTypes
  BY <1>1 DEF WindowTypes
<1> QED BY <1>1, <1>2 DEF SetHidden

(* A thread that leaves the other windows and the Desktop's lock alone     *)
(* keeps what is so of them.                                               *)
LEMMA OthersKeep ==
  ASSUME DesktopInv, NEW w \in Windows, UNCHANGED desktopVars,
         \A u \in Windows \ {w} :
           /\ window'[u] = window[u] /\ thread'[u] = thread[u]
           /\ u \in held' <=> u \in held
           /\ u \in raced' <=> u \in raced
           /\ u \in disturbed' <=> u \in disturbed
  PROVE  \A u \in Windows \ {w} : WindowInv(u)'
  BY DEF DesktopInv, WindowInv, Always, Unraced, desktopVars, NoWindow

(* A window thread takes its own window from one state to the next.        *)
LEMMA OwnWindow ==
  ASSUME DesktopInv, NEW w \in Windows, UNCHANGED desktopVars,
         window' \in [Windows -> WindowTypes], thread' \in [Windows -> ThreadTypes],
         \A u \in Windows \ {w} : window'[u] = window[u] /\ thread'[u] = thread[u],
         held' \in {held, held \ {w}},
         raced' \in {raced, raced \ {w}},
         disturbed' \in {disturbed, disturbed \cup {w}, disturbed \ {w}},
         reported' \subseteq Lockers, broken' \in BOOLEAN,
         focusList' = IF Visible(w)' THEN focusList \cup {w} ELSE focusList \ {w},
         broken' => raced' # {},
         WindowInv(w)'
  PROVE  DesktopInv'
<1>1. TypeOK'
  BY DEF DesktopInv, TypeOK, desktopVars, WindowTypes, ThreadTypes, Places
<1>2. ListInv'
  BY DEF DesktopInv, ListInv, Visible
<1>3. \A u \in Windows \ {w} : WindowInv(u)'
  BY OthersKeep
<1> QED BY <1>1, <1>2, <1>3 DEF DesktopInv
-----------------------------------------------------------------------------
(* The window threads, each with its own window. *)
LEMMA InvAddWindow ==
  ASSUME DesktopInv, NEW w \in Windows, AddWindow(w) PROVE DesktopInv'
<1>1. /\ window' = [window EXCEPT ![w] = [NoWindow EXCEPT !.added = TRUE]]
      /\ thread' = thread /\ held' = held /\ focusList' = focusList
      /\ UNCHANGED desktopVars /\ raced' = raced \ {w} /\ ~broken /\ broken' = broken
      /\ disturbed' = disturbed \ {w} /\ reported' = reported \ {w}
  BY DEF AddWindow
<1>2. /\ window' \in [Windows -> WindowTypes]
      /\ window'[w] = [added |-> TRUE, hidden |-> TRUE, minimized |-> FALSE, show |-> FALSE]
      /\ \A u \in Windows \ {w} : window'[u] = window[u]
  BY <1>1 DEF DesktopInv, TypeOK, WindowTypes, NoWindow
<1>3. window[w] = NoWindow /\ thread[w].pc = "idle" /\ w \notin held
  BY DEF AddWindow, DesktopInv, WindowInv, Always
<1>4. WindowInv(w)'
  BY <1>1, <1>2, <1>3 DEF WindowInv, Always, Unraced
<1>5. focusList' = IF Visible(w)' THEN focusList \cup {w} ELSE focusList \ {w}
  BY <1>1, <1>2, <1>3 DEF DesktopInv, ListInv, Visible, NoWindow
<1> QED
  BY <1>1, <1>2, <1>4, <1>5, OwnWindow
     DEF DesktopInv, TypeOK, WindowTypes, ThreadTypes, Places

LEMMA InvShow ==
  ASSUME DesktopInv, NEW w \in Windows, Show(w) PROVE DesktopInv'
<1>1. /\ window' = [window EXCEPT ![w].show = TRUE]
      /\ thread' \in {thread, [thread EXCEPT ![w].pc = "show"]}
      /\ held' = held /\ focusList' = focusList /\ reported' = reported
      /\ UNCHANGED desktopVars /\ raced' = raced /\ broken' = broken
      /\ disturbed' \in {disturbed, disturbed \cup {w}}
  BY DEF Show, Goes
<1>2. /\ window' \in [Windows -> WindowTypes]
      /\ window'[w] = [window[w] EXCEPT !.show = TRUE]
      /\ \A u \in Windows \ {w} : window'[u] = window[u]
  <2>1. [window[w] EXCEPT !.show = TRUE] \in WindowTypes
    BY EachWindow DEF DesktopInv, WindowTypes
  <2> QED BY <1>1, <2>1, OneWindowWritten DEF DesktopInv
<1>3. /\ thread' \in [Windows -> ThreadTypes]
      /\ \A u \in Windows \ {w} : thread'[u] = thread[u]
  <2>1. thread \in [Windows -> ThreadTypes]
    BY DEF DesktopInv, TypeOK, ThreadTypes, Places
  <2> QED BY <1>1, <2>1, ThreadGoes DEF DesktopInv, Places
<1>4. /\ window[w].added /\ thread[w].pc = "idle" /\ ~window[w].show
      /\ window[w] \in WindowTypes
  BY DEF Show, Idle, DesktopInv, TypeOK, WindowTypes
<1>5. WindowInv(w)'
  <2>1. CASE thread' = thread /\ ~window[w].hidden /\ ~window[w].minimized
    BY <1>1, <1>2, <1>4, <2>1 DEF DesktopInv, WindowInv, Always, Unraced, WindowTypes, desktopVars
  <2>2. CASE thread' = thread /\ window[w].minimized
    BY <1>1, <1>2, <1>4, <2>2 DEF DesktopInv, WindowInv, Always, Unraced, WindowTypes, desktopVars
  <2>3. CASE thread' = thread /\ w \in disturbed'
    BY <1>1, <1>2, <1>4, <2>3 DEF DesktopInv, WindowInv, Always, Unraced, WindowTypes, desktopVars
  <2>4. CASE /\ thread' = [thread EXCEPT ![w].pc = "show"]
             /\ ~window[w].minimized /\ window[w].hidden
             /\ ~(screenLocked /\ ~IsUnlockWindow(w))
    <3>1. thread'[w].pc = "show"
      BY <2>4 DEF DesktopInv, TypeOK, ThreadTypes
    <3>2. w \notin held /\ ~(screenLocked /\ w \in AppWindows)
      BY <1>4, <2>4, WindowConstants
         DEF DesktopInv, WindowInv, Always, IsUnlockWindow, TypeOK, Windows
    <3> QED BY <1>1, <1>2, <1>4, <2>4, <3>1, <3>2
      DEF DesktopInv, WindowInv, Always, Unraced, WindowTypes, desktopVars
  <2> QED BY <2>1, <2>2, <2>3, <2>4 DEF Show, Goes
<1>6. focusList' = IF Visible(w)' THEN focusList \cup {w} ELSE focusList \ {w}
  BY <1>1, <1>2, <1>4 DEF DesktopInv, ListInv, Visible, WindowTypes
<1> QED
  BY <1>1, <1>2, <1>3, <1>5, <1>6, OwnWindow DEF DesktopInv, TypeOK, ListInv

LEMMA InvShowWindow ==
  ASSUME DesktopInv, NEW w \in Windows, ShowWindow(w) PROVE DesktopInv'
<1>1. /\ thread' = [thread EXCEPT ![w].pc = "idle"]
      /\ held' = held /\ focusList' = focusList \cup {w} /\ reported' = reported
      /\ UNCHANGED desktopVars /\ raced' = raced
      /\ broken' = ({w} \cap focusList # {})
      /\ disturbed' = IF screenLocked THEN disturbed ELSE disturbed \ {w}
  BY DEF ShowWindow, Goes, Link
<1>2. /\ window' \in [Windows -> WindowTypes]
      /\ window'[w] = [window[w] EXCEPT !.hidden = FALSE]
      /\ \A u \in Windows \ {w} : window'[u] = window[u]
  BY HiddenWritten DEF ShowWindow, DesktopInv
<1>3. /\ thread' \in [Windows -> ThreadTypes] /\ thread'[w].pc = "idle"
      /\ \A u \in Windows \ {w} : thread'[u] = thread[u]
  BY <1>1, ThreadGoes DEF DesktopInv, Places
<1>4. /\ window[w].added /\ thread[w].pc = "show" /\ window[w].show
      /\ ~window[w].minimized /\ window[w] \in WindowTypes
  BY DEF ShowWindow, DesktopInv, TypeOK, WindowTypes, WindowInv, Always
<1>5. w \notin held \/ w \notin Lockers
  BY <1>4 DEF DesktopInv, WindowInv, Always
<1>6. w \notin raced =>
        /\ window[w].hidden /\ w \notin held
        /\ ~(screenLocked /\ w \in AppWindows)
  BY <1>4 DEF DesktopInv, WindowInv, Unraced
<1>7. WindowInv(w)'
  <2>1. Always(w)'
    BY <1>1, <1>2, <1>3, <1>4, <1>5
       DEF DesktopInv, WindowInv, Always, WindowTypes, desktopVars
  <2>2. w \notin raced' => Unraced(w)'
    BY <1>1, <1>2, <1>3, <1>4, <1>6 DEF Unraced, WindowTypes, desktopVars
  <2> QED BY <2>1, <2>2 DEF WindowInv
<1>8. Visible(w)' /\ (broken' => raced' # {})
  BY <1>1, <1>2, <1>4, <1>6 DEF Visible, DesktopInv, ListInv, WindowTypes
<1> QED
  BY <1>1, <1>2, <1>3, <1>7, <1>8, OwnWindow DEF DesktopInv, TypeOK

LEMMA InvHide ==
  ASSUME DesktopInv, NEW w \in Windows, Hide(w) PROVE DesktopInv'
<1>1. /\ window' = [window EXCEPT ![w].show = FALSE]
      /\ thread' = IF window[w].hidden THEN thread
                   ELSE [thread EXCEPT ![w].pc = "hide"]
      /\ held' = held /\ focusList' = focusList /\ reported' = reported
      /\ UNCHANGED desktopVars /\ raced' = raced /\ broken' = broken
      /\ disturbed' = IF screenLocked THEN disturbed \cup {w} ELSE disturbed
  BY DEF Hide, Goes
<1>2. /\ window' \in [Windows -> WindowTypes]
      /\ window'[w] = [window[w] EXCEPT !.show = FALSE]
      /\ \A u \in Windows \ {w} : window'[u] = window[u]
  <2>1. [window[w] EXCEPT !.show = FALSE] \in WindowTypes
    BY EachWindow DEF DesktopInv, WindowTypes
  <2> QED BY <1>1, <2>1, OneWindowWritten DEF DesktopInv
<1>3. /\ thread' \in [Windows -> ThreadTypes]
      /\ thread'[w].pc = IF window[w].hidden THEN "idle" ELSE "hide"
      /\ \A u \in Windows \ {w} : thread'[u] = thread[u]
  <2>1. thread \in [Windows -> ThreadTypes] /\ thread[w].pc = "idle"
    BY DEF DesktopInv, TypeOK, ThreadTypes, Places, Hide, Idle
  <2> QED BY <1>1, <2>1, ThreadGoes DEF DesktopInv, Places
<1>4. /\ window[w].added /\ thread[w].pc = "idle" /\ window[w].show
      /\ ~window[w].minimized /\ window[w] \in WindowTypes /\ w \notin Lockers
  BY WindowConstants DEF Hide, Idle, DesktopInv, TypeOK, WindowTypes
<1>5. WindowInv(w)'
  BY <1>1, <1>2, <1>3, <1>4
     DEF DesktopInv, WindowInv, Always, Unraced, WindowTypes, desktopVars
<1>6. focusList' = IF Visible(w)' THEN focusList \cup {w} ELSE focusList \ {w}
  BY <1>1, <1>2, <1>4 DEF DesktopInv, ListInv, Visible, WindowTypes
<1> QED
  BY <1>1, <1>2, <1>3, <1>5, <1>6, OwnWindow DEF DesktopInv, TypeOK, ListInv

LEMMA InvHideWindow ==
  ASSUME DesktopInv, NEW w \in Windows, HideWindow(w) PROVE DesktopInv'
<1>1. /\ thread' = [thread EXCEPT ![w].pc = "idle"]
      /\ held' = held /\ focusList' = focusList \ {w} /\ reported' = reported
      /\ UNCHANGED desktopVars /\ raced' = raced
      /\ broken' = (~({w} \subseteq focusList))
      /\ disturbed' = IF screenLocked THEN disturbed ELSE disturbed \ {w}
  BY DEF HideWindow, Goes, Unlink
<1>2. /\ window' \in [Windows -> WindowTypes]
      /\ window'[w] = [window[w] EXCEPT !.hidden = TRUE]
      /\ \A u \in Windows \ {w} : window'[u] = window[u]
  BY HiddenWritten DEF HideWindow, DesktopInv
<1>3. /\ thread' \in [Windows -> ThreadTypes] /\ thread'[w].pc = "idle"
      /\ \A u \in Windows \ {w} : thread'[u] = thread[u]
  BY <1>1, ThreadGoes DEF DesktopInv, Places
<1>4. /\ window[w].added /\ thread[w].pc = "hide" /\ ~window[w].show
      /\ window[w] \in WindowTypes
  BY DEF HideWindow, DesktopInv, TypeOK, WindowTypes, WindowInv, Always
<1>5. w \notin raced => ~window[w].hidden /\ w \notin held
  BY <1>4 DEF DesktopInv, WindowInv, Unraced
<1>6. WindowInv(w)'
  <2>1. Always(w)'
    BY <1>1, <1>2, <1>3, <1>4
       DEF DesktopInv, WindowInv, Always, WindowTypes, desktopVars
  <2>2. w \notin raced' => Unraced(w)'
    BY <1>1, <1>2, <1>3, <1>4, <1>5 DEF Unraced, WindowTypes, desktopVars
  <2> QED BY <2>1, <2>2 DEF WindowInv
<1>7. ~Visible(w)' /\ (broken' => raced' # {})
  BY <1>1, <1>2, <1>4, <1>5 DEF Visible, DesktopInv, ListInv, WindowTypes
<1> QED
  BY <1>1, <1>2, <1>3, <1>6, <1>7, OwnWindow DEF DesktopInv, TypeOK

LEMMA InvMinimize ==
  ASSUME DesktopInv, NEW w \in Windows, Minimize(w) PROVE DesktopInv'
<1>1. /\ thread' = thread /\ held' = held /\ reported' = reported
      /\ UNCHANGED desktopVars /\ raced' = raced
      /\ disturbed' = IF screenLocked THEN disturbed \cup {w} ELSE disturbed
  BY DEF Minimize
<1>2. /\ window[w].added /\ thread[w].pc = "idle" /\ window[w].show
      /\ ~window[w].minimized /\ window[w] \in WindowTypes /\ w \notin Lockers
      /\ thread \in [Windows -> ThreadTypes]
  BY WindowConstants
     DEF Minimize, Idle, DesktopInv, TypeOK, WindowTypes, ThreadTypes, Places
<1>3. CASE window[w].hidden
  <2>1. window' = window /\ focusList' = focusList /\ broken' = broken
    BY <1>3 DEF Minimize
  <2>2. WindowInv(w)'
    BY <1>1, <1>2, <1>3, <2>1
       DEF DesktopInv, WindowInv, Always, Unraced, WindowTypes, desktopVars
  <2>3. focusList' = IF Visible(w)' THEN focusList \cup {w} ELSE focusList \ {w}
    BY <1>2, <2>1 DEF DesktopInv, ListInv, Visible
  <2> QED
    BY <1>1, <1>2, <2>1, <2>2, <2>3, OwnWindow
       DEF DesktopInv, TypeOK, ListInv, WindowTypes
<1>4. CASE ~window[w].hidden
  <2>1. /\ window' = [window EXCEPT ![w].hidden = TRUE, ![w].minimized = TRUE]
        /\ focusList' = focusList \ {w}
        /\ broken' = (~({w} \subseteq focusList))
    BY <1>4 DEF Minimize, Unlink
  <2>2. /\ window' \in [Windows -> WindowTypes]
        /\ window'[w] = [window[w] EXCEPT !.hidden = TRUE, !.minimized = TRUE]
        /\ \A u \in Windows \ {w} : window'[u] = window[u]
    <3>1. [window[w] EXCEPT !.hidden = TRUE, !.minimized = TRUE] \in WindowTypes
      BY <1>2 DEF WindowTypes
    <3>2. \A u \in Windows : window[u] \in WindowTypes
      BY EachWindow DEF DesktopInv
    <3>3. DOMAIN window = Windows
      BY DEF DesktopInv, TypeOK
    <3>4. window' = [window EXCEPT ![w] = [window[w] EXCEPT !.hidden = TRUE, !.minimized = TRUE]]
      BY <2>1, <3>2, <3>3 DEF WindowTypes
    <3> QED BY <3>1, <3>4, OneWindowWritten DEF DesktopInv
  <2>3. w \notin raced => w \notin held
    BY <1>4 DEF DesktopInv, WindowInv, Unraced
  <2>4. WindowInv(w)'
    BY <1>1, <1>2, <1>4, <2>2, <2>3
       DEF DesktopInv, WindowInv, Always, Unraced, WindowTypes, desktopVars
  <2>5. ~Visible(w)' /\ broken' = FALSE
    BY <1>2, <1>4, <2>1, <2>2 DEF Visible, DesktopInv, ListInv, WindowTypes
  <2> QED
    BY <1>1, <1>2, <2>1, <2>2, <2>4, <2>5, OwnWindow DEF DesktopInv, TypeOK
<1> QED BY <1>3, <1>4

LEMMA InvUnminimize ==
  ASSUME DesktopInv, NEW w \in Windows, Unminimize(w) PROVE DesktopInv'
<1>1. /\ thread' = thread /\ held' = held /\ reported' = reported
      /\ UNCHANGED desktopVars /\ raced' = raced
      /\ disturbed' = IF screenLocked THEN disturbed \cup {w} ELSE disturbed
  BY DEF Unminimize
<1>2. /\ window[w].added /\ thread[w].pc = "idle" /\ window[w].show
      /\ window[w].minimized /\ window[w] \in WindowTypes /\ w \notin Lockers
      /\ ~broken /\ thread \in [Windows -> ThreadTypes]
  BY WindowConstants
     DEF Unminimize, Idle, DesktopInv, TypeOK, WindowTypes, ThreadTypes, Places
<1>3. w \notin raced => window[w].hidden /\ w \notin held
  BY <1>2 DEF DesktopInv, WindowInv, Unraced
<1>4. CASE screenLocked
  <2>1. /\ window' = [window EXCEPT ![w].minimized = FALSE]
        /\ focusList' = focusList /\ broken' = broken
    BY <1>4 DEF Unminimize
  <2>2. /\ window' \in [Windows -> WindowTypes]
        /\ window'[w] = [window[w] EXCEPT !.minimized = FALSE]
        /\ \A u \in Windows \ {w} : window'[u] = window[u]
    BY <2>1 DEF DesktopInv, TypeOK, WindowTypes
  <2>3. WindowInv(w)'
    BY <1>1, <1>2, <1>3, <1>4, <2>2
       DEF DesktopInv, WindowInv, Always, Unraced, WindowTypes, desktopVars
  <2>4. focusList' = IF Visible(w)' THEN focusList \cup {w} ELSE focusList \ {w}
    BY <1>2, <2>1, <2>2 DEF DesktopInv, ListInv, Visible, WindowTypes
  <2> QED
    BY <1>1, <1>2, <2>1, <2>2, <2>3, <2>4, OwnWindow DEF DesktopInv, TypeOK, ListInv
<1>5. CASE ~screenLocked
  <2>1. /\ window' = [window EXCEPT ![w].minimized = FALSE, ![w].hidden = FALSE]
        /\ focusList' = focusList \cup {w}
        /\ broken' = ({w} \cap focusList # {})
    BY <1>5 DEF Unminimize, Link
  <2>2. /\ window' \in [Windows -> WindowTypes]
        /\ window'[w] = [window[w] EXCEPT !.minimized = FALSE, !.hidden = FALSE]
        /\ \A u \in Windows \ {w} : window'[u] = window[u]
    <3>1. [window[w] EXCEPT !.minimized = FALSE, !.hidden = FALSE] \in WindowTypes
      BY <1>2 DEF WindowTypes
    <3>2. \A u \in Windows : window[u] \in WindowTypes
      BY EachWindow DEF DesktopInv
    <3>3. DOMAIN window = Windows
      BY DEF DesktopInv, TypeOK
    <3>4. window' = [window EXCEPT ![w] = [window[w] EXCEPT !.minimized = FALSE, !.hidden = FALSE]]
      BY <2>1, <3>2, <3>3 DEF WindowTypes
    <3> QED BY <3>1, <3>4, OneWindowWritten DEF DesktopInv
  <2>3. WindowInv(w)'
    BY <1>1, <1>2, <1>3, <1>5, <2>2
       DEF DesktopInv, WindowInv, Always, Unraced, WindowTypes, desktopVars
  <2>4. Visible(w)' /\ (broken' => raced' # {})
    BY <1>1, <1>2, <1>3, <2>1, <2>2 DEF DesktopInv, ListInv, Visible, WindowTypes
  <2> QED
    BY <1>1, <1>2, <2>1, <2>2, <2>3, <2>4, OwnWindow DEF DesktopInv, TypeOK
<1> QED BY <1>4, <1>5

LEMMA InvDie ==
  ASSUME DesktopInv, NEW w \in Windows, Die(w) \/ QuitAgain(w) PROVE DesktopInv'
<1> DEFINE place == IF window[w].hidden THEN "dying" ELSE "quit"
<1>1. /\ thread' = [thread EXCEPT ![w].pc = place]
      /\ window' = window /\ held' = held /\ focusList' = focusList
      /\ UNCHANGED desktopVars /\ raced' = raced /\ broken' = broken
      /\ disturbed' = disturbed /\ reported' = reported
  BY DEF Die, QuitAgain, Goes
<1>2. /\ thread' \in [Windows -> ThreadTypes] /\ thread'[w].pc = place
      /\ \A u \in Windows \ {w} : thread'[u] = thread[u]
      /\ window \in [Windows -> WindowTypes]
  <2>1. window \in [Windows -> WindowTypes]
    BY DEF DesktopInv, TypeOK, WindowTypes
  <2>2. place \in Places
    BY DEF Places
  <2> HIDE DEF place
  <2> QED BY <1>1, <2>1, <2>2, ThreadGoes DEF DesktopInv
<1>3. window[w].added
  BY DEF Die, QuitAgain, Idle, DesktopInv, WindowInv, Always
<1>4. WindowInv(w)'
  BY <1>1, <1>2, <1>3 DEF DesktopInv, WindowInv, Always, Unraced, desktopVars
<1>5. focusList' = IF Visible(w)' THEN focusList \cup {w} ELSE focusList \ {w}
  BY <1>1 DEF DesktopInv, ListInv, Visible
<1> QED
  BY <1>1, <1>2, <1>4, <1>5, OwnWindow DEF DesktopInv, TypeOK, ListInv

LEMMA InvQuitHide ==
  ASSUME DesktopInv, NEW w \in Windows, QuitHide(w) PROVE DesktopInv'
<1>1. /\ thread' = [thread EXCEPT ![w].pc = "dying"]
      /\ held' = held /\ focusList' = focusList \ {w} /\ reported' = reported
      /\ UNCHANGED desktopVars /\ raced' = raced /\ disturbed' = disturbed
      /\ broken' = (~({w} \subseteq focusList))
  BY DEF QuitHide, Goes, Unlink
<1>2. /\ window' \in [Windows -> WindowTypes]
      /\ window'[w] = [window[w] EXCEPT !.hidden = TRUE]
      /\ \A u \in Windows \ {w} : window'[u] = window[u]
  BY HiddenWritten DEF QuitHide, DesktopInv
<1>3. /\ thread' \in [Windows -> ThreadTypes] /\ thread'[w].pc = "dying"
      /\ \A u \in Windows \ {w} : thread'[u] = thread[u]
  BY <1>1, ThreadGoes DEF DesktopInv, Places
<1>4. /\ window[w].added /\ thread[w].pc = "quit" /\ window[w] \in WindowTypes
  BY DEF QuitHide, DesktopInv, TypeOK, WindowTypes, WindowInv, Always
<1>5. w \notin raced => ~window[w].hidden /\ w \notin held
  BY <1>4 DEF DesktopInv, WindowInv, Unraced
<1>6. WindowInv(w)'
  <2>1. Always(w)'
    BY <1>1, <1>2, <1>3, <1>4
       DEF DesktopInv, WindowInv, Always, WindowTypes, desktopVars
  <2>2. w \notin raced' => Unraced(w)'
    BY <1>1, <1>2, <1>3, <1>4, <1>5 DEF Unraced, WindowTypes, desktopVars
  <2> QED BY <2>1, <2>2 DEF WindowInv
<1>7. ~Visible(w)' /\ (broken' => raced' # {})
  BY <1>1, <1>2, <1>4, <1>5 DEF Visible, DesktopInv, ListInv, WindowTypes
<1> QED
  BY <1>1, <1>2, <1>3, <1>6, <1>7, OwnWindow DEF DesktopInv, TypeOK

LEMMA InvWasUnlock ==
  ASSUME DesktopInv, NEW w \in Windows, WasUnlock(w) PROVE DesktopInv'
<1>1. /\ thread' = [thread EXCEPT ![w] =
           [pc |-> "remove", wasUnlock |-> screenLocked /\ IsUnlockWindow(w)]]
      /\ window' = window /\ held' = held /\ focusList' = focusList
      /\ UNCHANGED desktopVars /\ raced' = raced /\ broken' = broken
      /\ disturbed' = disturbed /\ reported' = reported
  BY DEF WasUnlock
<1>2. /\ thread' \in [Windows -> ThreadTypes] /\ thread'[w].pc = "remove"
      /\ thread'[w].wasUnlock <=> screenLocked /\ w = unlockTeam
      /\ \A u \in Windows \ {w} : thread'[u] = thread[u]
      /\ window \in [Windows -> WindowTypes]
  BY <1>1
     DEF DesktopInv, TypeOK, ThreadTypes, Places, WindowTypes, IsUnlockWindow
<1>3. /\ window[w].added
      /\ w = unlockTeam => w \in Lockers
  BY WindowConstants
     DEF WasUnlock, DesktopInv, WindowInv, Always, TypeOK, Windows
<1>4. WindowInv(w)'
  BY <1>1, <1>2, <1>3 DEF DesktopInv, WindowInv, Always, Unraced, desktopVars
<1>5. focusList' = IF Visible(w)' THEN focusList \cup {w} ELSE focusList \ {w}
  BY <1>1 DEF DesktopInv, ListInv, Visible
<1> QED
  BY <1>1, <1>2, <1>4, <1>5, OwnWindow DEF DesktopInv, TypeOK, ListInv

LEMMA InvRemoveWindow ==
  ASSUME DesktopInv, NEW w \in Windows, RemoveWindow(w) PROVE DesktopInv'
<1>1. /\ thread' = [thread EXCEPT ![w] = IdleThread]
      /\ window' = [window EXCEPT ![w] = NoWindow]
      /\ held' = held \ {w} /\ raced' = raced /\ disturbed' = disturbed
      /\ UNCHANGED desktopVars
      /\ reported' \in {reported, reported \cup {w}}
      /\ thread[w].pc = "remove" /\ ~broken
  BY DEF RemoveWindow
<1>2. /\ thread' \in [Windows -> ThreadTypes] /\ thread'[w].pc = "idle"
      /\ window' \in [Windows -> WindowTypes] /\ window'[w] = NoWindow
      /\ \A u \in Windows \ {w} : thread'[u] = thread[u] /\ window'[u] = window[u]
  <2>1. window \in [Windows -> WindowTypes] /\ thread \in [Windows -> ThreadTypes]
    BY DEF DesktopInv, TypeOK, WindowTypes, ThreadTypes, Places
  <2>2. NoWindow \in WindowTypes /\ IdleThread \in ThreadTypes
    BY DEF NoWindow, IdleThread, WindowTypes, ThreadTypes, Places
  <2>3. thread'[w] = IdleThread
    BY <1>1, <2>1
  <2>4. thread'[w].pc = "idle"
    BY <2>3 DEF IdleThread
  <2> QED BY <1>1, <2>1, <2>2, <2>4
<1>3. window[w].added /\ (~window[w].hidden => w \in focusList)
  BY <1>1 DEF DesktopInv, WindowInv, Always, ListInv, Visible
<1>4. /\ focusList' = focusList \ {w} /\ broken' = FALSE
  <2>1. CASE window[w].hidden
    <3>1. w \notin focusList
      BY <2>1 DEF DesktopInv, ListInv, Visible
    <3> QED BY <1>1, <2>1, <3>1 DEF RemoveWindow, DesktopInv, TypeOK
  <2>2. CASE ~window[w].hidden
    BY <1>3, <2>2 DEF RemoveWindow, Unlink
  <2> QED BY <2>1, <2>2
<1>5. WindowInv(w)' /\ ~Visible(w)'
  BY <1>1, <1>2 DEF WindowInv, Always, Unraced, Visible, NoWindow
<1>6. reported' \subseteq Lockers
  <2>1. CASE reported' = reported
    BY <2>1 DEF DesktopInv, TypeOK
  <2>2. CASE reported' # reported
    <3>1. thread[w].wasUnlock /\ reported' = reported \cup {w}
      BY <2>2 DEF RemoveWindow
    <3> QED BY <1>1, <3>1 DEF DesktopInv, TypeOK, WindowInv, Always
  <2> QED BY <2>1, <2>2
<1> QED
  BY <1>1, <1>2, <1>4, <1>5, <1>6, OwnWindow DEF DesktopInv, TypeOK

-----------------------------------------------------------------------------
(* The Desktop thread.  Whoever it meets between test and section is in    *)
(* raced, so that only windows of idle threads have to be looked at.       *)
LEMMA InvLockScreen ==
  ASSUME DesktopInv, NEW team \in Lockers, LockScreen(team) PROVE DesktopInv'
<1> DEFINE toHide == {w \in Windows : Visible(w) /\ w # team}
<1>1. /\ thread' = thread /\ raced' = raced \cup Tested /\ disturbed' = disturbed
      /\ reported' = reported /\ screenLocked' = TRUE /\ unlockTeam' = team
      /\ ~broken
  BY DEF LockScreen
<1>2. \A w \in Windows \ raced' :
        /\ w \notin raced /\ thread[w].pc \notin {"show", "hide", "quit", "remove"}
        /\ thread'[w] = thread[w]
  BY <1>1 DEF Tested
<1>3. CASE screenLocked
  <2>1. UNCHANGED <<held, window, focusList, broken>>
    BY <1>3 DEF LockScreen
  <2>2. TypeOK' /\ ListInv'
    BY <1>1, <2>1 DEF DesktopInv, TypeOK, ListInv, Visible, Tested
  <2>3. \A w \in Windows : WindowInv(w)'
    BY <1>1, <1>2, <1>3, <2>1 DEF DesktopInv, WindowInv, Always, Unraced
  <2> QED BY <2>2, <2>3 DEF DesktopInv
<1>4. CASE ~screenLocked
  <2>1. held' = toHide /\ SetHidden(toHide, TRUE) /\ Unlink(toHide)
    BY <1>4 DEF LockScreen
  <2>2. /\ window' \in [Windows -> WindowTypes]
        /\ \A w \in toHide : window'[w] = [window[w] EXCEPT !.hidden = TRUE]
        /\ \A w \in Windows \ toHide : window'[w] = window[w]
    BY <2>1 DEF SetHidden, DesktopInv, TypeOK, WindowTypes
  <2>3. TypeOK'
    <3>1. held' \subseteq Windows /\ raced' \subseteq Windows
      BY <1>1, <2>1 DEF DesktopInv, TypeOK, Tested
    <3>2. focusList' \subseteq Windows /\ broken' \in BOOLEAN
      BY <2>1 DEF DesktopInv, TypeOK, Unlink
    <3> QED BY <1>1, <2>2, <3>1, <3>2 DEF DesktopInv, TypeOK, WindowTypes
  <2>4. ListInv'
    <3>1. toHide \subseteq focusList
      BY DEF DesktopInv, ListInv
    <3>2. focusList' = focusList \ toHide /\ broken' = FALSE
      BY <2>1, <3>1 DEF Unlink
    <3>3. \A w \in Windows : Visible(w)' <=> Visible(w) /\ w \notin toHide
      BY <2>2 DEF Visible, DesktopInv, TypeOK, WindowTypes
    <3> QED BY <3>2, <3>3 DEF DesktopInv, ListInv
  <2>5. ASSUME NEW w \in Windows PROVE WindowInv(w)'
    <3>1. w \notin held
      BY <1>4 DEF DesktopInv, WindowInv, Always
    <3>2. CASE w \in toHide
      <4>1. w \in Lockers => thread[w].pc \in Leaving
        BY <3>2 DEF LockScreen, OnlyLocker, Visible
      <4>2. /\ window'[w] = [window[w] EXCEPT !.hidden = TRUE]
            /\ window[w] \in WindowTypes /\ window[w].added /\ ~window[w].hidden
            /\ w \in held'
        BY <2>1, <2>2, <3>2 DEF Visible, DesktopInv, TypeOK, WindowTypes
      <4> QED
        BY <1>1, <1>2, <3>1, <4>1, <4>2
           DEF DesktopInv, WindowInv, Always, Unraced, WindowTypes
    <3>3. CASE w \notin toHide
      <4>1. /\ window'[w] = window[w] /\ w \notin held'
            /\ w # team => ~window[w].added \/ window[w].hidden
        BY <2>1, <2>2, <3>3 DEF Visible
      <4>2. w \in AppWindows => window[w].hidden
        BY <4>1, WindowConstants DEF DesktopInv, WindowInv, Always, NoWindow
      <4> QED
        BY <1>1, <1>2, <3>1, <4>1, <4>2
           DEF DesktopInv, WindowInv, Always, Unraced
    <3> QED BY <3>2, <3>3
  <2> QED BY <2>3, <2>4, <2>5 DEF DesktopInv
<1> QED BY <1>3, <1>4

LEMMA InvUnlockScreen ==
  ASSUME DesktopInv, UnlockScreen PROVE DesktopInv'
<1> DEFINE toShow == {w \in held : window[w].hidden}
<1>1. /\ thread' = thread /\ raced' = raced \cup Tested /\ disturbed' = disturbed
      /\ reported' = reported /\ screenLocked' = FALSE /\ unlockTeam' = NoTeam
      /\ ~broken /\ held' = {}
      /\ SetHidden(toShow, FALSE) /\ Link(toShow)
  BY DEF UnlockScreen
<1>2. \A w \in Windows \ raced' :
        /\ w \notin raced /\ thread[w].pc \notin {"show", "hide", "quit", "remove"}
        /\ thread'[w] = thread[w]
  BY <1>1 DEF Tested
<1>3. /\ window' \in [Windows -> WindowTypes]
      /\ \A w \in toShow : window'[w] = [window[w] EXCEPT !.hidden = FALSE]
      /\ \A w \in Windows \ toShow : window'[w] = window[w]
      /\ toShow \subseteq Windows
  BY <1>1 DEF SetHidden, DesktopInv, TypeOK, WindowTypes
<1>4. TypeOK'
  <2>1. raced' \subseteq Windows
    BY <1>1 DEF DesktopInv, TypeOK, Tested
  <2>2. focusList' \subseteq Windows /\ broken' \in BOOLEAN
    BY <1>1, <1>3 DEF DesktopInv, TypeOK, Link
  <2> QED BY <1>1, <1>3, <2>1, <2>2 DEF DesktopInv, TypeOK, WindowTypes
<1>5. \A w \in toShow : window[w].added
  BY <1>3 DEF DesktopInv, WindowInv, Always
<1>6. ListInv'
  <2>1. toShow \cap focusList = {}
    BY DEF DesktopInv, ListInv, Visible
  <2>2. focusList' = focusList \cup toShow /\ broken' = FALSE
    BY <1>1, <2>1 DEF Link
  <2>3. ASSUME NEW w \in Windows PROVE Visible(w)' <=> Visible(w) \/ w \in toShow
    <3>1. CASE w \in toShow
      <4>1. window'[w].added = window[w].added /\ window'[w].hidden = FALSE
        BY <1>3, <3>1, EachWindow DEF DesktopInv, WindowTypes
      <4> QED BY <1>5, <3>1, <4>1 DEF Visible
    <3>2. CASE w \notin toShow
      BY <1>3, <3>2 DEF Visible
    <3> QED BY <3>1, <3>2
  <2> QED BY <1>3, <2>2, <2>3 DEF DesktopInv, ListInv
<1>7. ASSUME NEW w \in Windows PROVE WindowInv(w)'
  <2>1. CASE w \in toShow
    <3>1. /\ window'[w] = [window[w] EXCEPT !.hidden = FALSE]
          /\ window[w] \in WindowTypes /\ window[w].added /\ w \in held
          /\ window[w].hidden
      BY <1>3, <1>5, <2>1 DEF DesktopInv, TypeOK, WindowTypes
    <3> QED
      BY <1>1, <1>2, <3>1
         DEF DesktopInv, WindowInv, Always, Unraced, WindowTypes
  <2>2. CASE w \notin toShow
    <3>1. window'[w] = window[w] /\ (w \in held => ~window[w].hidden)
      BY <1>3, <2>2
    <3> QED
      BY <1>1, <1>2, <3>1 DEF DesktopInv, WindowInv, Always, Unraced
  <2> QED BY <2>1, <2>2
<1> QED BY <1>4, <1>6, <1>7 DEF DesktopInv

LEMMA InvNext == DesktopInv /\ [Next]_vars => DesktopInv'
<1> SUFFICES ASSUME DesktopInv, [Next]_vars PROVE DesktopInv'
  OBVIOUS
<1>1. CASE UNCHANGED vars
  BY <1>1 DEF vars, desktopVars, DesktopInv, TypeOK, ListInv, Visible, WindowInv,
     Always, Unraced
<1>2. ASSUME NEW w \in Windows,
             \/ AddWindow(w) \/ Show(w) \/ ShowWindow(w) \/ Hide(w) \/ HideWindow(w)
             \/ Minimize(w) \/ Unminimize(w) \/ Die(w) \/ QuitAgain(w)
             \/ QuitHide(w) \/ WasUnlock(w) \/ RemoveWindow(w)
      PROVE  DesktopInv'
  BY <1>2, InvAddWindow, InvShow, InvShowWindow, InvHide, InvHideWindow,
     InvMinimize, InvUnminimize, InvDie, InvQuitHide, InvWasUnlock, InvRemoveWindow
<1>3. ASSUME NEW team \in Lockers, LockScreen(team) PROVE DesktopInv'
  BY <1>3, InvLockScreen
<1>4. CASE UnlockScreen
  BY <1>4, InvUnlockScreen
<1> QED BY <1>1, <1>2, <1>3, <1>4 DEF Next

-----------------------------------------------------------------------------
THEOREM DesktopInvariant == Spec => []DesktopInv
  BY InvInit, InvNext, PTL DEF Spec

(* The variables keep their types, whatever the windows and the Desktop do.*)
THEOREM TypeCorrect == Spec => []TypeOK
<1>1. DesktopInv => TypeOK
  BY DEF DesktopInv
<1> QED BY <1>1, DesktopInvariant, PTL

(* No window of the session shows on a locked screen, except one whose     *)
(* ShowWindow() had passed its test when the lock came.                    *)
THEOREM LockedMeansHidden == Spec => []NothingShowsWhileLocked
<1>1. DesktopInv => NothingShowsWhileLocked
  BY DEF DesktopInv, WindowInv, Unraced, NothingShowsWhileLocked, Visible, Windows
<1> QED BY <1>1, DesktopInvariant, PTL

(* fLockHiddenWindows never keeps a deleted window, so that UnlockScreen() *)
(* follows live pointers.                                                  *)
THEOREM UnlockShowsLiveWindows == Spec => []HeldWindowsLive
<1>1. DesktopInv => HeldWindowsLive
  BY DEF DesktopInv, TypeOK, WindowInv, Always, HeldWindowsLive
<1> QED BY <1>1, DesktopInvariant, PTL

(* No window is linked into fFocusList twice, or unlinked twice, unless a  *)
(* window thread stood between its test and the lock.                      *)
THEOREM FocusListSurvives == Spec => []FocusListIntact
<1>1. DesktopInv => FocusListIntact
  BY DEF DesktopInv, ListInv, FocusListIntact
<1> QED BY <1>1, DesktopInvariant, PTL

(* A lock that came and went leaves every window as its client asked.      *)
THEOREM LockLeavesNoTrace == Spec => []WindowsAsAsked
<1>1. DesktopInv => WindowsAsAsked
  BY DEF DesktopInv, WindowInv, Always, Unraced, WindowsAsAsked, Visible, Idle
<1> QED BY <1>1, DesktopInvariant, PTL

(* The locker that asked to be shown is shown, also if the screen was      *)
(* locked before it, for another one.                                      *)
THEOREM LockerShows == Spec => []PromptIsShown
<1>1. DesktopInv => PromptIsShown
  <2> SUFFICES ASSUME DesktopInv, screenLocked,
                      NEW w \in Lockers \ (raced \cup disturbed),
                      Idle(w), window[w].show
               PROVE  Visible(w)
    BY DEF PromptIsShown
  <2>1. w \in Windows /\ WindowInv(w)
    BY DEF Windows, DesktopInv
  <2>2. w \notin held /\ ~window[w].minimized
    BY <2>1 DEF WindowInv, Always, Idle
  <2> QED BY <2>1, <2>2 DEF WindowInv, Unraced, Visible, Idle
<1> QED BY <1>1, DesktopInvariant, PTL

(* RemoveWindow() of the last unlock window tells janus.                   *)
THEOREM LossIsReported == Spec => LockerLossReported
<1> DEFINE Reported ==
      \A w \in Lockers \ raced :
        screenLocked /\ w = unlockTeam /\ window[w].added /\ ~window'[w].added
          => w \in reported'
<1>1. DesktopInv /\ [Next]_vars => [Reported]_vars
  <2> SUFFICES ASSUME DesktopInv, Next, NEW w \in Lockers \ raced,
                      screenLocked, w = unlockTeam, window[w].added,
                      ~window'[w].added
               PROVE  w \in reported'
    OBVIOUS
  <2>1. w \in Windows /\ window \in [Windows -> WindowTypes]
    BY DEF Windows, DesktopInv, TypeOK, WindowTypes
  <2>2. RemoveWindow(w)
    <3>1. ASSUME NEW u \in Windows, AddWindow(u) PROVE FALSE
      BY <2>1, <3>1 DEF AddWindow, NoWindow, WindowTypes
    <3>2. ASSUME NEW u \in Windows,
                 Show(u) \/ Hide(u) \/ Minimize(u) \/ Unminimize(u)
          PROVE  FALSE
      BY <2>1, <3>2 DEF Show, Hide, Minimize, Unminimize, WindowTypes
    <3>3. ASSUME NEW u \in Windows, ShowWindow(u) \/ HideWindow(u) \/ QuitHide(u)
          PROVE  FALSE
      BY <2>1, <3>3 DEF ShowWindow, HideWindow, QuitHide, SetHidden, WindowTypes
    <3>4. ASSUME NEW u \in Windows, Die(u) \/ QuitAgain(u) \/ WasUnlock(u) PROVE FALSE
      BY <3>4 DEF Die, QuitAgain, WasUnlock
    <3>5. ASSUME NEW u \in Windows, RemoveWindow(u) PROVE u = w
      BY <2>1, <3>5 DEF RemoveWindow, WindowTypes
    <3>6. ASSUME NEW team \in Lockers, LockScreen(team) PROVE FALSE
      BY <2>1, <3>6 DEF LockScreen, SetHidden, WindowTypes
    <3>7. ~UnlockScreen
      BY <2>1 DEF UnlockScreen, SetHidden, WindowTypes
    <3> QED BY <3>1, <3>2, <3>3, <3>4, <3>5, <3>6, <3>7 DEF Next
  <2>3. thread[w].wasUnlock
    BY <2>1, <2>2 DEF RemoveWindow, DesktopInv, WindowInv, Unraced
  <2>4. ~AnyUnlockLeft(w)
    BY DEF AnyUnlockLeft, IsUnlockWindow
  <2> QED BY <2>2, <2>3, <2>4 DEF RemoveWindow
<1> QED BY <1>1, DesktopInvariant, PTL DEF Spec, LockerLossReported

-----------------------------------------------------------------------------
(* The DesktopLock that a Desktop implements, seen through its unlock      *)
(* windows: a thread that deletes one makes it go.                         *)
PassesAs(w) == IF ~window[w].added THEN "none"
               ELSE IF thread[w].pc \in Leaving THEN "going"
               ELSE "open"
LockStep == Lock!Next \/ UNCHANGED Lock!vars

LEMMA ThreadSeen ==
  ASSUME UNCHANGED desktopVars, NEW w \in Windows,
         \A u \in Windows \ {w} : window'[u] = window[u] /\ thread'[u] = thread[u],
         \/ PassesAs(w)' = PassesAs(w)
         \/ PassesAs(w) = "open" /\ PassesAs(w)' = "going"
         \/ PassesAs(w) = "going" /\ PassesAs(w)' = "none"
         \/ /\ PassesAs(w) = "none" /\ PassesAs(w)' = "open"
            /\ OnlyLocker(w)
  PROVE  LockStep
<1> DEFINE seen == [u \in Lockers |-> PassesAs(u)]
<1>1. \A u \in Lockers \ {w} : PassesAs(u)' = PassesAs(u)
  BY DEF Windows, PassesAs
<1>2. CASE w \notin Lockers \/ PassesAs(w)' = PassesAs(w)
  <2>1. \A u \in Lockers : PassesAs(u)' = PassesAs(u)
    BY <1>1, <1>2
  <2> QED BY <2>1 DEF LockStep, Lock!vars, PassesAs, desktopVars
<1>3. ASSUME w \in Lockers PROVE seen' = [seen EXCEPT ![w] = PassesAs(w)']
  BY <1>1, <1>3
<1>4. CASE w \in Lockers /\ PassesAs(w) = "open" /\ PassesAs(w)' = "going"
  <2>1. Lock!Go(w)
    BY <1>3, <1>4 DEF Lock!Go, Lock!Becomes, PassesAs, desktopVars
  <2> QED BY <1>4, <2>1 DEF LockStep, Lock!Next
<1>5. CASE w \in Lockers /\ PassesAs(w) = "going" /\ PassesAs(w)' = "none"
  <2>1. Lock!Close(w)
    BY <1>3, <1>5 DEF Lock!Close, Lock!Becomes, PassesAs, desktopVars
  <2> QED BY <1>5, <2>1 DEF LockStep, Lock!Next
<1>6. CASE /\ w \in Lockers /\ OnlyLocker(w)
           /\ PassesAs(w) = "none" /\ PassesAs(w)' = "open"
  <2>1. \A u \in Lockers \ {w} : PassesAs(u) # "open"
    BY <1>6 DEF OnlyLocker, PassesAs
  <2>2. Lock!Open(w)
    BY <1>3, <1>6, <2>1
       DEF Lock!Open, Lock!OthersGo, Lock!Becomes, PassesAs, desktopVars
  <2> QED BY <1>6, <2>2 DEF LockStep, Lock!Next
<1> QED BY <1>2, <1>4, <1>5, <1>6

LEMMA ThreadRefined ==
  ASSUME DesktopInv, NEW w \in Windows,
         \/ AddWindow(w) \/ Show(w) \/ ShowWindow(w) \/ Hide(w) \/ HideWindow(w)
         \/ Minimize(w) \/ Unminimize(w) \/ Die(w) \/ QuitAgain(w) \/ QuitHide(w)
         \/ WasUnlock(w) \/ RemoveWindow(w)
  PROVE  LockStep
<1>0. TypeOK /\ Always(w) /\ window[w] \in WindowTypes /\ thread[w] \in ThreadTypes
  BY EachWindow DEF DesktopInv, WindowInv
<1>1. CASE AddWindow(w)
  <2> DEFINE r == [NoWindow EXCEPT !.added = TRUE]
  <2>1. /\ window' = [window EXCEPT ![w] = r] /\ ~window[w].added /\ OnlyLocker(w)
        /\ UNCHANGED <<desktopVars, thread>>
    BY <1>1 DEF AddWindow
  <2>2. r \in WindowTypes /\ r.added
    BY DEF NoWindow, WindowTypes
  <2> HIDE DEF r
  <2>3. window'[w] = r /\ \A u \in Windows \ {w} : window'[u] = window[u]
    BY <1>0, <2>1, <2>2, OneWindowWritten
  <2>4. PassesAs(w) = "none" /\ PassesAs(w)' = "open"
    BY <1>0, <2>1, <2>2, <2>3 DEF PassesAs, Always
  <2> QED BY <2>1, <2>3, <2>4, ThreadSeen
(* What a client asks for neither adds nor deletes its window. *)
<1>2. ASSUME UNCHANGED desktopVars, NEW pc \in {"idle", "show", "hide"},
             thread[w].pc \in {"idle", "show", "hide"},
             thread' = thread \/ Goes(w, pc), window'[w].added = window[w].added,
             \A u \in Windows \ {w} : window'[u] = window[u]
      PROVE  LockStep
  <2>1. /\ thread'[w].pc \in {"idle", "show", "hide"}
        /\ \A u \in Windows \ {w} : thread'[u] = thread[u]
    BY <1>0, <1>2, ThreadGoes DEF Goes, Places
  <2>2. PassesAs(w)' = PassesAs(w)
    BY <1>2, <2>1 DEF PassesAs
  <2> QED BY <1>2, <2>1, <2>2, ThreadSeen
<1>3. ASSUME NEW h \in BOOLEAN, SetHidden({w}, h)
      PROVE  /\ window'[w].added = window[w].added
             /\ \A u \in Windows \ {w} : window'[u] = window[u]
  <2>1. /\ window'[w] = [window[w] EXCEPT !.hidden = h]
        /\ \A u \in Windows \ {w} : window'[u] = window[u]
    BY <1>0, <1>3, HiddenWritten
  <2> QED BY <1>0, <2>1 DEF WindowTypes
<1>4. ASSUME NEW r \in WindowTypes, r.added = window[w].added,
             window' = [window EXCEPT ![w] = r]
      PROVE  /\ window'[w].added = window[w].added
             /\ \A u \in Windows \ {w} : window'[u] = window[u]
  BY <1>0, <1>4, OneWindowWritten
<1>5. CASE Show(w) \/ Hide(w)
  <2>1. PICK s \in BOOLEAN : window' = [window EXCEPT ![w] = [window[w] EXCEPT !.show = s]]
    BY <1>5 DEF Show, Hide
  <2>2. /\ [window[w] EXCEPT !.show = s] \in WindowTypes
        /\ [window[w] EXCEPT !.show = s].added = window[w].added
    BY <1>0 DEF WindowTypes
  <2>3. /\ window'[w].added = window[w].added
        /\ \A u \in Windows \ {w} : window'[u] = window[u]
    BY <1>4, <2>1, <2>2
  <2>4. /\ UNCHANGED desktopVars /\ thread[w].pc = "idle"
        /\ \/ thread' = thread
           \/ Goes(w, "show")
           \/ Goes(w, "hide")
    BY <1>5 DEF Show, Hide, Idle
  <2> QED BY <1>2, <2>3, <2>4
<1>6. CASE ShowWindow(w) \/ HideWindow(w)
  <2>1. /\ UNCHANGED desktopVars /\ Goes(w, "idle")
        /\ thread[w].pc \in {"show", "hide"}
        /\ SetHidden({w}, FALSE) \/ SetHidden({w}, TRUE)
    BY <1>6 DEF ShowWindow, HideWindow
  <2>2. /\ window'[w].added = window[w].added
        /\ \A u \in Windows \ {w} : window'[u] = window[u]
    BY <1>3, <2>1
  <2> QED BY <1>2, <2>1, <2>2
<1>7. CASE Minimize(w) \/ Unminimize(w)
  <2>1. UNCHANGED <<desktopVars, thread>> /\ thread[w].pc = "idle"
    BY <1>7 DEF Minimize, Unminimize, Idle
  <2>2. \/ window' = window
        \/ \E m, h \in BOOLEAN :
             window' = [window EXCEPT ![w] = [window[w] EXCEPT !.minimized = m, !.hidden = h]]
    <3>1. CASE Minimize(w)
      BY <3>1 DEF Minimize
    <3>2. CASE Unminimize(w) /\ screenLocked
      <4>1. window' = [window EXCEPT ![w].minimized = FALSE]
        BY <3>2 DEF Unminimize
      <4>2. [window[w] EXCEPT !.minimized = FALSE]
              = [window[w] EXCEPT !.minimized = FALSE, !.hidden = window[w].hidden]
        BY <1>0 DEF WindowTypes
      <4>3. window[w].hidden \in BOOLEAN
        BY <1>0 DEF WindowTypes
      <4> QED BY <4>1, <4>2, <4>3
    <3>3. CASE Unminimize(w) /\ ~screenLocked
      BY <3>3 DEF Unminimize
    <3> QED BY <1>7, <3>1, <3>2, <3>3
  <2>3. /\ window'[w].added = window[w].added
        /\ \A u \in Windows \ {w} : window'[u] = window[u]
    <3>1. ASSUME NEW m \in BOOLEAN, NEW h \in BOOLEAN
          PROVE  /\ [window[w] EXCEPT !.minimized = m, !.hidden = h] \in WindowTypes
                 /\ [window[w] EXCEPT !.minimized = m, !.hidden = h].added
                      = window[w].added
      BY <1>0 DEF WindowTypes
    <3> QED BY <1>4, <2>2, <3>1
  <2> QED BY <1>2, <2>1, <2>3
<1>8. CASE Die(w) \/ QuitAgain(w) \/ QuitHide(w)
  <2>1. PICK pc \in {"quit", "dying"} : Goes(w, pc)
    BY <1>8 DEF Die, QuitAgain, QuitHide
  <2>2. /\ thread'[w].pc \in Leaving
        /\ \A u \in Windows \ {w} : thread'[u] = thread[u]
    BY <1>0, <2>1, ThreadGoes DEF Goes, Places
  <2>3. window[w].added /\ thread[w].pc \in {"idle"} \cup Leaving /\ UNCHANGED desktopVars
    BY <1>0, <1>8 DEF Die, QuitAgain, QuitHide, Idle, Always
  <2>4. /\ window'[w].added = window[w].added
        /\ \A u \in Windows \ {w} : window'[u] = window[u]
    BY <1>3, <1>8 DEF Die, QuitAgain, QuitHide
  <2>5. /\ PassesAs(w) \in {"open", "going"} /\ PassesAs(w)' = "going"
    BY <2>2, <2>3, <2>4 DEF PassesAs
  <2> QED BY <2>2, <2>3, <2>4, <2>5, ThreadSeen
<1>9. CASE WasUnlock(w)
  <2>1. /\ thread'[w].pc = "remove" /\ thread[w].pc = "dying"
        /\ \A u \in Windows \ {w} : thread'[u] = thread[u]
        /\ UNCHANGED <<desktopVars, window>>
    BY <1>0, <1>9 DEF WasUnlock, TypeOK
  <2>2. PassesAs(w)' = PassesAs(w)
    BY <2>1 DEF PassesAs
  <2> QED BY <2>1, <2>2, ThreadSeen
<1>10. CASE RemoveWindow(w)
  <2>1. /\ window' = [window EXCEPT ![w] = NoWindow]
        /\ thread' = [thread EXCEPT ![w] = IdleThread]
        /\ thread[w].pc = "remove" /\ UNCHANGED desktopVars
    BY <1>10 DEF RemoveWindow
  <2>2. ~NoWindow.added /\ NoWindow \in WindowTypes
    BY DEF NoWindow, WindowTypes
  <2>3. window'[w] = NoWindow /\ \A u \in Windows \ {w} : window'[u] = window[u]
    BY <1>0, <2>1, <2>2, OneWindowWritten
  <2>4. \A u \in Windows \ {w} : thread'[u] = thread[u]
    BY <2>1 DEF DesktopInv, TypeOK
  <2>5. PassesAs(w) = "going" /\ PassesAs(w)' = "none"
    BY <1>0, <2>1, <2>2, <2>3 DEF PassesAs, Always
  <2> QED BY <2>1, <2>3, <2>4, <2>5, ThreadSeen
<1> QED
  BY <1>1, <1>5, <1>6, <1>7, <1>8, <1>9, <1>10

LEMMA OrderRefined ==
  ASSUME DesktopInv, UnlockScreen \/ \E team \in Lockers : LockScreen(team)
  PROVE  LockStep
<1>1. ASSUME NEW ws \in SUBSET Windows, NEW h \in BOOLEAN,
             window' = window \/ SetHidden(ws, h), thread' = thread
      PROVE  \A w \in Lockers : PassesAs(w)' = PassesAs(w)
  <2>1. ASSUME NEW w \in Windows PROVE window'[w].added = window[w].added
    <3>1. window[w] \in WindowTypes
      BY EachWindow DEF DesktopInv
    <3>2. window'[w] \in {window[w], [window[w] EXCEPT !.hidden = h]}
      BY <1>1, HiddenWritten DEF DesktopInv
    <3> QED BY <3>1, <3>2 DEF WindowTypes
  <2> QED BY <1>1, <2>1 DEF PassesAs, Windows
<1>2. ASSUME NEW team \in Lockers, LockScreen(team) PROVE LockStep
  <2>1. /\ screenLocked' = TRUE /\ unlockTeam' = team /\ OnlyLocker(team)
        /\ thread' = thread
        /\ \/ window' = window
           \/ SetHidden({w \in Windows : Visible(w) /\ w # team}, TRUE)
    BY <1>2 DEF LockScreen
  <2>2. \A w \in Lockers : PassesAs(w)' = PassesAs(w)
    BY <1>1, <2>1
  <2>3. \A u \in Lockers \ {team} : PassesAs(u) # "open"
    BY <2>1 DEF OnlyLocker, PassesAs
  <2>4. Lock!Lock(team)
    BY <2>1, <2>2, <2>3 DEF Lock!Lock, Lock!OthersGo, PassesAs
  <2> QED BY <2>4 DEF LockStep, Lock!Next
<1>3. CASE UnlockScreen
  <2>1. /\ screenLocked /\ screenLocked' = FALSE /\ unlockTeam' = NoTeam
        /\ thread' = thread
        /\ SetHidden({w \in held : window[w].hidden}, FALSE)
    BY <1>3 DEF UnlockScreen
  <2>2. {w \in held : window[w].hidden} \in SUBSET Windows
    BY DEF DesktopInv, TypeOK
  <2>3. \A w \in Lockers : PassesAs(w)' = PassesAs(w)
    BY <1>1, <2>1, <2>2
  <2>4. Lock!Unlock
    BY <2>1, <2>3 DEF Lock!Unlock, PassesAs
  <2> QED BY <2>4 DEF LockStep, Lock!Next
<1> QED BY <1>2, <1>3

(* Seen from janus and its lockers, a Desktop is the lock they rely on:    *)
(* it changes its lock and its team on their orders only, and its windows  *)
(* come and go one thread at a time, whatever the others do.               *)
THEOREM DesktopIsLock == Spec => IsDesktopLock
<1>1. Init => Lock!Init
  BY DEF Init, Lock!Init, NoWindow, Windows
<1>2. DesktopInv /\ [Next]_vars => [Lock!Next]_(Lock!vars)
  <2> SUFFICES ASSUME DesktopInv, [Next]_vars PROVE LockStep
    BY DEF LockStep
  <2>1. CASE UNCHANGED vars
    BY <2>1 DEF LockStep, Lock!vars, vars, desktopVars
  <2> QED BY <2>1, ThreadRefined, OrderRefined DEF Next
<1> QED BY <1>1, <1>2, DesktopInvariant, PTL DEF Spec, IsDesktopLock, Lock!Spec
=============================================================================
