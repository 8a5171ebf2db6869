----------------------------- MODULE LockedDesktop -----------------------------
(***************************************************************************)
(* One Desktop of app_server and its windows under the screen lock         *)
(* (servers/app/Desktop.cpp).  The Desktop thread locks and unlocks the    *)
(* screen; every window has a thread of its own (ServerWindow.cpp) that    *)
(* shows, hides, minimizes and removes it when its client asks.            *)
(*                                                                         *)
(* fWindowLock guards what a window thread does to the Desktop: such a     *)
(* section is one action (module MultiLocker is about the lock itself).    *)
(* But ShowWindow(), HideWindow() and RemoveWindow() test before they take *)
(* the lock: the test and the section are two actions.  Focus, stacking,   *)
(* workspaces and drawing are left out; LockAllWindows() succeeds.         *)
(***************************************************************************)
EXTENDS FiniteSets

CONSTANTS
  AppWindows,  \* windows of the session
  Lockers,     \* unlock apps, each with one window, which has its name
  NoTeam       \* fUnlockTeam is -1

ASSUME WindowConstants ==
  /\ AppWindows \cap Lockers = {}
  /\ NoTeam \notin AppWindows \cup Lockers

Windows == AppWindows \cup Lockers

VARIABLES
  screenLocked, \* fScreenLocked
  unlockTeam,   \* fUnlockTeam
  held,         \* fLockHiddenWindows
  focusList,    \* the windows linked into fFocusList
  broken,       \* a window was linked twice or unlinked twice
  window,       \* Window -> fAllWindows, IsHidden(), IsMinimized(), show level
  thread,       \* Window -> place of its thread, and its local wasUnlock
  reported,     \* lockers whose loss was reported: B_JANUS_LOCKER_DIED
  raced,        \* history: windows whose thread had tested, and not yet
                \* locked, when the screen was locked or unlocked
  disturbed     \* history: windows whose client asked in vain while locked

desktopVars == <<screenLocked, unlockTeam>>
vars == <<desktopVars, held, focusList, broken, window, thread, reported, raced,
          disturbed>>

(* The places of a thread that is to delete its window. *)
Leaving == {"quit", "dying", "remove"}

TypeOK ==
  /\ screenLocked \in BOOLEAN
  /\ unlockTeam \in Lockers \cup {NoTeam}
  /\ held \subseteq Windows
  /\ focusList \subseteq Windows
  /\ broken \in BOOLEAN
  /\ window \in [Windows -> [added : BOOLEAN, hidden : BOOLEAN,
                             minimized : BOOLEAN, show : BOOLEAN]]
  /\ thread \in [Windows -> [pc : {"idle", "show", "hide"} \cup Leaving,
                             wasUnlock : BOOLEAN]]
  /\ reported \subseteq Lockers
  /\ raced \subseteq Windows /\ disturbed \subseteq Windows

NoWindow == [added |-> FALSE, hidden |-> TRUE, minimized |-> FALSE, show |-> FALSE]
IdleThread == [pc |-> "idle", wasUnlock |-> FALSE]

Init ==
  /\ screenLocked = FALSE /\ unlockTeam = NoTeam
  /\ held = {} /\ focusList = {} /\ broken = FALSE
  /\ window = [w \in Windows |-> NoWindow]
  /\ thread = [w \in Windows |-> IdleThread]
  /\ reported = {} /\ raced = {} /\ disturbed = {}

IsUnlockWindow(w) == w = unlockTeam
Visible(w) == window[w].added /\ ~window[w].hidden
Idle(w) == ~broken /\ window[w].added /\ thread[w].pc = "idle"
Goes(w, pc) == thread' = [thread EXCEPT ![w].pc = pc]

(* What is linked twice, or unlinked twice, breaks the list. *)
Link(ws) ==
  /\ focusList' = focusList \cup ws
  /\ broken' = (ws \cap focusList # {})
Unlink(ws) ==
  /\ focusList' = focusList \ ws
  /\ broken' = (~(ws \subseteq focusList))

SetHidden(ws, hidden) ==
  window' = [w \in Windows |->
               IF w \in ws THEN [window[w] EXCEPT !.hidden = hidden]
               ELSE window[w]]

-----------------------------------------------------------------------------
(* janus has one locker; the windows of a dead one go in their own time. *)
OnlyLocker(w) ==
  w \in Lockers =>
    \A u \in Lockers \ {w} : window[u].added => thread[u].pc \in Leaving

(* AddWindow(): a new window, perhaps where a deleted one was. *)
AddWindow(w) ==
  /\ ~broken /\ ~window[w].added
  /\ OnlyLocker(w)
  /\ window' = [window EXCEPT ![w] = [NoWindow EXCEPT !.added = TRUE]]
  /\ reported' = reported \ {w}
  /\ raced' = raced \ {w} /\ disturbed' = disturbed \ {w}
  /\ UNCHANGED <<desktopVars, held, focusList, broken, thread>>

-----------------------------------------------------------------------------
(* AS_SHOW_OR_HIDE_WINDOW: ServerWindow::_Show(), the tests of ShowWindow().*)

(* Mutant: the screen lock is not looked at. *)
ShowUntested(w) ==
  /\ Idle(w) /\ ~window[w].show
  /\ window' = [window EXCEPT ![w].show = TRUE]
  /\ IF window[w].minimized \/ ~window[w].hidden THEN UNCHANGED thread
     ELSE Goes(w, "show")
  /\ UNCHANGED <<desktopVars, held, focusList, broken, reported, raced, disturbed>>

Show(w) ==
  /\ Idle(w) /\ ~window[w].show
  /\ LET refused == screenLocked /\ ~IsUnlockWindow(w)
     IN /\ window' = [window EXCEPT ![w].show = TRUE]
        /\ IF window[w].minimized \/ ~window[w].hidden \/ refused
             THEN UNCHANGED thread
             ELSE Goes(w, "show")
        /\ disturbed' = IF refused THEN disturbed \cup {w} ELSE disturbed
  /\ UNCHANGED <<desktopVars, held, focusList, broken, reported, raced>>

(* The section of ShowWindow(). *)
ShowWindow(w) ==
  /\ ~broken /\ thread[w].pc = "show"
  /\ SetHidden({w}, FALSE)
  /\ Link({w})
  /\ Goes(w, "idle")
  /\ disturbed' = IF screenLocked THEN disturbed ELSE disturbed \ {w}
  /\ UNCHANGED <<desktopVars, held, reported, raced>>

(* AS_SHOW_OR_HIDE_WINDOW: ServerWindow::_Hide(), the test of HideWindow().*)
Hide(w) ==
  /\ w \in AppWindows
  /\ Idle(w) /\ window[w].show /\ ~window[w].minimized
  /\ window' = [window EXCEPT ![w].show = FALSE]
  /\ IF window[w].hidden THEN UNCHANGED thread ELSE Goes(w, "hide")
  /\ disturbed' = IF screenLocked THEN disturbed \cup {w} ELSE disturbed
  /\ UNCHANGED <<desktopVars, held, focusList, broken, reported, raced>>

(* The section of HideWindow(). *)
HideWindow(w) ==
  /\ ~broken /\ thread[w].pc = "hide"
  /\ SetHidden({w}, TRUE)
  /\ Unlink({w})
  /\ Goes(w, "idle")
  /\ disturbed' = IF screenLocked THEN disturbed ELSE disturbed \ {w}
  /\ UNCHANGED <<desktopVars, held, reported, raced>>

(* Mutant: IsHidden() is not looked at. *)
MinimizeUntested(w) ==
  /\ w \in AppWindows
  /\ Idle(w) /\ window[w].show /\ ~window[w].minimized
  /\ window' = [window EXCEPT ![w].hidden = TRUE, ![w].minimized = TRUE]
  /\ Unlink({w})
  /\ disturbed' = IF screenLocked THEN disturbed \cup {w} ELSE disturbed
  /\ UNCHANGED <<desktopVars, held, thread, reported, raced>>

(* AS_MINIMIZE_WINDOW: MinimizeWindow() tests with the lock held. *)
Minimize(w) ==
  /\ w \in AppWindows
  /\ Idle(w) /\ window[w].show /\ ~window[w].minimized
  /\ IF window[w].hidden
       THEN UNCHANGED <<window, focusList, broken>>
       ELSE /\ window' = [window EXCEPT ![w].hidden = TRUE, ![w].minimized = TRUE]
            /\ Unlink({w})
  /\ disturbed' = IF screenLocked THEN disturbed \cup {w} ELSE disturbed
  /\ UNCHANGED <<desktopVars, held, thread, reported, raced>>

(* It unminimizes through ActivateWindow() and ShowWindow(). *)
Unminimize(w) ==
  /\ w \in AppWindows
  /\ Idle(w) /\ window[w].show /\ window[w].minimized
  /\ IF screenLocked
       THEN /\ window' = [window EXCEPT ![w].minimized = FALSE]
            /\ UNCHANGED <<focusList, broken>>
       ELSE /\ window' = [window EXCEPT ![w].minimized = FALSE, ![w].hidden = FALSE]
            /\ Link({w})
  /\ disturbed' = IF screenLocked THEN disturbed \cup {w} ELSE disturbed
  /\ UNCHANGED <<desktopVars, held, thread, reported, raced>>

-----------------------------------------------------------------------------
(* The client closes the window, or is gone.  _PrepareQuit() makes sure    *)
(* that it is hidden: the test of HideWindow(), ...                        *)
Die(w) ==
  /\ Idle(w)
  /\ Goes(w, IF window[w].hidden THEN "dying" ELSE "quit")
  /\ UNCHANGED <<desktopVars, held, focusList, broken, window, reported, raced,
                 disturbed>>

(* ... which a window whose client was killed makes twice, here when that  *)
(* tells: for AS_INTERNAL_HIDE_WINDOW and in Quit(), ...                   *)
QuitAgain(w) ==
  /\ ~broken /\ thread[w].pc = "dying" /\ ~window[w].hidden
  /\ Goes(w, "quit")
  /\ UNCHANGED <<desktopVars, held, focusList, broken, window, reported, raced,
                 disturbed>>

(* ... and its section. *)
QuitHide(w) ==
  /\ ~broken /\ thread[w].pc = "quit"
  /\ SetHidden({w}, TRUE)
  /\ Unlink({w})
  /\ Goes(w, "dying")
  /\ UNCHANGED <<desktopVars, held, reported, raced, disturbed>>

(* Mutant: only a window that shows counts; _PrepareQuit() has hidden it. *)
WasShownUnlock(w) ==
  /\ ~broken /\ thread[w].pc = "dying"
  /\ thread' = [thread EXCEPT ![w] =
                  [pc |-> "remove",
                   wasUnlock |-> screenLocked /\ IsUnlockWindow(w) /\ Visible(w)]]
  /\ UNCHANGED <<desktopVars, held, focusList, broken, window, reported, raced,
                 disturbed>>

(* RemoveWindow() reads fScreenLocked and fUnlockTeam, ... *)
WasUnlock(w) ==
  /\ ~broken /\ thread[w].pc = "dying"
  /\ thread' = [thread EXCEPT ![w] =
                  [pc |-> "remove", wasUnlock |-> screenLocked /\ IsUnlockWindow(w)]]
  /\ UNCHANGED <<desktopVars, held, focusList, broken, window, reported, raced,
                 disturbed>>

(* ... then takes the lock. *)
AnyUnlockLeft(w) == \E u \in Windows \ {w} : IsUnlockWindow(u) /\ Visible(u)

(* Mutant: the window stays held. *)
RemoveWindowKeepsHold(w) ==
  /\ ~broken /\ thread[w].pc = "remove"
  /\ window' = [window EXCEPT ![w] = NoWindow]
  /\ IF window[w].hidden THEN UNCHANGED <<focusList, broken>> ELSE Unlink({w})
  /\ thread' = [thread EXCEPT ![w] = IdleThread]
  /\ reported' = IF thread[w].wasUnlock /\ ~AnyUnlockLeft(w)
                   THEN reported \cup {w} ELSE reported
  /\ UNCHANGED <<desktopVars, held, raced, disturbed>>

RemoveWindow(w) ==
  /\ ~broken /\ thread[w].pc = "remove"
  /\ held' = held \ {w}
  /\ window' = [window EXCEPT ![w] = NoWindow]
  /\ IF window[w].hidden THEN UNCHANGED <<focusList, broken>> ELSE Unlink({w})
  /\ thread' = [thread EXCEPT ![w] = IdleThread]
  /\ reported' = IF thread[w].wasUnlock /\ ~AnyUnlockLeft(w)
                   THEN reported \cup {w} ELSE reported
  /\ UNCHANGED <<desktopVars, raced, disturbed>>

-----------------------------------------------------------------------------
(* The Desktop thread: kMsgLockScreen and kMsgUnlockScreen. *)

Tested == {w \in Windows : thread[w].pc \in {"show", "hide", "quit", "remove"}}

(* Mutants: a second order collects again; the locker is hidden, too. *)
LockScreenAgain(team) ==
  /\ ~broken
  /\ OnlyLocker(team)
  /\ unlockTeam' = team
  /\ screenLocked' = TRUE
  /\ LET toHide == {w \in Windows : Visible(w) /\ w # team}
     IN held' = toHide /\ SetHidden(toHide, TRUE) /\ Unlink(toHide)
  /\ raced' = raced \cup Tested
  /\ UNCHANGED <<thread, reported, disturbed>>

LockScreenHidesAll(team) ==
  /\ ~broken
  /\ OnlyLocker(team)
  /\ unlockTeam' = team
  /\ screenLocked' = TRUE
  /\ LET toHide == {w \in Windows : Visible(w)}
     IN IF screenLocked
          THEN UNCHANGED <<held, window, focusList, broken>>
          ELSE held' = toHide /\ SetHidden(toHide, TRUE) /\ Unlink(toHide)
  /\ raced' = raced \cup Tested
  /\ UNCHANGED <<thread, reported, disturbed>>

LockScreen(team) ==
  /\ ~broken
  /\ OnlyLocker(team)
  /\ unlockTeam' = team
  /\ screenLocked' = TRUE
  /\ LET toHide == {w \in Windows : Visible(w) /\ w # team}
     IN IF screenLocked
          THEN UNCHANGED <<held, window, focusList, broken>>
          ELSE held' = toHide /\ SetHidden(toHide, TRUE) /\ Unlink(toHide)
  /\ raced' = raced \cup Tested
  /\ UNCHANGED <<thread, reported, disturbed>>

UnlockScreen ==
  /\ ~broken
  /\ screenLocked
  /\ screenLocked' = FALSE /\ unlockTeam' = NoTeam
  /\ LET toShow == {w \in held : window[w].hidden}
     IN SetHidden(toShow, FALSE) /\ Link(toShow)
  /\ held' = {}
  /\ raced' = raced \cup Tested
  /\ UNCHANGED <<thread, reported, disturbed>>

Next ==
  \/ \E w \in Windows :
       \/ AddWindow(w)
       \/ Show(w) \/ ShowWindow(w) \/ Hide(w) \/ HideWindow(w)
       \/ Minimize(w) \/ Unminimize(w)
       \/ Die(w) \/ QuitAgain(w) \/ QuitHide(w)
       \/ WasUnlock(w) \/ RemoveWindow(w)
  \/ \E team \in Lockers : LockScreen(team)
  \/ UnlockScreen

Spec == Init /\ [][Next]_vars

-----------------------------------------------------------------------------
(* While the screen is locked no window of the session is shown, except    *)
(* one whose ShowWindow() had passed its test when the lock came.          *)
NothingShowsWhileLocked ==
  screenLocked => \A w \in AppWindows \ raced : ~Visible(w)

(* The windows that UnlockScreen() will show are windows: none of them has *)
(* been deleted, or was replaced by a new one at its address.              *)
HeldWindowsLive ==
  /\ \A w \in held : window[w].added
  /\ ~screenLocked => held = {}

(* fFocusList survives: no window is linked or unlinked twice, unless a    *)
(* window thread had tested IsHidden() when the screen was locked or       *)
(* unlocked; its second RemoveWindow() then follows a NULL link.           *)
FocusListIntact ==
  \/ raced # {}
  \/ ~broken /\ focusList = {w \in Windows : Visible(w)}

(* Unlocked, every window is as its client asked, also if the lock came    *)
(* and went, a second order named another locker, or both.  Except what    *)
(* was asked while the screen was locked: it is lost.                      *)
WindowsAsAsked ==
  ~screenLocked =>
    \A w \in Windows \ (raced \cup disturbed) :
      Idle(w) => (Visible(w) <=> window[w].show /\ ~window[w].minimized)

(* A locker of the locked screen that asked to be shown is shown, unless   *)
(* it asked before the Desktop knew its team.                              *)
PromptIsShown ==
  screenLocked =>
    \A w \in Lockers \ (raced \cup disturbed) :
      w = unlockTeam /\ Idle(w) /\ window[w].show => Visible(w)

(* janus hears of it when the locker's window goes, unless it went while   *)
(* the order that named it was on its way.                                 *)
LockerLossReported ==
  [][\A w \in Lockers \ raced :
       screenLocked /\ w = unlockTeam /\ window[w].added /\ ~window'[w].added
         => w \in reported']_vars

(* Seen from janus and its lockers, the Desktop is the lock they rely on:  *)
(* it changes its lock and its team on their orders only, whatever its     *)
(* window threads do.                                                      *)
Lock == INSTANCE DesktopLock WITH
  locked <- screenLocked,
  team <- unlockTeam,
  window <- [w \in Lockers |->
               IF ~window[w].added THEN "none"
               ELSE IF thread[w].pc \in Leaving THEN "going"
               ELSE "open"]
IsDesktopLock == Lock!Spec
=============================================================================
