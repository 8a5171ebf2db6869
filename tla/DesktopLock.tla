---------------------------- MODULE DesktopLock ----------------------------
(***************************************************************************)
(* The screen lock as one Desktop has it, between janus, which orders, and *)
(* the unlock apps, whose windows come and go.  Two descriptions of a      *)
(* Desktop implement it: LockedDesktop, with its windows and threads, and  *)
(* ScreenLock, with the queues and mishaps that the orders go through.     *)
(* What one of them assumes of the other is in the guards: no order names  *)
(* a team, and no unlock app opens its window, while the window of another *)
(* one is there to stay.                                                   *)
(***************************************************************************)
CONSTANTS Lockers, NoTeam

VARIABLES
  locked,  \* the Desktop is locked
  team,    \* whom it lets through
  window   \* unlock app -> its window: none, open, or about to go

vars == <<locked, team, window>>

Init ==
  /\ locked = FALSE /\ team = NoTeam
  /\ window = [p \in Lockers |-> "none"]

OthersGo(p) == \A q \in Lockers \ {p} : window[q] # "open"
Becomes(p, from, to) ==
  /\ window[p] = from
  /\ window' = [window EXCEPT ![p] = to]
  /\ UNCHANGED <<locked, team>>

Open(p)  == OthersGo(p) /\ Becomes(p, "none", "open")
Go(p)    == Becomes(p, "open", "going")
Close(p) == Becomes(p, "going", "none")

(* A locked Desktop may be told to let another team through. *)
Lock(p) ==
  /\ OthersGo(p)
  /\ locked' = TRUE /\ team' = p
  /\ UNCHANGED window

Unlock ==
  /\ locked
  /\ locked' = FALSE /\ team' = NoTeam
  /\ UNCHANGED window

Next ==
  \/ \E p \in Lockers : Open(p) \/ Go(p) \/ Close(p) \/ Lock(p)
  \/ Unlock

Spec == Init /\ [][Next]_vars
=============================================================================
