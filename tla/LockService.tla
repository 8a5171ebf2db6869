---------------------------- MODULE LockService ----------------------------
(***************************************************************************)
(* What the screen lock promises when app_server answers: janus asks for   *)
(* one change at a time, every Desktop makes it, janus records it only     *)
(* when all of them have, and no request stays open.  ScreenLock           *)
(* implements it.                                                          *)
(***************************************************************************)
CONSTANTS Desktops

VARIABLES
  recorded,  \* what janus thinks: the screen is locked
  request,   \* what it asks for
  locked     \* Desktop -> is it locked

vars == <<recorded, request, locked>>

Init ==
  /\ recorded = FALSE
  /\ request = "none"
  /\ locked = [d \in Desktops |-> FALSE]

(* Only a locked screen is unlocked; a locked one may be locked again. *)
Ask(what) ==
  /\ request = "none"
  /\ what = "unlock" => recorded
  /\ request' = what
  /\ UNCHANGED <<recorded, locked>>

Apply(d) ==
  /\ request # "none"
  /\ locked' = [locked EXCEPT ![d] = (request = "lock")]
  /\ UNCHANGED <<recorded, request>>

Record ==
  /\ request # "none"
  /\ \A d \in Desktops : locked[d] = (request = "lock")
  /\ recorded' = (request = "lock")
  /\ request' = "none"
  /\ UNCHANGED locked

Next ==
  \/ Ask("lock") \/ Ask("unlock")
  \/ \E d \in Desktops : Apply(d)
  \/ Record

Spec ==
  /\ Init /\ [][Next]_vars
  /\ WF_vars(Record) /\ \A d \in Desktops : WF_vars(Apply(d))
=============================================================================
