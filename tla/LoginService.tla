---------------------------- MODULE LoginService ----------------------------
(***************************************************************************)
(* What the session manager promises of the sessions it opens: a user's    *)
(* desktop is paid for with one check of that user's password, or it is    *)
(* the session that the machine is configured to start with; nothing pays  *)
(* twice; a session stays its user's and does not come back; and one is    *)
(* open at a time, unless a change of the session began while another was  *)
(* under way.  JanusSession implements it.                                 *)
(***************************************************************************)
EXTENDS Naturals, Sequences

CONSTANTS
  Users,       \* accounts that may log in
  LiveUser,    \* the one that needs no password
  Greeter,     \* whose session asks for them
  NoUser,      \* the user of a session that is not open yet
  Sessions,    \* the sessions that may ever be opened
  Nothing,     \* what a session without a check rests on
  Configured   \* what the first one may rest on

VARIABLES
  checks,      \* the users whose password was verified, in order
  state,       \* session -> "none" before it opens, "open", "closed"
  user,        \* session -> whose desktop it is
  paid,        \* session -> what paid for it
  overlapped   \* two changes were under way at once

vars == <<checks, state, user, paid, overlapped>>

Init ==
  /\ checks = <<>>
  /\ state = [s \in Sessions |-> "none"]
  /\ user = [s \in Sessions |-> NoUser]
  /\ paid = [s \in Sessions |-> Nothing]
  /\ overlapped = FALSE

Check(u) ==
  /\ checks' = Append(checks, u)
  /\ UNCHANGED <<state, user, paid, overlapped>>

(* A check pays for its own user, once; so does the configuration, once,   *)
(* for whom it names.                                                      *)
Pays(f, u) ==
  \/ f = Nothing /\ u \in {LiveUser, Greeter}
  \/ /\ f = Configured \/ (f \in DOMAIN checks /\ checks[f] = u)
     /\ \A s \in Sessions : paid[s] # f

Open(s) ==
  /\ state[s] = "none"
  /\ state' = [state EXCEPT ![s] = "open"]
  /\ overlapped \/ \A other \in Sessions : state[other] # "open"
  /\ \E u \in Users \cup {Greeter},
        f \in DOMAIN checks \cup {Nothing, Configured} :
       /\ Pays(f, u)
       /\ user' = [user EXCEPT ![s] = u]
       /\ paid' = [paid EXCEPT ![s] = f]
  /\ UNCHANGED <<checks, overlapped>>

Close(s) ==
  /\ state[s] = "open"
  /\ state' = [state EXCEPT ![s] = "closed"]
  /\ UNCHANGED <<checks, user, paid, overlapped>>

Overlap ==
  /\ overlapped' = TRUE
  /\ UNCHANGED <<checks, state, user, paid>>

Next ==
  \/ \E s \in Sessions : Open(s) \/ Close(s)
  \/ \E u \in Users : Check(u)
  \/ Overlap

Spec == Init /\ [][Next]_vars
=============================================================================
