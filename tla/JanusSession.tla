---------------------------- MODULE JanusSession ----------------------------
(***************************************************************************)
(* The session manager in janus, the supervisor (servers/janus/janus.cpp). *)
(* One janus_session process at a time owns the seat: the greeter's, or    *)
(* that of the user who logged in.  The launch daemon thread answers the   *)
(* messages of the login port one after the other; every switch of         *)
(* session it accepts runs in a detached thread of its own, which stops    *)
(* the old janus_session, forks the new one and records it in sSession.    *)
(*                                                                         *)
(* Threads meet in sSession (under sSessionLock) and in the process table. *)
(* Each action is one critical section or one step between two of them.    *)
(* Accounts are not removed while janus runs, and a pid is not reused.     *)
(***************************************************************************)
EXTENDS Naturals, Sequences

CONSTANTS
  Users,        \* accounts that may log in
  LiveUser,     \* the live persona "vos-live", one of Users
  Greeter,      \* "vos_login", the account of the login screen
  NoUser,       \* the empty user name, and uid -1
  Pids,         \* pids of the janus_session processes
  NoPid,        \* pid -1, and the empty control port name
  Threads,      \* the transition threads pthread_create() can supply
  PortSize,     \* capacity of the launch daemon port
  MaxPasswords, \* bound: successful password checks
  Events        \* the events from outside that an instance considers

ASSUME ConstantsAssumption ==
  /\ LiveUser \in Users
  /\ Greeter \notin Users
  /\ NoUser \notin Users \cup {Greeter}
  /\ NoPid \notin Pids
  /\ PortSize \in Nat
  /\ MaxPasswords \in Nat
  /\ Events \subseteq {"crash", "forkFails", "prepareForShutdown",
                       "shutdownFinished", "sigterm"}

Personas == Users \cup {Greeter}

VARIABLES
  session,      \* sSession
  auth,         \* sAuthenticatedUser
  port,         \* messages waiting at sLaunchPort
  daemon,       \* the launch daemon thread: its place in a handler, locals
  shuttingDown, \* sShuttingDown
  shutdownInFlight, \* sShutdownInFlight
  main,         \* the main thread: sRunning and the exit path
  trans,        \* transition thread -> its place and its locals
  proc,         \* pid -> state of that janus_session process
  ident,        \* pid -> the persona the process was forked for
  hello,        \* pid -> how far its HELLO got
  passwords,    \* history: the users whose password was verified, in order
  proof,        \* history: pid -> which of them the process was forked on
  overlapped    \* history: a session change began while one was under way

vars == <<session, auth, port, daemon, shuttingDown, shutdownInFlight, main,
          trans, proc, ident, hello, passwords, proof, overlapped>>

history == <<passwords, proof, overlapped>>
processes == <<proc, ident, hello>>

Messages ==
  [what : {"logout"}, uid : Personas]
    \cup [what : {"auth"}, uid : Personas, user : Users]
    \cup [what : {"loginOk"}, uid : Personas, user : Users, live : BOOLEAN]
    \cup [what : {"hello"}, pid : Pids]
    \cup [what : {"shutdownFinished"}]

(* What a session change rests on: the n-th verified password, the         *)
(* machine's configuration (the first session), or nothing.                *)
Nothing == 0
Configured == MaxPasswords + 1
Proofs == Nothing .. Configured

SessionRecords ==
  [pid : Pids \cup {NoPid}, user : Personas \cup {NoUser},
   uid : Personas \cup {NoUser}, greeter : BOOLEAN, control : Pids \cup {NoPid}]

TransitionRecords ==
  [pc : {"none", "start", "wait", "fork", "publish"},
   user : Personas \cup {NoUser}, greeter : BOOLEAN,
   old : Pids \cup {NoPid}, new : Pids \cup {NoPid}, proof : Proofs]

TypeOK ==
  /\ session \in SessionRecords
  /\ auth \in [user : Users \cup {NoUser}, proof : Proofs]
  /\ port \in Seq(Messages) /\ Len(port) <= PortSize
  /\ daemon \in [pc : {"idle", "logout", "shutdownWait", "kernShutdown"},
                 old : Pids \cup {NoPid}]
  /\ shuttingDown \in BOOLEAN
  /\ shutdownInFlight \in BOOLEAN
  /\ main \in [pc : {"loop", "stopping", "wait", "exited"},
               old : Pids \cup {NoPid}]
  /\ trans \in [Threads -> TransitionRecords]
  /\ proc \in [Pids -> {"unborn", "up", "stopping", "dead"}]
  /\ ident \in [Pids -> Personas \cup {NoUser}]
  /\ hello \in [Pids -> {"unsent", "sent", "handled"}]
  /\ passwords \in Seq(Users) /\ Len(passwords) <= MaxPasswords
  /\ proof \in [Pids -> Proofs]
  /\ overlapped \in BOOLEAN

-----------------------------------------------------------------------------
NoTransition == [pc |-> "none", user |-> NoUser, greeter |-> FALSE,
                 old |-> NoPid, new |-> NoPid, proof |-> Nothing]
Transition(user, greeter, pf) ==
  [NoTransition EXCEPT !.pc = "start", !.user = user, !.greeter = greeter,
                       !.proof = pf]
NoAuth == [user |-> NoUser, proof |-> Nothing]
IdleDaemon == [pc |-> "idle", old |-> NoPid]

InTransition(t) == trans[t].pc # "none"
Alive(p) == proc[p] \in {"up", "stopping"}

(* Processes of janus still run, so its threads do. *)
Running == main.pc # "exited"

(* main() starts the first session the way every later one is started,     *)
(* unless /run/vos/shutting-down says that the machine is going down.      *)
Init ==
  /\ session = [pid |-> NoPid, user |-> NoUser, uid |-> NoUser,
                greeter |-> FALSE, control |-> NoPid]
  /\ auth = NoAuth
  /\ port = <<>>
  /\ daemon = IdleDaemon
  /\ shuttingDown = FALSE
  /\ shutdownInFlight = FALSE
  /\ main = [pc |-> "loop", old |-> NoPid]
  /\ \/ trans = [t \in Threads |-> NoTransition]
     \/ \E t \in Threads, u \in Personas :
          trans = [x \in Threads |->
                     IF x = t THEN Transition(u, u = Greeter, Configured)
                              ELSE NoTransition]
  /\ proc = [p \in Pids |-> "unborn"]
  /\ ident = [p \in Pids |-> NoUser]
  /\ hello = [p \in Pids |-> "unsent"]
  /\ passwords = <<>>
  /\ proof = [p \in Pids |-> Nothing]
  /\ overlapped = FALSE

-----------------------------------------------------------------------------
(* The processes of a session and what they send to the launch port.       *)

Send(m) ==
  /\ Len(port) < PortSize
  /\ port' = Append(port, m)
  /\ UNCHANGED <<session, auth, daemon, shuttingDown, shutdownInFlight, main,
                 trans, proc, ident, history>>

(* janus_session's main() sends it once, fire and forget. *)
SendHello(p) ==
  /\ Alive(p)
  /\ hello[p] = "unsent"
  /\ hello' = [hello EXCEPT ![p] = "sent"]
  /\ Send([what |-> "hello", pid |-> p])

(* The registrar of a login, at the end of its quit dance. *)
SendLogout(p) ==
  /\ Alive(p) /\ ident[p] \in Users
  /\ Send([what |-> "logout", uid |-> ident[p]])
  /\ UNCHANGED hello

SendShutdownFinished(p) ==
  /\ "shutdownFinished" \in Events
  /\ Alive(p)
  /\ Send([what |-> "shutdownFinished"])
  /\ UNCHANGED hello

(* vitruvian-login, in the greeter's session. *)
SendAuth(p, u) ==
  /\ Alive(p) /\ ident[p] = Greeter
  /\ Send([what |-> "auth", uid |-> Greeter, user |-> u])
  /\ UNCHANGED hello

(* vitruvian-login, and FirstBootPrompt for the live persona. *)
SendLoginOk(p, u, live) ==
  /\ Alive(p) /\ ident[p] = Greeter
  /\ live => u = LiveUser
  /\ Send([what |-> "loginOk", uid |-> Greeter, user |-> u, live |-> live])
  /\ UNCHANGED hello

(* A janus_session ends: after SIGTERM, or crashing without one.  One that *)
(* hangs in its teardown may never do so by itself.                        *)
ProcessEnds(p) ==
  /\ proc[p] = "stopping" \/ (proc[p] = "up" /\ "crash" \in Events)
  /\ proc' = [proc EXCEPT ![p] = "dead"]
  /\ UNCHANGED <<session, auth, port, daemon, shuttingDown, shutdownInFlight,
                 main, trans, ident, hello, history>>

-----------------------------------------------------------------------------
(* terminate_and_wait_session(): SIGTERM, then SIGKILL after five seconds. *)

Terminate(table, p) ==
  IF p \in Pids /\ table[p] = "up" THEN [table EXCEPT ![p] = "stopping"]
                                   ELSE table

SignalledOnly(p) == p \in Pids => proc[p] # "up"
Gone(p) == p \in Pids => proc[p] = "dead"

KillAfterTimeout(p) ==
  /\ p \in Pids /\ Alive(p)
  /\ proc' = [proc EXCEPT ![p] = "dead"]

-----------------------------------------------------------------------------
(* The launch daemon thread.  It takes the next message while sRunning, or *)
(* a last one read just before that was cleared.                           *)

Receive(what) ==
  /\ main.pc # "exited"
  /\ daemon.pc = "idle"
  /\ port # <<>>
  /\ Head(port).what = what
  /\ port' = Tail(port)

(* spawn_session_transition(); with no thread left the change is dropped.  *)
Spawn(user, greeter, pf) ==
  /\ IF \E t \in Threads : ~InTransition(t)
       THEN \E t \in Threads :
              /\ ~InTransition(t)
              /\ trans' = [trans EXCEPT ![t] = Transition(user, greeter, pf)]
       ELSE UNCHANGED trans
  /\ overlapped' = (\/ overlapped
                    \/ main.pc # "loop"
                    \/ \E t \in Threads : InTransition(t))

(* handle_logout() judges the sender by a copy of sSession, ... *)
HandleLogoutRead ==
  /\ Receive("logout")
  /\ daemon' = IF \/ shuttingDown
                  \/ session.greeter
                  \/ session.uid # Head(port).uid
                 THEN daemon
                 ELSE [daemon EXCEPT !.pc = "logout"]
  /\ UNCHANGED <<session, auth, shuttingDown, shutdownInFlight, main, trans,
                 processes, history>>

(* Mutant of HandleLogoutDecide: the configured session comes again.       *)
LogoutLogsInAgain ==
  /\ Running
  /\ daemon.pc = "logout"
  /\ daemon' = IdleDaemon
  /\ IF shutdownInFlight THEN UNCHANGED <<trans, overlapped>>
                         ELSE Spawn(LiveUser, FALSE, Configured)
  /\ UNCHANGED <<session, auth, port, shuttingDown, shutdownInFlight, main,
                 processes, passwords, proof>>

(* ... and acts on that after the lock was released. *)
HandleLogoutDecide ==
  /\ Running
  /\ daemon.pc = "logout"
  /\ daemon' = IdleDaemon
  /\ IF shutdownInFlight THEN UNCHANGED <<trans, overlapped>>
                         ELSE Spawn(Greeter, TRUE, Nothing)
  /\ UNCHANGED <<session, auth, port, shuttingDown, shutdownInFlight, main,
                 processes, passwords, proof>>

(* handle_auth_request(): PAM accepts the password or it does not. *)
HandleAuthRequest ==
  /\ Receive("auth")
  /\ \/ /\ shuttingDown \/ Head(port).uid # Greeter
        /\ UNCHANGED <<auth, passwords>>
     \/ /\ ~shuttingDown /\ Head(port).uid = Greeter
        /\ auth' = NoAuth
        /\ UNCHANGED passwords
     \/ /\ ~shuttingDown /\ Head(port).uid = Greeter
        /\ Len(passwords) < MaxPasswords
        /\ passwords' = Append(passwords, Head(port).user)
        /\ auth' = [user |-> Head(port).user, proof |-> Len(passwords) + 1]
  /\ UNCHANGED <<session, daemon, shuttingDown, shutdownInFlight, main, trans,
                 processes, proof, overlapped>>

(* An AUTH is good for one LOGIN_OK, whether that one succeeds or not.     *)
KeepAuth == UNCHANGED auth
ConsumeAuth == auth' = NoAuth

(* handle_login_ok(): the live persona needs to be enabled on this root;   *)
(* every other user needs a matching AUTH no older than thirty seconds,    *)
(* which is used up.                                                       *)
HandleLoginOk ==
  /\ Receive("loginOk")
  /\ LET m == Head(port)
     IN  \/ /\ shuttingDown \/ m.uid # Greeter
            /\ UNCHANGED <<auth, trans, overlapped>>
         \/ /\ ~shuttingDown /\ m.uid = Greeter
            /\ m.live /\ m.user = LiveUser
            /\ UNCHANGED auth
            /\ \/ UNCHANGED <<trans, overlapped>>
               \/ Spawn(m.user, FALSE, Nothing)
         \/ /\ ~shuttingDown /\ m.uid = Greeter
            /\ ~(m.live /\ m.user = LiveUser)
            /\ ConsumeAuth
            /\ \/ UNCHANGED <<trans, overlapped>>
               \/ auth.user = m.user /\ Spawn(m.user, FALSE, auth.proof)
  /\ UNCHANGED <<session, daemon, shuttingDown, shutdownInFlight, main,
                 processes, passwords, proof>>

(* handle_session_hello(): only the recorded session's own HELLO counts.   *)
FromAnySession(p) == p \in Pids
FromSession(p) == p = session.pid

HandleSessionHello ==
  /\ Receive("hello")
  /\ LET p == Head(port).pid
     IN  /\ hello' = [hello EXCEPT ![p] = "handled"]
         /\ session' = IF FromSession(p)
                         THEN [session EXCEPT !.control = p,
                                              !.uid = ident[p],
                                              !.greeter = (ident[p] = Greeter)]
                         ELSE session
  /\ UNCHANGED <<auth, daemon, shuttingDown, shutdownInFlight, main, trans,
                 proc, ident, history>>

(* janus_handle_shutdown(): take the session out of sSession and stop it,  *)
HandleShutdownFinished ==
  /\ Receive("shutdownFinished")
  /\ shuttingDown' = TRUE
  /\ daemon' = [daemon EXCEPT !.pc = "shutdownWait", !.old = session.pid]
  /\ session' = [session EXCEPT !.pid = NoPid]
  /\ proc' = Terminate(proc, session.pid)
  /\ overlapped' = (\/ overlapped
                    \/ main.pc # "loop"
                    \/ \E t \in Threads : InTransition(t))
  /\ UNCHANGED <<auth, shutdownInFlight, main, trans, ident, hello, passwords,
                 proof>>

ShutdownKill ==
  /\ Running
  /\ daemon.pc = "shutdownWait"
  /\ KillAfterTimeout(daemon.old)
  /\ UNCHANGED <<session, auth, port, daemon, shuttingDown, shutdownInFlight,
                 main, trans, ident, hello, history>>

ShutdownWaited ==
  /\ Running
  /\ daemon.pc = "shutdownWait"
  /\ Gone(daemon.old)
  /\ daemon' = [pc |-> "kernShutdown", old |-> NoPid]
  /\ UNCHANGED <<session, auth, port, shuttingDown, shutdownInFlight, main,
                 trans, processes, history>>

(* then _kern_shutdown(), which may fail. *)
KernShutdown ==
  /\ Running
  /\ daemon.pc = "kernShutdown"
  /\ daemon' = IdleDaemon
  /\ \/ UNCHANGED shuttingDown
     \/ shuttingDown' = FALSE
  /\ UNCHANGED <<session, auth, port, shutdownInFlight, main, trans,
                 processes, history>>

(* logind_watch_thread(), on PrepareForShutdown(true). *)
PrepareForShutdown ==
  /\ "prepareForShutdown" \in Events
  /\ Running
  /\ ~shutdownInFlight
  /\ shutdownInFlight' = TRUE
  /\ UNCHANGED <<session, auth, port, daemon, shuttingDown, main, trans,
                 processes, history>>

-----------------------------------------------------------------------------
(* session_transition_thread(). *)

TransitionForgetsOld(t) ==
  /\ Running
  /\ trans[t].pc = "start"
  /\ trans' = [trans EXCEPT ![t].pc = "wait"]
  /\ UNCHANGED <<session, auth, port, daemon, shuttingDown, shutdownInFlight,
                 main, processes, history>>

TransitionStart(t) ==
  /\ Running
  /\ trans[t].pc = "start"
  /\ trans' = [trans EXCEPT ![t].pc = "wait", ![t].old = session.pid]
  /\ proc' = Terminate(proc, session.pid)
  /\ UNCHANGED <<session, auth, port, daemon, shuttingDown, shutdownInFlight,
                 main, ident, hello, history>>

TransitionNoKill(t) == trans[t].pc = "wait" /\ UNCHANGED vars
TransitionKill(t) ==
  /\ Running
  /\ trans[t].pc = "wait"
  /\ KillAfterTimeout(trans[t].old)
  /\ UNCHANGED <<session, auth, port, daemon, shuttingDown, shutdownInFlight,
                 main, trans, ident, hello, history>>

TransitionWaited(t) ==
  /\ Running
  /\ trans[t].pc = "wait"
  /\ Gone(trans[t].old)
  /\ trans' = [trans EXCEPT ![t].pc = "fork", ![t].old = NoPid]
  /\ UNCHANGED <<session, auth, port, daemon, shuttingDown, shutdownInFlight,
                 main, processes, history>>

TransitionFork(t) ==
  /\ Running
  /\ trans[t].pc = "fork"
  /\ \E p \in Pids :
       /\ proc[p] = "unborn"
       /\ proc' = [proc EXCEPT ![p] = "up"]
       /\ ident' = [ident EXCEPT ![p] = trans[t].user]
       /\ proof' = [proof EXCEPT ![p] = trans[t].proof]
       /\ trans' = [trans EXCEPT ![t].pc = "publish", ![t].new = p,
                                 ![t].proof = Nothing]
  /\ UNCHANGED <<session, auth, port, daemon, shuttingDown, shutdownInFlight,
                 main, hello, passwords, overlapped>>

TransitionForkFails(t) ==
  /\ "forkFails" \in Events \/ \A p \in Pids : proc[p] # "unborn"
  /\ Running
  /\ trans[t].pc = "fork"
  /\ trans' = [trans EXCEPT ![t].pc = "publish", ![t].new = NoPid,
                            ![t].proof = Nothing]
  /\ UNCHANGED <<session, auth, port, daemon, shuttingDown, shutdownInFlight,
                 main, processes, history>>

NewSession(t) ==
  [pid |-> trans[t].new, user |-> trans[t].user, uid |-> trans[t].user,
   greeter |-> trans[t].greeter, control |-> NoPid]

TransitionPublish(t) ==
  /\ Running
  /\ trans[t].pc = "publish"
  /\ session' = NewSession(t)
  /\ trans' = [trans EXCEPT ![t] = NoTransition]
  /\ UNCHANGED <<auth, port, daemon, shuttingDown, shutdownInFlight, main,
                 processes, history>>

TransitionStep(t) ==
  \/ TransitionStart(t) \/ TransitionKill(t) \/ TransitionWaited(t)
  \/ TransitionFork(t) \/ TransitionForkFails(t) \/ TransitionPublish(t)

-----------------------------------------------------------------------------
(* The main thread: SIGTERM or SIGINT ends daemon_loop(). *)

SigTerm ==
  /\ "sigterm" \in Events
  /\ main.pc = "loop"
  /\ main' = [main EXCEPT !.pc = "stopping"]
  /\ UNCHANGED <<session, auth, port, daemon, shuttingDown, shutdownInFlight,
                 trans, processes, history>>

MainTakesSession ==
  /\ main.pc = "stopping"
  /\ main' = [pc |-> "wait", old |-> session.pid]
  /\ session' = [session EXCEPT !.pid = NoPid]
  /\ proc' = Terminate(proc, session.pid)
  /\ overlapped' = (\/ overlapped
                    \/ daemon.pc # "idle"
                    \/ \E t \in Threads : InTransition(t))
  /\ UNCHANGED <<auth, port, daemon, shuttingDown, shutdownInFlight, trans,
                 ident, hello, passwords, proof>>

MainKill ==
  /\ main.pc = "wait"
  /\ KillAfterTimeout(main.old)
  /\ UNCHANGED <<session, auth, port, daemon, shuttingDown, shutdownInFlight,
                 main, trans, ident, hello, history>>

(* main() returns; every thread of janus ends with it. *)
MainExits ==
  /\ main.pc = "wait"
  /\ Gone(main.old)
  /\ main' = [main EXCEPT !.pc = "exited"]
  /\ UNCHANGED <<session, auth, port, daemon, shuttingDown, shutdownInFlight,
                 trans, processes, history>>

-----------------------------------------------------------------------------
SessionStep(p) ==
  \/ SendHello(p) \/ SendLogout(p) \/ SendShutdownFinished(p)
  \/ \E u \in Users : SendAuth(p, u)
  \/ \E u \in Users, live \in BOOLEAN : SendLoginOk(p, u, live)
  \/ ProcessEnds(p)

DaemonStep ==
  \/ HandleLogoutRead \/ HandleLogoutDecide \/ HandleAuthRequest
  \/ HandleLoginOk \/ HandleSessionHello \/ HandleShutdownFinished
  \/ ShutdownKill \/ ShutdownWaited \/ KernShutdown

MainStep == SigTerm \/ MainTakesSession \/ MainKill \/ MainExits

Next ==
  \/ \E p \in Pids : SessionStep(p)
  \/ DaemonStep
  \/ PrepareForShutdown
  \/ \E t \in Threads : TransitionStep(t)
  \/ MainStep

Spec == Init /\ [][Next]_vars

(* The kernel runs every transition thread of a janus that lives.  Nothing *)
(* is assumed of the janus_session processes: one may hang in its teardown.*)
FairSpec == Spec /\ \A t \in Threads : WF_vars(TransitionStep(t))

-----------------------------------------------------------------------------
IsPassword(f) == f \notin {Nothing, Configured}

(* Every desktop of a user was opened on that user's own password, checked *)
(* once for this desktop: an AUTH pays for one LOGIN_OK, whatever other    *)
(* AUTHs, expiries and transitions ran in between.  Only the first session *)
(* (autologin), the live persona and the greeter open without one.         *)
OnePasswordPerSession ==
  \A p \in Pids :
    proc[p] # "unborn" =>
      /\ ident[p] \in Users \ {LiveUser} => proof[p] # Nothing
      /\ IsPassword(proof[p]) =>
           /\ proof[p] \in DOMAIN passwords
           /\ passwords[proof[p]] = ident[p]
           /\ \A q \in Pids : proof[q] = proof[p] => q = p

(* sSession describes one process: the user, uid and greeter flag recorded *)
(* are those its janus_session was forked for, and the control port is     *)
(* never one an earlier session left behind, although HELLOs arrive late   *)
(* and several threads write the record.                                   *)
SessionCoherent ==
  /\ session.pid # NoPid =>
       /\ session.user = ident[session.pid]
       /\ session.uid = session.user
       /\ session.greeter = (session.user = Greeter)
       /\ session.control \in {session.pid, NoPid}
  /\ session.control # NoPid => session.user = ident[session.control]

(* "Two janus_sessions alive at once would race libseat over the seat."    *)
OneSessionAlive == \A p, q \in Pids : Alive(p) /\ Alive(q) => p = q

(* The same, as far as the code ensures it: as long as no session change   *)
(* starts before the last one is finished.                                 *)
OneSessionWithoutOverlap == overlapped \/ OneSessionAlive

(* What LoginService sees of a janus_session: it is open until it is dead. *)
Stage == [p \in Pids |-> IF proc[p] = "unborn" THEN "none"
                         ELSE IF proc[p] = "dead" THEN "closed" ELSE "open"]

(* janus and its processes keep the promise of LoginService: every step    *)
(* opens a desktop that is paid for with one check of its user's password, *)
(* with the configuration or with nothing where none is due, or closes     *)
(* one, or leaves both as they are.                                        *)
Service == INSTANCE LoginService WITH
  Sessions <- Pids, checks <- passwords, state <- Stage, user <- ident,
  paid <- proof
IsLoginService == Service!Spec

(* A session change that started is recorded in the end, even when the old *)
(* janus_session hangs, unless janus itself exits.                         *)
TransitionsFinish ==
  \A t \in Threads, u \in Personas :
    (trans[t].pc = "start" /\ trans[t].user = u)
      ~> (session.user = u \/ main.pc = "exited")

-----------------------------------------------------------------------------
(* The inductive strengthenings the proofs use. *)

(* What a thread is about to publish describes the process it forked. *)
CoherenceInv ==
  /\ SessionCoherent
  /\ \A t \in Threads :
       InTransition(t) =>
         /\ trans[t].user \in Personas
         /\ trans[t].greeter = (trans[t].user = Greeter)
  /\ \A t \in Threads :
       trans[t].pc = "publish" /\ trans[t].new # NoPid =>
         /\ proc[trans[t].new] # "unborn"
         /\ ident[trans[t].new] = trans[t].user
  /\ session.pid # NoPid => proc[session.pid] # "unborn"
  /\ session.control # NoPid => proc[session.control] # "unborn"

(* The configured session comes once: the thread that main() started has   *)
(* its proof, or one process does, or neither.                             *)
ConfiguredInv ==
  /\ auth.proof # Configured
  /\ \A t, u \in Threads :
       trans[t].proof = Configured /\ trans[u].proof = Configured => u = t
  /\ \A p \in Pids :
       proof[p] = Configured =>
         /\ \A t \in Threads : trans[t].proof # Configured
         /\ \A q \in Pids : proof[q] = Configured => q = p

(* A password's number in the list stands for its user. *)
Vouches(list, f, u) ==
  IsPassword(f) => f \in DOMAIN list /\ list[f] = u

NeedsProof(u) == u \in Users \ {LiveUser}

(* Each verified password is in at most one place: the authentication that *)
(* waits for its LOGIN_OK, a thread that has not forked, or a session.     *)
PasswordInv ==
  /\ Vouches(passwords, auth.proof, auth.user)
  /\ auth.user # NoUser => IsPassword(auth.proof)
  /\ \A t \in Threads :
       /\ Vouches(passwords, trans[t].proof, trans[t].user)
       /\ trans[t].pc \in {"start", "wait", "fork"} /\ NeedsProof(trans[t].user)
            => trans[t].proof # Nothing
       /\ IsPassword(trans[t].proof) => trans[t].proof # auth.proof
       /\ \A u \in Threads :
            IsPassword(trans[t].proof) /\ trans[u].proof = trans[t].proof
              => u = t
  /\ \A p \in Pids :
       /\ proc[p] = "unborn" => proof[p] = Nothing
       /\ proc[p] # "unborn" /\ NeedsProof(ident[p]) => proof[p] # Nothing
       /\ Vouches(passwords, proof[p], ident[p])
       /\ IsPassword(proof[p]) =>
            /\ proof[p] # auth.proof
            /\ \A t \in Threads : trans[t].proof # proof[p]
            /\ \A q \in Pids : proof[q] = proof[p] => q = p
=============================================================================
