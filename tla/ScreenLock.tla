------------------------------ MODULE ScreenLock ------------------------------
(***************************************************************************)
(* The screen lock.  janus decides when the screen is locked and who may   *)
(* unlock it (servers/janus/janus.cpp); app_server passes the decision on  *)
(* to its Desktops and collects their answers (servers/app/AppServer.cpp); *)
(* each Desktop applies it on its own thread (servers/app/Desktop.cpp);    *)
(* the locker, a process janus forks, shows the only window a locked       *)
(* Desktop lets through (apps/vitruvian-login).                            *)
(*                                                                         *)
(* One session is under way and its user has a password: the requests that *)
(* janus refuses (wrong sender, no password, automatic for an autologin    *)
(* user, rate limit) change nothing and are left out, as are the counters  *)
(* of the rate limit, which can only refuse.  LockAllWindows() succeeds.   *)
(* The Desktops are there when the session locks: one that AS_GET_DESKTOP  *)
(* creates for another user while the screen is locked is left out.        *)
(***************************************************************************)
EXTENDS Naturals, SequencesExt

CONSTANTS
  Desktops,     \* the Desktops of app_server
  Home,         \* the Desktop that shows the session's windows
  Lockers,      \* pids of the unlock apps
  NoLocker,     \* pid -1, and team -1
  Requests,     \* bound: the lock requests that can be on their way at once
  NoRequest,    \* no request
  MaxDied,      \* bound: LOCKER_DIED reports waiting at janus
  Events        \* the mishaps that an instance considers

ASSUME LockConstants ==
  /\ Home \in Desktops
  /\ IsFiniteSet(Desktops)
  /\ NoLocker \notin Lockers
  /\ NoRequest \notin Requests
  /\ MaxDied \in Nat
  /\ Events \subseteq {"timeout", "notSent", "portFull", "launchFails",
                       "crash", "earlyCrash", "earlyWindow", "quickRelock"}

VARIABLES
  screenLocked,   \* janus: sScreenLocked
  unlockApp,      \* janus: sUnlockAppPid
  daemon,         \* janus: the handler that waits for app_server, and its request
  typist,         \* janus: who waits for the reply to UNLOCK_AUTH
  died,           \* janus: LOCKER_DIED reports waiting at the launch port
  answer,         \* the reply to the request the daemon waits for
  appPort,        \* messages waiting at AppServer
  broker,         \* AppServer: fLockRequest and fLockPending
  desktop,        \* Desktop -> port, fScreenLocked, fUnlockTeam
  locker,         \* pid -> process and window of that unlock app
  applied,        \* history: the Desktops that applied the daemon's request
  last            \* history: the last request and whether janus saw it succeed

janus == <<screenLocked, unlockApp, daemon, typist, died>>
server == <<appPort, broker>>
vars == <<screenLocked, unlockApp, daemon, typist, died, answer, appPort, broker,
          desktop, locker, applied, last>>

Orders == [what : {"lock", "unlock"}, req : Requests,
           team : Lockers \cup {NoLocker}]
LockDone == [what |-> "done"]

TypeOK ==
  /\ screenLocked \in BOOLEAN
  /\ unlockApp \in Lockers \cup {NoLocker}
  /\ daemon \in [pc : {"idle", "lock", "unlock", "relock"}, req : Requests \cup {NoRequest}]
  /\ typist \in Lockers \cup {NoLocker}
  /\ died \in 0 .. MaxDied
  /\ answer \in {"none", "ok", "error"}
  /\ appPort \in Seq(Orders \cup {LockDone})
  /\ broker \in [req : Requests \cup {NoRequest}, pending : 0 .. Cardinality(Desktops)]
  /\ desktop \in [Desktops -> [port : Seq(Orders), locked : BOOLEAN,
                               team : Lockers \cup {NoLocker}]]
  /\ locker \in [Lockers -> [process : {"up", "quitting", "dead"},
                             window : {"none", "shown", "hidden", "closed"}]]
  /\ applied \subseteq Desktops
  /\ last \in [what : {"none", "lock", "unlock"}, seen : BOOLEAN]

IdleDaemon == [pc |-> "idle", req |-> NoRequest]
NoBroker == [req |-> NoRequest, pending |-> 0]
Live(p) == p \in Lockers /\ locker[p].process \in {"up", "quitting"}
HasWindow(p) == locker[p].window \in {"shown", "hidden"}

Init ==
  /\ screenLocked = FALSE
  /\ unlockApp = NoLocker
  /\ daemon = IdleDaemon
  /\ typist = NoLocker
  /\ died = 0
  /\ answer = "none"
  /\ appPort = <<>>
  /\ broker = NoBroker
  /\ desktop = [d \in Desktops |->
                  [port |-> <<>>, locked |-> FALSE, team |-> NoLocker]]
  /\ locker = [p \in Lockers |-> [process |-> "dead", window |-> "closed"]]
  /\ applied = {}
  /\ last = [what |-> "none", seen |-> FALSE]

-----------------------------------------------------------------------------
(* The launch daemon thread of janus: one handler at a time.               *)

OnItsWay ==
  Range(appPort) \cup UNION {Range(desktop[d].port) : d \in Desktops}

(* A pid the kernel may give to a new process, and nothing remembers. *)
FreePid(p) ==
  /\ locker[p].process = "dead" /\ ~HasWindow(p)
  /\ \A d \in Desktops : desktop[d].team # p
  /\ \A m \in OnItsWay : m.what = "lock" => m.team # p

(* Mutants: a pid is kept unseen; a live one is not looked at. *)
TrustPid ==
  IF unlockApp # NoLocker
    THEN UNCHANGED <<unlockApp, locker>>
    ELSE \E p \in Lockers :
           /\ FreePid(p)
           /\ unlockApp' = p
           /\ locker' = [locker EXCEPT ![p] = [process |-> "up",
                                              window |-> "none"]]

LaunchAnother ==
  \E p \in Lockers :
    /\ FreePid(p)
    /\ unlockApp' = p
    /\ locker' = [locker EXCEPT ![p] = [process |-> "up", window |-> "none"]]

(* launch_unlock_app() keeps an unlock app that is still alive. *)
LaunchUnlockApp ==
  IF Live(unlockApp)
    THEN UNCHANGED <<unlockApp, locker>>
    ELSE \E p \in Lockers :
           /\ FreePid(p)
           /\ unlockApp' = p
           /\ locker' = [locker EXCEPT ![p] = [process |-> "up",
                                              window |-> "none"]]

(* send_to_app_server() up to its wait for the reply; without a port, or   *)
(* with a full one, there is nothing to wait for.                          *)
Unused(r) ==
  /\ broker.req # r
  /\ \A m \in OnItsWay : m.what # "done" => m.req # r

Ask(handler, what, team) ==
  \/ \E r \in Requests :
       /\ Unused(r)
       /\ r = CHOOSE x \in Requests : Unused(x)
       /\ daemon' = [pc |-> handler, req |-> r]
       /\ appPort' = Append(appPort, [what |-> what, req |-> r, team |-> team])
       /\ last' = [what |-> what, seen |-> FALSE]
       /\ UNCHANGED answer
  \/ /\ "notSent" \in Events
     /\ daemon' = [pc |-> handler, req |-> NoRequest]
     /\ answer' = "error"
     /\ UNCHANGED <<appPort, last>>

(* handle_lock_session(), whether the screen is locked already or not.     *)
LockSession ==
  /\ daemon.pc = "idle"
  /\ Live(unlockApp) /\ locker[unlockApp].process = "quitting"
       => "quickRelock" \in Events
  /\ LaunchUnlockApp
  /\ Ask("lock", "lock", unlockApp')
  /\ UNCHANGED <<screenLocked, typist, died, broker, desktop, applied>>

(* handle_unlock_auth(), for the right password: typed into a locker that  *)
(* is shown, or was before it died and its window went.                    *)
UnlockAuth ==
  /\ daemon.pc = "idle"
  /\ screenLocked
  /\ \/ \E p \in Lockers : locker[p].window = "shown" /\ typist' = p
     \/ died > 0 /\ typist' = NoLocker
  /\ Ask("unlock", "unlock", NoLocker)
  /\ UNCHANGED <<screenLocked, unlockApp, died, broker, desktop, locker,
                 applied>>

(* handle_locker_died(). *)
LockerDiedIgnored ==
  /\ daemon.pc = "idle"
  /\ died > 0
  /\ died' = died - 1
  /\ UNCHANGED <<screenLocked, unlockApp, locker, daemon, typist, answer, server,
                 desktop, applied, last>>

LockerDied ==
  /\ daemon.pc = "idle"
  /\ died > 0
  /\ died' = died - 1
  /\ IF screenLocked
       THEN /\ LaunchUnlockApp
            /\ Ask("relock", "lock", unlockApp')
       ELSE UNCHANGED <<unlockApp, locker, daemon, answer, appPort, last>>
  /\ UNCHANGED <<screenLocked, typist, broker, desktop, applied>>

(* Neither handler goes on when the unlock app cannot be launched. *)
LaunchFails ==
  /\ "launchFails" \in Events
  /\ daemon.pc = "idle"
  /\ ~Live(unlockApp)
  /\ unlockApp' = NoLocker
  /\ died' \in {died} \cup (IF died > 0 /\ screenLocked THEN {died - 1} ELSE {})
  /\ UNCHANGED <<screenLocked, daemon, typist, answer, server, desktop, locker,
                 applied, last>>

Answered ==
  /\ daemon.pc # "idle"
  /\ answer = "ok"
  /\ last' = [last EXCEPT !.seen = TRUE]

(* No reply within two seconds, a bad one, or the request was never sent. *)
Unanswered ==
  /\ daemon.pc # "idle"
  /\ \/ answer = "error"
     \/ answer = "none" /\ "timeout" \in Events
  /\ UNCHANGED last

EndHandler ==
  /\ daemon' = IdleDaemon
  /\ typist' = NoLocker
  /\ answer' = "none"
  /\ applied' = {}

LockAnswered ==
  /\ daemon.pc = "lock"
  /\ Answered
  /\ EndHandler
  /\ screenLocked' = TRUE
  /\ UNCHANGED <<unlockApp, died, server, desktop, locker>>

(* stop_unlock_app(): SIGTERM, then SIGKILL. *)
LockFails ==
  /\ daemon.pc = "lock"
  /\ Unanswered
  /\ EndHandler
  /\ unlockApp' = NoLocker
  /\ locker' = [locker EXCEPT ![unlockApp].process = "dead"]
  /\ UNCHANGED <<screenLocked, died, server, desktop>>

(* The unlock app that sent the password hears that it was right, and      *)
(* quits; if it is dead, a successor stays.                                *)
UnlockNotRecorded ==
  /\ daemon.pc = "unlock"
  /\ Answered
  /\ EndHandler
  /\ UNCHANGED <<screenLocked, unlockApp, died, server, desktop, locker>>

UnlockAnswered ==
  /\ daemon.pc = "unlock"
  /\ Answered
  /\ EndHandler
  /\ screenLocked' = FALSE
  /\ locker' = [p \in Lockers |->
                  IF p = typist /\ locker[p].process = "up"
                    THEN [locker[p] EXCEPT !.process = "quitting"]
                    ELSE locker[p]]
  /\ UNCHANGED <<unlockApp, died, server, desktop>>

UnlockFails ==
  /\ daemon.pc = "unlock"
  /\ Unanswered
  /\ EndHandler
  /\ UNCHANGED <<screenLocked, unlockApp, died, server, desktop, locker>>

(* handle_locker_died() does not look at what came of its request. *)
RelockEnds ==
  /\ daemon.pc = "relock"
  /\ Answered \/ Unanswered
  /\ EndHandler
  /\ UNCHANGED <<screenLocked, unlockApp, died, server, desktop, locker>>

-----------------------------------------------------------------------------
(* AppServer, a looper: one message at a time.                             *)

(* The daemon hears only about the request it waits for. *)
Reply(req, result) ==
  answer' = IF daemon.pc # "idle" /\ daemon.req = req /\ answer = "none"
              THEN result ELSE answer

(* B_SESSION_LOCK and B_SESSION_UNLOCK: to every Desktop whose port takes  *)
(* it; whatever request was under way is forgotten.                        *)
OnlyOneUnderWay ==
  /\ appPort # <<>> /\ Head(appPort).what # "done"
  /\ broker' = [req |-> Head(appPort).req, pending |-> Cardinality(Desktops)]
  /\ desktop' = IF broker.req # NoRequest THEN desktop ELSE
                  [d \in Desktops |->
                    [desktop[d] EXCEPT !.port = Append(@, Head(appPort))]]
  /\ appPort' = Tail(appPort)
  /\ UNCHANGED <<janus, answer, locker, applied, last>>

HandleOrder ==
  /\ appPort # <<>> /\ Head(appPort).what # "done"
  /\ \E asked \in IF "portFull" \in Events THEN SUBSET Desktops ELSE {Desktops} :
       LET m == Head(appPort)
       IN  /\ desktop' = [d \in Desktops |->
                            IF d \in asked
                              THEN [desktop[d] EXCEPT !.port = Append(@, m)]
                              ELSE desktop[d]]
           /\ IF asked = {}
                THEN broker' = NoBroker /\ Reply(m.req, "error")
                ELSE /\ broker' = [req |-> m.req, pending |-> Cardinality(asked)]
                     /\ UNCHANGED answer
  /\ appPort' = Tail(appPort)
  /\ UNCHANGED <<janus, locker, applied, last>>

(* kMsgDesktopLockDone does not say which request it is about. *)
ReplyAtFirst ==
  /\ appPort # <<>> /\ Head(appPort).what = "done"
  /\ appPort' = Tail(appPort)
  /\ broker' = NoBroker /\ Reply(broker.req, "ok")
  /\ UNCHANGED <<janus, desktop, locker, applied, last>>

TestThenDecrement ==
  /\ appPort # <<>> /\ Head(appPort).what = "done"
  /\ appPort' = Tail(appPort)
  /\ IF broker.pending = 0 /\ broker.req # NoRequest
       THEN broker' = NoBroker /\ Reply(broker.req, "ok")
       ELSE broker' = [broker EXCEPT !.pending = @ - 1] /\ UNCHANGED answer
  /\ UNCHANGED <<janus, desktop, locker, applied, last>>

HandleLockDone ==
  /\ appPort # <<>> /\ Head(appPort).what = "done"
  /\ appPort' = Tail(appPort)
  /\ LET left == IF broker.pending > 0 THEN broker.pending - 1 ELSE 0
     IN  IF left = 0 /\ broker.req # NoRequest
           THEN broker' = NoBroker /\ Reply(broker.req, "ok")
           ELSE broker' = [broker EXCEPT !.pending = left] /\ UNCHANGED answer
  /\ UNCHANGED <<janus, desktop, locker, applied, last>>

-----------------------------------------------------------------------------
(* A Desktop thread applies the next order of its port. *)

(* fUnlockTeam is set even when the screen is locked already. *)
AfterOrder(d, m) ==
  [port |-> Tail(desktop[d].port),
   locked |-> m.what = "lock",
   team |-> IF m.what = "lock" THEN m.team
            ELSE IF desktop[d].locked THEN NoLocker ELSE desktop[d].team]

ApplyOrder(d) ==
  /\ desktop[d].port # <<>>
  /\ LET m == Head(desktop[d].port)
     IN  /\ desktop' = [desktop EXCEPT ![d] = AfterOrder(d, m)]
         /\ applied' = IF m.req = daemon.req THEN applied \cup {d} ELSE applied
  /\ appPort' = Append(appPort, LockDone)
  /\ UNCHANGED <<janus, answer, broker, locker, last>>

-----------------------------------------------------------------------------
(* The unlock apps and their windows, on the session's Desktop.            *)

(* No order is on its way and no handler waits. *)
Quiet ==
  /\ daemon.pc = "idle" /\ appPort = <<>>
  /\ \A d \in Desktops : desktop[d].port = <<>>

Exempt(p) == desktop[Home].team = p

(* AddWindow() and ShowWindow(): a locked Desktop shows no other team's.   *)
(* A window opens after the order that names its locker has come, or was   *)
(* lost, or, as "earlyWindow", before.                                     *)
OpenWindow(p) ==
  /\ locker[p].process = "up" /\ locker[p].window = "none"
  /\ "earlyWindow" \in Events \/ Exempt(p) \/ Quiet
  /\ locker' = [locker EXCEPT ![p].window =
                   IF desktop[Home].locked /\ ~Exempt(p) THEN "hidden"
                                                         ELSE "shown"]
  /\ UNCHANGED <<janus, answer, server, desktop, applied, last>>

Crash(p) ==
  /\ locker[p].process = "up"
  /\ \/ "earlyCrash" \in Events
     \/ "crash" \in Events /\ desktop[Home].locked /\ Exempt(p) /\ HasWindow(p)
  /\ locker' = [locker EXCEPT ![p].process = "dead"]
  /\ UNCHANGED <<janus, answer, server, desktop, applied, last>>

(* RemoveWindow(), of a locker that quits or is dead: a locked Desktop     *)
(* reports that its last unlock window is gone.                            *)
CloseWindow(p) ==
  /\ locker[p].process \in {"quitting", "dead"} /\ HasWindow(p)
  /\ locker' = [locker EXCEPT ![p].window = "closed"]
  /\ IF desktop[Home].locked /\ Exempt(p)
       THEN died < MaxDied /\ died' = died + 1
       ELSE UNCHANGED died
  /\ UNCHANGED <<screenLocked, unlockApp, daemon, typist, answer, server, desktop,
                 applied, last>>

(* A locker that quits closes its window first. *)
Exit(p) ==
  /\ locker[p].process = "quitting" /\ ~HasWindow(p)
  /\ locker' = [locker EXCEPT ![p].process = "dead"]
  /\ UNCHANGED <<janus, answer, server, desktop, applied, last>>

-----------------------------------------------------------------------------
HandlerEnds ==
  LockAnswered \/ LockFails \/ UnlockAnswered \/ UnlockFails \/ RelockEnds

LockerStep(p) == OpenWindow(p) \/ Crash(p) \/ CloseWindow(p) \/ Exit(p)

Next ==
  \/ LockSession \/ UnlockAuth \/ LockerDied \/ LaunchFails \/ HandlerEnds
  \/ HandleOrder \/ HandleLockDone
  \/ \E d \in Desktops : ApplyOrder(d)
  \/ \E p \in Lockers : LockerStep(p)

Spec == Init /\ [][Next]_vars

(* Every thread that has something to do runs; windows of dead or quitting *)
(* lockers are removed.  The launch port is a queue: other messages delay  *)
(* a report but do not keep it out.  Nobody has to lock or to type.        *)
FairSpec ==
  /\ Spec
  /\ SF_vars(LockerDied) /\ WF_vars(HandlerEnds)
  /\ WF_vars(HandleOrder) /\ WF_vars(HandleLockDone)
  /\ \A d \in Desktops : WF_vars(ApplyOrder(d))
  /\ \A p \in Lockers : WF_vars(OpenWindow(p)) /\ WF_vars(CloseWindow(p))
                        /\ WF_vars(Exit(p))

-----------------------------------------------------------------------------
AllLocked == \A d \in Desktops : desktop[d].locked
AllUnlocked == \A d \in Desktops : ~desktop[d].locked

(* Whenever janus is between two messages, its idea of the screen is that  *)
(* of every Desktop: an acknowledged lock covers them all, and a failed    *)
(* one covers none ("stop it or it sits over an unlocked desktop").        *)
LockStatesAgree ==
  daemon.pc = "idle" => IF screenLocked THEN AllLocked ELSE AllUnlocked

(* An order that janus saw succeed does take effect on every Desktop, even *)
(* if earlier orders timed out and their answers come late: no older order *)
(* overtakes it.                                                           *)
SuccessTakesEffect ==
  Quiet /\ last.seen => IF last.what = "lock" THEN AllLocked ELSE AllUnlocked

(* "Each Desktop applies it on its own thread and answers; reply once all  *)
(* have."                                                                  *)
RepliesOnceAllHave == answer = "ok" => applied = Desktops

(* "Locked and the unlock window is gone: ask janus for a new locker."  A  *)
(* Desktop that stays locked has a locker, or a report is on its way.      *)
GoneLockerIsReported ==
  LET p == desktop[Home].team
  IN  Quiet /\ desktop[Home].locked =>
        \/ p \in Lockers /\ locker[p].process = "up"
                         /\ locker[p].window # "hidden"
        \/ died > 0
        \/ p \in Lockers /\ ~(locker[p].process = "up") /\ HasWindow(p)

(* A locked Desktop that lost its unlock window gets another, unless it is *)
(* unlocked first: a password prompt is never gone for good.               *)
PromptComesBack ==
  desktop[Home].locked
    ~> (\/ ~desktop[Home].locked
        \/ \E p \in Lockers : locker[p].window = "shown" /\ Exempt(p))

(* As long as app_server answers, janus, the broker and the Desktops are   *)
(* one LockService: its record follows every Desktop, no request stays     *)
(* open, and one that was never sent changes nothing.  A lock for a new    *)
(* locker asks for what is already so.                                     *)
Service == INSTANCE LockService WITH
  recorded <- screenLocked,
  request <- IF daemon.req = NoRequest THEN "none"
             ELSE IF daemon.pc = "unlock" THEN "unlock" ELSE "lock",
  locked <- [d \in Desktops |-> desktop[d].locked]
IsLockService == Service!Spec

(* What LockedDesktop takes for granted of janus holds: however orders     *)
(* time out, lockers die and successors are launched, no order reaches the *)
(* session's Desktop that names a locker while the window of another one   *)
(* is there to stay, and no second locker opens its window.  Only when     *)
(* windows open early and orders time out can it fail.                     *)
HomeLock == INSTANCE DesktopLock WITH
  NoTeam <- NoLocker,
  locked <- desktop[Home].locked,
  team <- desktop[Home].team,
  window <- [p \in Lockers |-> IF ~HasWindow(p) THEN "none"
                               ELSE IF locker[p].process = "up" THEN "open"
                               ELSE "going"]
IsDesktopLock == HomeLock!Spec
=============================================================================
