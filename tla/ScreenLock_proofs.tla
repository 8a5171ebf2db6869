------------------------- MODULE ScreenLock_proofs -------------------------
(***************************************************************************)
(* The screen lock: types for every instance; as long as app_server        *)
(* answers and its Desktops take their orders, the agreement of janus, the *)
(* broker and the Desktops; and, whatever is answered, that the last order *)
(* wins and that the lockers take turns.  For any number of Desktops and   *)
(* lockers.                                                                *)
(***************************************************************************)
EXTENDS ScreenLock, SequenceTheorems, FiniteSetTheorems, TLAPS

(* No request that was sent times out, and no Desktop is left out of one.  *)
AppServerAnswers == Events \cap {"timeout", "portFull"} = {}

(* What the handler of the daemon asks for. *)
Wanted == daemon.pc # "unlock"
IsAsked(m) ==
  /\ m \in Orders /\ m.req = daemon.req
  /\ m.what = IF Wanted THEN "lock" ELSE "unlock"

(* The one request is nowhere, at AppServer, with the Desktops, answered. *)
NoOrders == \A d \in Desktops : desktop[d].port = <<>>
Sent ==
  /\ answer = "none" /\ applied = {} /\ broker = NoBroker /\ NoOrders
  /\ \E m \in Orders : IsAsked(m) /\ appPort = <<m>>
PassedOn ==
  /\ answer = "none"
  /\ broker.req = daemon.req
  /\ \A i \in DOMAIN appPort : appPort[i] = LockDone
  /\ broker.pending = Cardinality(Desktops \ applied) + Len(appPort)
  /\ broker.pending > 0
  /\ \A d \in Desktops :
       IF d \in applied THEN desktop[d].port = <<>> /\ desktop[d].locked = Wanted
       ELSE \E m \in Orders : IsAsked(m) /\ desktop[d].port = <<m>>
Done ==
  /\ answer = "ok" /\ applied = Desktops
  /\ broker = NoBroker /\ NoOrders /\ appPort = <<>>
  /\ \A d \in Desktops : desktop[d].locked = Wanted
Still ==
  /\ applied = {} /\ daemon.req = NoRequest
  /\ broker = NoBroker /\ NoOrders /\ appPort = <<>>
  /\ \A d \in Desktops : desktop[d].locked = screenLocked
Rest == answer = "none" /\ Still
Unsent == answer = "error" /\ Still /\ "notSent" \in Events

RequestInv ==
  /\ IF daemon.pc = "idle" THEN Rest
     ELSE \/ daemon.req \in Requests /\ (Sent \/ PassedOn \/ Done)
          \/ Unsent
  /\ daemon.pc \in {"unlock", "relock"} => screenLocked
-----------------------------------------------------------------------------
(* Types. *)
DesktopTypes == [port : Seq(Orders), locked : BOOLEAN, team : Lockers \cup {NoLocker}]
LockerTypes == [process : {"up", "quitting", "dead"},
                window : {"none", "shown", "hidden", "closed"}]
DaemonTypes == [pc : {"idle", "lock", "unlock", "relock"},
                req : Requests \cup {NoRequest}]
BrokerTypes == [req : Requests \cup {NoRequest}, pending : 0 .. Cardinality(Desktops)]
LastTypes == [what : {"none", "lock", "unlock"}, seen : BOOLEAN]

LEMMA DesktopsCounted == Cardinality(Desktops) \in Nat /\ Cardinality(Desktops) # 0
<1>1. IsFiniteSet(Desktops) /\ Desktops # {}
  BY LockConstants
<1> QED BY <1>1, FS_CardinalityType, FS_EmptySet

LEMMA DoneIsNoOrder == LockDone.what = "done" /\ \A m \in Orders : m.what # "done"
BY DEF LockDone, Orders

(* A message taken from AppServer's port. *)
LEMMA AppPortHead ==
  ASSUME appPort \in Seq(Orders \cup {LockDone}), appPort # <<>>
  PROVE  /\ Head(appPort) \in Orders \cup {LockDone}
         /\ Head(appPort).what # "done" => Head(appPort) \in Orders
         /\ Tail(appPort) \in Seq(Orders \cup {LockDone})
<1>1. /\ Head(appPort) \in Orders \cup {LockDone}
      /\ Tail(appPort) \in Seq(Orders \cup {LockDone})
  BY HeadTailProperties
<1> QED BY <1>1, DoneIsNoOrder

LEMMA TypeInit == Init => TypeOK
<1> SUFFICES ASSUME Init PROVE TypeOK
  OBVIOUS
<1>1. /\ appPort \in Seq(Orders \cup {LockDone}) /\ <<>> \in Seq(Orders)
      /\ IdleDaemon \in DaemonTypes /\ NoBroker \in BrokerTypes
  BY DesktopsCounted DEF Init, IdleDaemon, NoBroker, DaemonTypes, BrokerTypes
<1>2. desktop \in [Desktops -> DesktopTypes]
  BY <1>1 DEF Init, DesktopTypes
<1>3. locker \in [Lockers -> LockerTypes]
  BY DEF Init, LockerTypes
<1>4. last \in LastTypes
  BY DEF Init, LastTypes
<1>5. died \in 0 .. MaxDied
  BY LockConstants DEF Init
<1> QED
  BY <1>1, <1>2, <1>3, <1>4, <1>5
     DEF Init, TypeOK, DesktopTypes, LockerTypes, LastTypes, DaemonTypes, BrokerTypes

LEMMA TypeDaemon ==
  ASSUME TypeOK,
         LockSession \/ UnlockAuth \/ LockerDied \/ LaunchFails \/ HandlerEnds
  PROVE  TypeOK'
<1> USE LockConstants DEF server, janus
<1>0. /\ locker \in [Lockers -> LockerTypes] /\ daemon \in DaemonTypes
      /\ last \in LastTypes
  BY DEF TypeOK, LockerTypes, DaemonTypes, LastTypes
<1>1. ASSUME LaunchUnlockApp
      PROVE  unlockApp' \in Lockers \cup {NoLocker} /\ locker' \in [Lockers -> LockerTypes]
  <2>1. CASE Live(unlockApp)
    BY <1>0, <1>1, <2>1 DEF LaunchUnlockApp, TypeOK
  <2>2. CASE ~Live(unlockApp)
    <3>1. PICK p \in Lockers :
            /\ unlockApp' = p
            /\ locker' = [locker EXCEPT ![p] = [process |-> "up", window |-> "none"]]
      BY <1>1, <2>2 DEF LaunchUnlockApp
    <3>2. [process |-> "up", window |-> "none"] \in LockerTypes
      BY DEF LockerTypes
    <3>3. locker' \in [Lockers -> LockerTypes]
      BY <1>0, <3>1, <3>2
    <3> QED BY <3>1, <3>3
  <2> QED BY <2>1, <2>2
<1>2. ASSUME NEW h \in {"lock", "unlock", "relock"}, NEW what \in {"lock", "unlock"},
             NEW team \in Lockers \cup {NoLocker}, Ask(h, what, team)
      PROVE  /\ daemon' \in DaemonTypes /\ last' \in LastTypes
             /\ answer' \in {"none", "ok", "error"}
             /\ appPort' \in Seq(Orders \cup {LockDone})
  <2>1. ASSUME NEW r \in Requests,
               daemon' = [pc |-> h, req |-> r],
               appPort' = Append(appPort, [what |-> what, req |-> r, team |-> team]),
               last' = [what |-> what, seen |-> FALSE], UNCHANGED answer
        PROVE  /\ daemon' \in DaemonTypes /\ last' \in LastTypes
               /\ answer' \in {"none", "ok", "error"}
               /\ appPort' \in Seq(Orders \cup {LockDone})
    <3>1. [what |-> what, req |-> r, team |-> team] \in Orders \cup {LockDone}
      BY DEF Orders
    <3>2. appPort' \in Seq(Orders \cup {LockDone})
      BY <2>1, <3>1, AppendProperties DEF TypeOK
    <3> QED BY <2>1, <3>2 DEF TypeOK, DaemonTypes, LastTypes
  <2>2. ASSUME daemon' = [pc |-> h, req |-> NoRequest], answer' = "error",
               UNCHANGED <<appPort, last>>
        PROVE  /\ daemon' \in DaemonTypes /\ last' \in LastTypes
               /\ answer' \in {"none", "ok", "error"}
               /\ appPort' \in Seq(Orders \cup {LockDone})
    BY <1>0, <2>2 DEF TypeOK, DaemonTypes
  <2> QED BY <1>2, <2>1, <2>2 DEF Ask
<1>3. ASSUME daemon' \in DaemonTypes, last' \in LastTypes,
             locker' \in [Lockers -> LockerTypes],
             unlockApp' \in Lockers \cup {NoLocker},
             answer' \in {"none", "ok", "error"},
             appPort' \in Seq(Orders \cup {LockDone}),
             screenLocked' \in BOOLEAN, died' \in 0 .. MaxDied,
             typist' \in Lockers \cup {NoLocker},
             applied' \subseteq Desktops, UNCHANGED <<broker, desktop>>
      PROVE  TypeOK'
  BY <1>3 DEF TypeOK, DaemonTypes, LastTypes, LockerTypes
<1>4. CASE LockSession
  <2>1. /\ LaunchUnlockApp /\ Ask("lock", "lock", unlockApp')
        /\ UNCHANGED <<screenLocked, typist, died, broker, desktop, applied>>
    BY <1>4 DEF LockSession
  <2>2. unlockApp' \in Lockers \cup {NoLocker} /\ locker' \in [Lockers -> LockerTypes]
    BY <1>1, <2>1
  <2>3. /\ daemon' \in DaemonTypes /\ last' \in LastTypes
        /\ answer' \in {"none", "ok", "error"}
        /\ appPort' \in Seq(Orders \cup {LockDone})
    BY <1>2, <2>1, <2>2
  <2> QED BY <1>3, <2>1, <2>2, <2>3 DEF TypeOK
<1>5. CASE UnlockAuth
  <2>1. /\ Ask("unlock", "unlock", NoLocker)
        /\ UNCHANGED <<screenLocked, unlockApp, died, broker, desktop, locker, applied>>
        /\ typist' \in Lockers \cup {NoLocker}
    BY <1>5 DEF UnlockAuth
  <2>2. /\ daemon' \in DaemonTypes /\ last' \in LastTypes
        /\ answer' \in {"none", "ok", "error"}
        /\ appPort' \in Seq(Orders \cup {LockDone})
    BY <1>2, <2>1
  <2> QED BY <1>0, <1>3, <2>1, <2>2 DEF TypeOK
<1>6. CASE LockerDied
  <2>1. /\ died' \in 0 .. MaxDied
        /\ UNCHANGED <<screenLocked, typist, broker, desktop, applied>>
    BY <1>6 DEF LockerDied, TypeOK
  <2>2. CASE screenLocked
    <3>1. LaunchUnlockApp /\ Ask("relock", "lock", unlockApp')
      BY <1>6, <2>2 DEF LockerDied
    <3>2. unlockApp' \in Lockers \cup {NoLocker} /\ locker' \in [Lockers -> LockerTypes]
      BY <1>1, <3>1
    <3>3. /\ daemon' \in DaemonTypes /\ last' \in LastTypes
          /\ answer' \in {"none", "ok", "error"}
          /\ appPort' \in Seq(Orders \cup {LockDone})
      BY <1>2, <3>1, <3>2
    <3> QED BY <1>3, <2>1, <3>2, <3>3 DEF TypeOK
  <2>3. CASE ~screenLocked
    <3>1. UNCHANGED <<unlockApp, locker, daemon, answer, appPort, last>>
      BY <1>6, <2>3 DEF LockerDied
    <3> QED BY <1>0, <1>3, <2>1, <3>1 DEF TypeOK
  <2> QED BY <2>2, <2>3
<1>7. CASE LaunchFails
  <2>1. died' \in 0 .. MaxDied
    BY <1>7 DEF LaunchFails, TypeOK
  <2> QED BY <1>0, <1>3, <1>7, <2>1 DEF LaunchFails, TypeOK
<1>8. CASE HandlerEnds
  <2>1. daemon' \in DaemonTypes /\ answer' = "none" /\ applied' = {} /\ typist' = NoLocker
    BY <1>8 DEF HandlerEnds, LockAnswered, LockFails, UnlockAnswered, UnlockFails,
       RelockEnds, EndHandler, IdleDaemon, DaemonTypes
  <2>2. last' \in LastTypes
    <3>1. last' = last \/ last' = [last EXCEPT !.seen = TRUE]
      BY <1>8 DEF HandlerEnds, LockAnswered, LockFails, UnlockAnswered, UnlockFails,
         RelockEnds, Answered, Unanswered
    <3> QED BY <1>0, <3>1 DEF LastTypes
  <2>3. locker' \in [Lockers -> LockerTypes]
    BY <1>0, <1>8 DEF HandlerEnds, LockAnswered, LockFails, UnlockAnswered,
       UnlockFails, RelockEnds, LockerTypes
  <2>4. screenLocked' \in BOOLEAN
    BY <1>8 DEF HandlerEnds, LockAnswered, LockFails, UnlockAnswered, UnlockFails,
       RelockEnds, TypeOK
  <2>5. /\ unlockApp' \in {unlockApp, NoLocker}
        /\ UNCHANGED <<died, broker, desktop, appPort>>
    BY <1>8 DEF HandlerEnds, LockAnswered, LockFails, UnlockAnswered, UnlockFails,
       RelockEnds
  <2> QED BY <1>3, <2>1, <2>2, <2>3, <2>4, <2>5 DEF TypeOK
<1> QED BY <1>4, <1>5, <1>6, <1>7, <1>8

LEMMA TypeServer ==
  ASSUME TypeOK,
         \/ HandleOrder \/ HandleLockDone
         \/ \E d \in Desktops : ApplyOrder(d)
  PROVE  TypeOK'
<1> USE DesktopsCounted DEF janus
<1>0. /\ desktop \in [Desktops -> DesktopTypes] /\ broker \in BrokerTypes
      /\ NoBroker \in BrokerTypes
      /\ appPort \in Seq(Orders \cup {LockDone})
  BY DEF TypeOK, DesktopTypes, BrokerTypes, NoBroker
<1>1. ASSUME desktop' \in [Desktops -> DesktopTypes], broker' \in BrokerTypes,
             appPort' \in Seq(Orders \cup {LockDone}), applied' \subseteq Desktops,
             answer' \in {"none", "ok", "error"},
             UNCHANGED <<screenLocked, unlockApp, daemon, typist, died, locker, last>>
      PROVE  TypeOK'
  BY <1>1 DEF TypeOK, DesktopTypes, BrokerTypes
<1>2. CASE HandleOrder
  <2>1. /\ Head(appPort) \in Orders /\ appPort' \in Seq(Orders \cup {LockDone})
        /\ UNCHANGED <<screenLocked, unlockApp, daemon, typist, died, locker, applied,
                       last>>
    BY <1>0, <1>2, AppPortHead DEF HandleOrder
  <2>2. PICK asked \in SUBSET Desktops :
          /\ desktop' = [d \in Desktops |->
                           IF d \in asked
                             THEN [desktop[d] EXCEPT !.port = Append(@, Head(appPort))]
                             ELSE desktop[d]]
          /\ IF asked = {}
               THEN broker' = NoBroker /\ Reply(Head(appPort).req, "error")
               ELSE /\ broker' = [req |-> Head(appPort).req,
                                  pending |-> Cardinality(asked)]
                    /\ UNCHANGED answer
    BY <1>2 DEF HandleOrder
  <2>3. desktop' \in [Desktops -> DesktopTypes]
    <3>1. \A d \in Desktops : Append(desktop[d].port, Head(appPort)) \in Seq(Orders)
      BY <1>0, <2>1, AppendProperties DEF DesktopTypes
    <3> QED BY <1>0, <2>2, <3>1 DEF DesktopTypes
  <2>4. Cardinality(asked) \in 0 .. Cardinality(Desktops)
    BY LockConstants, FS_Subset, FS_CardinalityType
  <2>5. broker' \in BrokerTypes /\ answer' \in {"none", "ok", "error"}
    BY <1>0, <2>1, <2>2, <2>4 DEF BrokerTypes, Reply, TypeOK, Orders
  <2> QED BY <1>1, <2>1, <2>3, <2>5 DEF TypeOK
<1>3. CASE HandleLockDone
  <2>1. /\ appPort' \in Seq(Orders \cup {LockDone})
        /\ UNCHANGED <<screenLocked, unlockApp, daemon, typist, died, locker, applied, last,
                       desktop>>
    BY <1>0, <1>3, AppPortHead DEF HandleLockDone
  <2>2. broker' \in BrokerTypes /\ answer' \in {"none", "ok", "error"}
    BY <1>0, <1>3 DEF HandleLockDone, BrokerTypes, Reply, TypeOK
  <2> QED BY <1>0, <1>1, <2>1, <2>2 DEF TypeOK
<1>4. ASSUME NEW d \in Desktops, ApplyOrder(d) PROVE TypeOK'
  <2>1. /\ Head(desktop[d].port) \in Orders
        /\ Tail(desktop[d].port) \in Seq(Orders)
    BY <1>0, <1>4, HeadTailProperties DEF ApplyOrder, DesktopTypes
  <2>2. (Head(desktop[d].port).what = "lock") \in BOOLEAN
    OBVIOUS
  <2>3. AfterOrder(d, Head(desktop[d].port)) \in DesktopTypes
    <3>1. (IF Head(desktop[d].port).what = "lock" THEN Head(desktop[d].port).team
           ELSE IF desktop[d].locked THEN NoLocker ELSE desktop[d].team)
             \in Lockers \cup {NoLocker}
      BY <1>0, <2>1 DEF DesktopTypes, Orders
    <3> QED BY <2>1, <2>2, <3>1 DEF AfterOrder, DesktopTypes
  <2>4. desktop' \in [Desktops -> DesktopTypes]
    BY <1>0, <1>4, <2>3 DEF ApplyOrder
  <2>5. appPort' \in Seq(Orders \cup {LockDone})
    BY <1>0, <1>4, AppendProperties DEF ApplyOrder
  <2>6. applied' \subseteq Desktops
    BY <1>4 DEF ApplyOrder, TypeOK
  <2>7. UNCHANGED <<screenLocked, unlockApp, daemon, typist, died, answer, broker,
                    locker, last>>
    BY <1>4 DEF ApplyOrder
  <2> QED BY <1>0, <1>1, <2>4, <2>5, <2>6, <2>7 DEF TypeOK
<1> QED BY <1>2, <1>3, <1>4

LEMMA TypeLocker ==
  ASSUME TypeOK, NEW p \in Lockers, LockerStep(p) PROVE TypeOK'
<1> USE LockConstants DEF server, janus
<1>0. locker \in [Lockers -> LockerTypes]
  BY DEF TypeOK, LockerTypes
<1>1. locker' \in [Lockers -> LockerTypes]
  BY <1>0 DEF LockerStep, OpenWindow, Crash, CloseWindow, Exit, LockerTypes
<1>2. died' \in 0 .. MaxDied
  BY DEF LockerStep, OpenWindow, Crash, CloseWindow, Exit, TypeOK
<1>3. UNCHANGED <<screenLocked, unlockApp, daemon, typist, answer, appPort, broker,
                  desktop, applied, last>>
  BY DEF LockerStep, OpenWindow, Crash, CloseWindow, Exit
<1> QED BY <1>1, <1>2, <1>3 DEF TypeOK, LockerTypes

LEMMA TypeNext == TypeOK /\ [Next]_vars => TypeOK'
<1> SUFFICES ASSUME TypeOK, [Next]_vars PROVE TypeOK'
  OBVIOUS
<1>1. CASE UNCHANGED vars
  BY <1>1 DEF vars, TypeOK
<1> QED
  BY <1>1, TypeDaemon, TypeServer, TypeLocker DEF Next

(* The records of janus, AppServer, the Desktops and the lockers keep      *)
(* their types; no count of answers exceeds the Desktops.                  *)
THEOREM TypeCorrect == Spec => []TypeOK
BY TypeInit, TypeNext, PTL DEF Spec

-----------------------------------------------------------------------------
(* The request, from the daemon to every Desktop and back. *)

LEMMA RequestInit == Init => RequestInv
<1> SUFFICES ASSUME Init PROVE RequestInv
  OBVIOUS
<1>1. daemon.pc = "idle" /\ screenLocked = FALSE
  BY DEF Init, IdleDaemon
<1>2. \A d \in Desktops : desktop[d].port = <<>> /\ desktop[d].locked = FALSE
  BY DEF Init
<1>3. answer = "none" /\ applied = {} /\ broker = NoBroker /\ appPort = <<>>
  BY DEF Init
<1>4. Rest
  BY <1>1, <1>2, <1>3 DEF Init, IdleDaemon, Rest, Still, NoOrders
<1> QED BY <1>1, <1>4 DEF RequestInv

(* Daemon: a handler that asks puts its one order at AppServer's port, or  *)
(* finds no way to send it.                                                *)
LEMMA AskSends ==
  ASSUME TypeOK, Rest,
         NEW h \in {"lock", "unlock", "relock"}, NEW what \in {"lock", "unlock"},
         NEW team \in Lockers \cup {NoLocker},
         (what = "unlock") <=> (h = "unlock"),
         Ask(h, what, team),
         UNCHANGED <<screenLocked, broker, desktop, applied>>
  PROVE  /\ daemon'.pc = h
         /\ (Sent' /\ daemon'.req \in Requests) \/ Unsent'
<1>1. CASE /\ "notSent" \in Events /\ daemon' = [pc |-> h, req |-> NoRequest]
           /\ answer' = "error" /\ UNCHANGED appPort
  BY <1>1 DEF Unsent, Rest, Still, NoOrders, NoBroker
<1>2. CASE \E r \in Requests :
             /\ daemon' = [pc |-> h, req |-> r]
             /\ appPort' = Append(appPort, [what |-> what, req |-> r, team |-> team])
             /\ UNCHANGED answer
  <2>1. PICK r \in Requests :
          /\ daemon' = [pc |-> h, req |-> r]
          /\ appPort' = Append(appPort, [what |-> what, req |-> r, team |-> team])
          /\ UNCHANGED answer
    BY <1>2
  <2> DEFINE m == [what |-> what, req |-> r, team |-> team]
  <2>2. m \in Orders /\ IsAsked(m)'
    BY <2>1 DEF Orders, IsAsked, Wanted
  <2>3. appPort' = <<m>>
    BY <2>1 DEF Rest, Still
  <2>4. answer' = "none" /\ applied' = {} /\ (broker = NoBroker)' /\ NoOrders'
    BY <2>1 DEF Rest, Still, NoOrders, NoBroker
  <2> QED BY <2>1, <2>2, <2>3, <2>4 DEF Sent
<1> QED BY <1>1, <1>2 DEF Ask

(* A handler ends when every Desktop has answered, or when there was       *)
(* nobody to ask.                                                          *)
LEMMA EndsWhenDone ==
  ASSUME AppServerAnswers, RequestInv, HandlerEnds
  PROVE  /\ daemon.pc # "idle"
         /\ \/ /\ Done /\ daemon.req \in Requests
               /\ LockAnswered \/ UnlockAnswered \/ RelockEnds
            \/ Unsent /\ (LockFails \/ UnlockFails \/ RelockEnds)
<1>1. "timeout" \notin Events
  BY DEF AppServerAnswers
<1>2. daemon.pc # "idle"
  BY DEF HandlerEnds, LockAnswered, LockFails, UnlockAnswered, UnlockFails, RelockEnds
<1>3. CASE Unsent
  <2>1. answer = "error"
    BY <1>3 DEF Unsent
  <2> QED BY <1>2, <1>3, <2>1 DEF HandlerEnds, LockAnswered, UnlockAnswered, Answered
<1>4. CASE ~Unsent
  <2>1. daemon.req \in Requests /\ (Sent \/ PassedOn \/ Done)
    BY <1>2, <1>4 DEF RequestInv
  <2>2. answer \in {"none", "ok"}
    BY <2>1 DEF Sent, PassedOn, Done
  <2>3. ~Unanswered
    BY <1>1, <2>2 DEF Unanswered
  <2>4. LockAnswered \/ UnlockAnswered \/ RelockEnds
    BY <2>3 DEF HandlerEnds, LockFails, UnlockFails
  <2>5. Answered
    BY <2>3, <2>4 DEF LockAnswered, UnlockAnswered, RelockEnds
  <2> QED BY <1>2, <2>1, <2>4, <2>5 DEF Answered, Sent, PassedOn
<1> QED BY <1>3, <1>4

LEMMA RequestDaemon ==
  ASSUME TypeOK, AppServerAnswers, RequestInv,
         LockSession \/ UnlockAuth \/ LockerDied \/ LaunchFails \/ HandlerEnds
  PROVE  RequestInv'
<1> USE DEF server, janus
<1>1. ASSUME LaunchUnlockApp PROVE unlockApp' \in Lockers \cup {NoLocker}
  BY <1>1 DEF LaunchUnlockApp, TypeOK
<1>2. CASE LockSession
  <2>1. /\ LaunchUnlockApp /\ Ask("lock", "lock", unlockApp') /\ Rest
        /\ UNCHANGED <<screenLocked, broker, desktop, applied>>
    BY <1>2 DEF LockSession, RequestInv
  <2>2. /\ daemon'.pc = "lock"
        /\ (Sent' /\ daemon'.req \in Requests) \/ Unsent'
    BY <1>1, <2>1, AskSends
  <2> QED BY <2>2 DEF RequestInv
<1>3. CASE UnlockAuth
  <2>1. /\ Ask("unlock", "unlock", NoLocker) /\ Rest /\ screenLocked'
        /\ UNCHANGED <<screenLocked, broker, desktop, applied>>
    BY <1>3 DEF UnlockAuth, RequestInv
  <2>2. /\ daemon'.pc = "unlock"
        /\ (Sent' /\ daemon'.req \in Requests) \/ Unsent'
    BY <2>1, AskSends
  <2> QED BY <2>1, <2>2 DEF RequestInv
<1>4. CASE LockerDied /\ screenLocked
  <2>1. /\ LaunchUnlockApp /\ Ask("relock", "lock", unlockApp') /\ Rest /\ screenLocked'
        /\ UNCHANGED <<screenLocked, broker, desktop, applied>>
    BY <1>4 DEF LockerDied, RequestInv
  <2>2. /\ daemon'.pc = "relock"
        /\ (Sent' /\ daemon'.req \in Requests) \/ Unsent'
    BY <1>1, <2>1, AskSends
  <2> QED BY <2>1, <2>2 DEF RequestInv
<1>5. CASE (LockerDied /\ ~screenLocked) \/ LaunchFails
  <2>1. /\ daemon.pc = "idle" /\ Rest
        /\ UNCHANGED <<screenLocked, daemon, answer, appPort, broker, desktop, applied>>
    BY <1>5 DEF LockerDied, LaunchFails, RequestInv
  <2> QED BY <2>1 DEF RequestInv, Rest, Still, NoOrders, NoBroker
<1>6. CASE HandlerEnds
  <2>1. /\ daemon'.pc = "idle" /\ daemon'.req = NoRequest
        /\ answer' = "none" /\ applied' = {}
        /\ UNCHANGED <<appPort, broker, desktop>>
    BY <1>6 DEF HandlerEnds, LockAnswered, LockFails, UnlockAnswered, UnlockFails,
                RelockEnds, EndHandler, IdleDaemon
  <2>2. CASE Done /\ (LockAnswered \/ UnlockAnswered \/ RelockEnds)
    <3>1. screenLocked' = Wanted
      <4>1. CASE daemon.pc = "relock"
        BY <2>2, <4>1
           DEF RelockEnds, LockAnswered, UnlockAnswered, RequestInv, Wanted, TypeOK
      <4>2. CASE daemon.pc # "relock"
        BY <2>2, <4>2 DEF RelockEnds, LockAnswered, UnlockAnswered, Wanted
      <4> QED BY <4>1, <4>2
    <3> QED
      BY <2>1, <2>2, <3>1 DEF RequestInv, Done, Rest, Still, NoOrders, NoBroker
  <2>3. CASE Unsent /\ (LockFails \/ UnlockFails \/ RelockEnds)
    <3>1. screenLocked' = screenLocked
      BY <2>3 DEF LockFails, UnlockFails, RelockEnds
    <3> QED
      BY <2>1, <2>3, <3>1 DEF RequestInv, Unsent, Rest, Still, NoOrders, NoBroker
  <2> QED BY <1>6, <2>2, <2>3, EndsWhenDone
<1> QED BY <1>2, <1>3, <1>4, <1>5, <1>6

(* AppServer passes the order on to every Desktop. *)
LEMMA OrderPassedOn ==
  ASSUME TypeOK, AppServerAnswers, RequestInv, HandleOrder
  PROVE  RequestInv'
<1>1. "portFull" \notin Events
  BY DEF AppServerAnswers
<1>2. /\ appPort # <<>> /\ Head(appPort).what # "done"
      /\ UNCHANGED <<screenLocked, daemon, applied>>
  BY DEF HandleOrder, janus
<1>3. Sent /\ daemon.pc # "idle" /\ daemon.req \in Requests
  <2>1. ~Rest /\ ~Unsent /\ ~Done
    BY <1>2 DEF Rest, Unsent, Still, Done
  <2>2. ~PassedOn
    <3>1. SUFFICES ASSUME PassedOn PROVE FALSE
      OBVIOUS
    <3>2. 1 \in DOMAIN appPort /\ Head(appPort) = appPort[1]
      BY <1>2 DEF TypeOK
    <3> QED BY <1>2, <3>1, <3>2 DEF PassedOn, LockDone
  <2> QED BY <2>1, <2>2 DEF RequestInv
<1>4. PICK m \in Orders : IsAsked(m) /\ appPort = <<m>>
  BY <1>3 DEF Sent
<1>5. Head(appPort) = m /\ appPort' = <<>>
  BY <1>4 DEF HandleOrder
<1>6. /\ desktop' = [d \in Desktops |-> [desktop[d] EXCEPT !.port = Append(@, m)]]
      /\ broker' = [req |-> m.req, pending |-> Cardinality(Desktops)]
      /\ UNCHANGED answer
  <2>1. \E asked \in {Desktops} :
          /\ desktop' = [d \in Desktops |->
                           IF d \in asked
                             THEN [desktop[d] EXCEPT !.port = Append(@, m)]
                             ELSE desktop[d]]
          /\ IF asked = {}
               THEN broker' = NoBroker /\ Reply(m.req, "error")
               ELSE /\ broker' = [req |-> m.req, pending |-> Cardinality(asked)]
                    /\ UNCHANGED answer
    BY <1>1, <1>5 DEF HandleOrder
  <2>2. Desktops # {}
    BY LockConstants
  <2> QED BY <2>1, <2>2
<1>7. \A d \in Desktops : desktop'[d].port = <<m>>
  BY <1>3, <1>6 DEF Sent, NoOrders, TypeOK
<1>8. broker'.pending = Cardinality(Desktops \ applied') + Len(appPort')
  <2>1. Desktops \ applied' = Desktops /\ Len(appPort') = 0
    BY <1>2, <1>3, <1>5, EmptySeq DEF Sent
  <2>2. broker'.pending = Cardinality(Desktops)
    BY <1>6
  <2>3. Cardinality(Desktops \ applied') = Cardinality(Desktops)
    BY <2>1
  <2> QED BY <2>1, <2>2, <2>3, DesktopsCounted
<1>9. PassedOn'
  <2>1. IsAsked(m)'
    BY <1>2, <1>4 DEF IsAsked, Wanted
  <2>2. \A d \in Desktops : d \notin applied' /\ desktop'[d].port = <<m>>
    BY <1>2, <1>3, <1>7 DEF Sent
  <2>3. broker'.pending > 0 /\ broker'.req = daemon'.req
    BY <1>2, <1>4, <1>6, DesktopsCounted DEF IsAsked
  <2>4. answer' = "none" /\ DOMAIN appPort' = {}
    BY <1>3, <1>5, <1>6 DEF Sent
  <2> QED BY <1>8, <2>1, <2>2, <2>3, <2>4 DEF PassedOn
<1> QED BY <1>2, <1>3, <1>9 DEF RequestInv

(* AppServer counts an answer; the last one answers the request. *)
LEMMA AnswerCounted ==
  ASSUME TypeOK, RequestInv, HandleLockDone
  PROVE  RequestInv'
<1>1. /\ appPort # <<>> /\ Head(appPort).what = "done" /\ appPort' = Tail(appPort)
      /\ UNCHANGED <<screenLocked, daemon, applied, desktop>>
  BY DEF HandleLockDone, janus
<1>2. PassedOn /\ daemon.pc # "idle" /\ daemon.req \in Requests
  <2>1. ~Rest /\ ~Unsent /\ ~Done
    BY <1>1 DEF Rest, Unsent, Still, Done
  <2>2. ~Sent
    <3>1. SUFFICES ASSUME Sent PROVE FALSE
      OBVIOUS
    <3>2. Head(appPort) \in Orders
      BY <3>1 DEF Sent
    <3> QED BY <1>1, <3>2, DoneIsNoOrder
  <2> QED BY <2>1, <2>2 DEF RequestInv
<1>3. broker.req \in Requests /\ broker.req # NoRequest
  BY <1>2, LockConstants DEF PassedOn
<1>4. /\ Tail(appPort) \in Seq(Orders \cup {LockDone})
      /\ Len(Tail(appPort)) = Len(appPort) - 1 /\ Len(appPort) \in Nat \ {0}
      /\ \A i \in 1 .. Len(appPort) - 1 : Tail(appPort)[i] = appPort[i + 1]
  BY <1>1, HeadTailProperties, EmptySeq, LenProperties DEF TypeOK
<1>5. \A i \in DOMAIN appPort' : appPort'[i] = LockDone
  BY <1>1, <1>2, <1>4 DEF PassedOn
<1>6. Cardinality(Desktops \ applied) \in Nat
  BY LockConstants, FS_Difference, FS_CardinalityType
<1>7. CASE broker.pending = 1
  <2>1. broker' = NoBroker /\ Reply(broker.req, "ok")
    BY <1>3, <1>7 DEF HandleLockDone
  <2>2. answer' = "ok"
    BY <1>2, <2>1 DEF Reply, PassedOn
  <2>3. Cardinality(Desktops \ applied) = 0 /\ Len(appPort') = 0
    BY <1>1, <1>2, <1>4, <1>6, <1>7 DEF PassedOn
  <2>4. applied = Desktops
    <3>1. Desktops \ applied = {}
      BY <2>3, LockConstants, FS_Difference, FS_EmptySet
    <3> QED BY <3>1 DEF TypeOK
  <2>5. appPort' = <<>>
    BY <1>1, <1>4, <2>3, EmptySeq
  <2>6. Done'
    BY <1>1, <1>2, <2>1, <2>2, <2>4, <2>5 DEF Done, PassedOn, NoOrders, NoBroker, Wanted
  <2> QED BY <1>1, <1>2, <2>6 DEF RequestInv
<1>8. CASE broker.pending # 1
  <2>1. broker.pending \in Nat /\ broker.pending > 1
    BY <1>2, <1>4, <1>6, <1>8 DEF PassedOn
  <2>2. broker' = [broker EXCEPT !.pending = broker.pending - 1] /\ UNCHANGED answer
    BY <2>1 DEF HandleLockDone
  <2>3. broker'.pending = broker.pending - 1 /\ broker'.req = broker.req
    BY <2>2 DEF TypeOK
  <2>4. /\ broker'.pending = Cardinality(Desktops \ applied) + Len(appPort')
        /\ broker'.pending > 0
    BY <1>1, <1>2, <1>4, <1>6, <2>1, <2>3 DEF PassedOn
  <2>5. PassedOn'
    BY <1>1, <1>2, <1>5, <2>2, <2>3, <2>4 DEF PassedOn, IsAsked, Wanted
  <2> QED BY <1>1, <1>2, <2>5 DEF RequestInv
<1> QED BY <1>7, <1>8

(* A Desktop applies the order: it changes from those asked to those done. *)
LEMMA OrderApplied ==
  ASSUME TypeOK, RequestInv, NEW d \in Desktops, ApplyOrder(d)
  PROVE  RequestInv'
<1>1. /\ desktop[d].port # <<>> /\ appPort' = Append(appPort, LockDone)
      /\ desktop' = [desktop EXCEPT ![d] = AfterOrder(d, Head(desktop[d].port))]
      /\ applied' = IF Head(desktop[d].port).req = daemon.req
                      THEN applied \cup {d} ELSE applied
      /\ UNCHANGED <<screenLocked, daemon, answer, broker>>
  BY DEF ApplyOrder, janus
<1>2. PassedOn /\ daemon.pc # "idle" /\ daemon.req \in Requests
  BY <1>1 DEF RequestInv, Rest, Unsent, Still, Sent, Done, NoOrders
<1>3. d \notin applied
  BY <1>1, <1>2 DEF PassedOn
<1>4. PICK m \in Orders : IsAsked(m) /\ desktop[d].port = <<m>>
  BY <1>2, <1>3 DEF PassedOn
<1>5. Head(desktop[d].port) = m /\ applied' = applied \cup {d}
  BY <1>1, <1>4 DEF IsAsked
<1>6. /\ desktop'[d].port = <<>> /\ desktop'[d].locked = (m.what = "lock")
      /\ \A e \in Desktops \ {d} : desktop'[e] = desktop[e]
  BY <1>1, <1>4, <1>5 DEF AfterOrder, TypeOK
<1>7. (m.what = "lock") = Wanted
  <2>1. (m.what = "lock") <=> Wanted
    BY <1>4 DEF IsAsked
  <2>2. Wanted \in BOOLEAN
    BY DEF Wanted
  <2> QED BY <2>1, <2>2
<1>8. /\ Len(appPort') = Len(appPort) + 1 /\ Len(appPort) \in Nat
      /\ \A i \in DOMAIN appPort' : appPort'[i] = LockDone
  BY <1>1, <1>2, AppendProperties, LenProperties DEF TypeOK, PassedOn
<1>9. /\ Cardinality(Desktops \ applied) \in Nat \ {0}
      /\ Cardinality(Desktops \ applied') = Cardinality(Desktops \ applied) - 1
  <2>1. IsFiniteSet(Desktops \ applied) /\ d \in Desktops \ applied
    BY <1>3, LockConstants, FS_Difference
  <2>2. Desktops \ applied' = (Desktops \ applied) \ {d}
    BY <1>5
  <2>3. Cardinality(Desktops \ applied) \in Nat /\ Cardinality(Desktops \ applied) # 0
    BY <2>1, FS_CardinalityType, FS_EmptySet
  <2> QED BY <2>1, <2>2, <2>3, FS_RemoveElement
<1>10. broker'.pending = Cardinality(Desktops \ applied') + Len(appPort')
  BY <1>1, <1>2, <1>8, <1>9 DEF PassedOn
<1>11. \A e \in Desktops :
         IF e \in applied'
           THEN desktop'[e].port = <<>> /\ desktop'[e].locked = Wanted
           ELSE \E o \in Orders : IsAsked(o) /\ desktop'[e].port = <<o>>
  <2> SUFFICES ASSUME NEW e \in Desktops
               PROVE  IF e \in applied'
                        THEN desktop'[e].port = <<>> /\ desktop'[e].locked = Wanted
                        ELSE \E o \in Orders : IsAsked(o) /\ desktop'[e].port = <<o>>
    OBVIOUS
  <2>1. CASE e = d
    BY <1>5, <1>6, <1>7, <2>1
  <2>2. CASE e # d
    BY <1>2, <1>5, <1>6, <2>2 DEF PassedOn
  <2> QED BY <2>1, <2>2
<1>12. PassedOn'
  <2>1. /\ answer' = "none" /\ broker' = broker /\ daemon' = daemon
        /\ broker.req = daemon.req /\ broker.pending > 0
    BY <1>1, <1>2 DEF PassedOn
  <2>2. Wanted' = Wanted /\ \A o \in Orders : IsAsked(o)' <=> IsAsked(o)
    BY <1>1 DEF IsAsked, Wanted
  <2>3. \A e \in Desktops :
          IF e \in applied'
            THEN desktop'[e].port = <<>> /\ desktop'[e].locked = Wanted'
            ELSE \E o \in Orders : IsAsked(o)' /\ desktop'[e].port = <<o>>
    BY <1>11, <2>2
  <2> QED BY <1>8, <1>10, <2>1, <2>3 DEF PassedOn
<1> QED BY <1>1, <1>2, <1>12 DEF RequestInv

LEMMA RequestNext ==
  ASSUME AppServerAnswers, TypeOK, RequestInv, [Next]_vars
  PROVE  RequestInv'
<1>1. CASE UNCHANGED vars
  BY <1>1 DEF vars, RequestInv, Rest, Unsent, Still, Sent, PassedOn, Done,
     NoOrders, NoBroker, IsAsked,
     Wanted
<1>2. ASSUME NEW p \in Lockers, LockerStep(p) PROVE RequestInv'
  <2>1. UNCHANGED <<screenLocked, daemon, answer, appPort, broker, desktop, applied>>
    BY <1>2 DEF LockerStep, OpenWindow, Crash, CloseWindow, Exit, server, janus
  <2> QED BY <2>1 DEF RequestInv, Rest, Unsent, Still, Sent, PassedOn, Done,
     NoOrders, NoBroker,
             IsAsked, Wanted
<1> QED
  BY <1>1, <1>2, RequestDaemon, OrderPassedOn, AnswerCounted, OrderApplied DEF Next

THEOREM RequestInvariant ==
  ASSUME AppServerAnswers PROVE Spec => []RequestInv
BY TypeInit, TypeNext, TypeCorrect, RequestInit, RequestNext, PTL DEF Spec

(* When app_server answers, janus and every Desktop agree whenever no      *)
(* request is under way, for any number of Desktops and lockers, through   *)
(* crashes and failed launches of the locker and requests that could not   *)
(* be sent.                                                                *)
THEOREM StatesAgree ==
  ASSUME AppServerAnswers PROVE Spec => []LockStatesAgree
<1>1. TypeOK /\ RequestInv => LockStatesAgree
  BY DEF RequestInv, Rest, Still, LockStatesAgree, AllLocked, AllUnlocked, TypeOK
<1> QED BY <1>1, TypeCorrect, RequestInvariant, PTL

(* When app_server answers, janus is told that a request succeeded only    *)
(* after every Desktop applied it.                                         *)
THEOREM ReplyAfterAll ==
  ASSUME AppServerAnswers PROVE Spec => []RepliesOnceAllHave
<1>1. RequestInv => RepliesOnceAllHave
  BY DEF RequestInv, Rest, Unsent, Sent, PassedOn, Done, RepliesOnceAllHave
<1> QED BY <1>1, RequestInvariant, PTL

(* janus does not wait in vain: while its handler has no answer, its order *)
(* is at AppServer, a Desktop has still to apply it, or a completion that  *)
(* AppServer counts on is in its port.                                     *)
RequestIsUnderWay ==
  daemon.pc # "idle" /\ answer = "none" =>
    \/ \E i \in DOMAIN appPort : appPort[i].what # "done" /\ appPort[i].req = daemon.req
    \/ /\ broker.req = daemon.req /\ broker.pending > 0
       /\ \/ \E d \in Desktops : \E i \in DOMAIN desktop[d].port :
               desktop[d].port[i].req = daemon.req
          \/ appPort # <<>> /\ Head(appPort) = LockDone

(* The count of open completions is never too high: as long as app_server  *)
(* answers, no request waits for a Desktop that has nothing to do.         *)
THEOREM NoRequestIsLost ==
  ASSUME AppServerAnswers PROVE Spec => []RequestIsUnderWay
<1>1. ASSUME TypeOK, RequestInv, daemon.pc # "idle", answer = "none"
      PROVE  RequestIsUnderWay
  <2>1. CASE Sent
    <3>1. PICK m \in Orders : IsAsked(m) /\ appPort = <<m>>
      BY <2>1 DEF Sent
    <3>2. 1 \in DOMAIN appPort /\ appPort[1] = m
      BY <3>1
    <3> QED BY <3>1, <3>2, DoneIsNoOrder DEF IsAsked, RequestIsUnderWay
  <2>2. CASE PassedOn
    <3>1. CASE Desktops \ applied # {}
      <4>1. PICK d \in Desktops : d \notin applied
        BY <3>1
      <4>2. PICK m \in Orders : IsAsked(m) /\ desktop[d].port = <<m>>
        BY <2>2, <4>1 DEF PassedOn
      <4>3. 1 \in DOMAIN desktop[d].port /\ desktop[d].port[1].req = daemon.req
        BY <4>2 DEF IsAsked
      <4> QED BY <2>2, <4>3 DEF PassedOn, RequestIsUnderWay
    <3>2. CASE Desktops \ applied = {}
      <4>1. Cardinality(Desktops \ applied) = 0
        BY <3>2, FS_EmptySet
      <4>2. Len(appPort) > 0 /\ Len(appPort) \in Nat
        BY <2>2, <4>1, <1>1 DEF PassedOn, TypeOK
      <4>3. appPort # <<>> /\ 1 \in DOMAIN appPort /\ Head(appPort) = appPort[1]
        BY <4>2, <1>1 DEF TypeOK
      <4> QED BY <2>2, <4>3 DEF PassedOn, RequestIsUnderWay
    <3> QED BY <3>1, <3>2
  <2> QED BY <1>1, <2>1, <2>2 DEF RequestInv, Done, Unsent
<1>2. TypeOK /\ RequestInv => RequestIsUnderWay
  BY <1>1 DEF RequestIsUnderWay
<1> QED BY <1>2, TypeCorrect, RequestInvariant, PTL

-----------------------------------------------------------------------------
(* The LockService that ScreenLock implements. *)

Asking == IF daemon.req = NoRequest THEN "none"
          ELSE IF daemon.pc = "unlock" THEN "unlock" ELSE "lock"
AreLocked == [d \in Desktops |-> desktop[d].locked]
ServiceStep == Service!Next \/ UNCHANGED <<screenLocked, Asking, AreLocked>>

LEMMA AskingIsWanted ==
  ASSUME TypeOK, daemon.req \in Requests
  PROVE  Asking # "none" /\ (Asking = "lock") = Wanted
BY LockConstants DEF Asking, Wanted

LEMMA ServiceDaemon ==
  ASSUME TypeOK, AppServerAnswers, RequestInv,
         LockSession \/ UnlockAuth \/ LockerDied \/ LaunchFails \/ HandlerEnds
  PROVE  ServiceStep
<1> USE DEF server, janus
<1>1. ASSUME NEW h \in {"lock", "unlock", "relock"}, NEW what \in {"lock", "unlock"},
             NEW team, what = "unlock" => screenLocked,
             (what = "unlock") <=> (h = "unlock"), daemon.pc = "idle",
             Ask(h, what, team), UNCHANGED <<screenLocked, desktop>>
      PROVE  ServiceStep
  <2>1. \E r \in Requests \cup {NoRequest} : daemon' = [pc |-> h, req |-> r]
    <3>1. Ask(h, what, team)
      BY <1>1
    <3> QED BY <3>1 DEF Ask
  <2>2. Asking = "none" /\ Asking' \in {"none", what} /\ AreLocked' = AreLocked
    BY <1>1, <2>1 DEF Asking, AreLocked, RequestInv, Rest, Still
  <2>3. CASE Asking' = what
    <3>1. Service!Ask(what)
      BY <1>1, <2>2, <2>3 DEF Service!Ask, Asking, AreLocked
    <3> QED BY <3>1 DEF ServiceStep, Service!Next
  <2>4. CASE Asking' = "none"
    BY <1>1, <2>2, <2>4 DEF ServiceStep
  <2> QED BY <2>2, <2>3, <2>4
<1>2. CASE LockSession
  BY <1>1, <1>2 DEF LockSession
<1>3. CASE UnlockAuth
  BY <1>1, <1>3 DEF UnlockAuth
<1>4. CASE LockerDied /\ screenLocked
  BY <1>1, <1>4 DEF LockerDied
<1>5. CASE (LockerDied /\ ~screenLocked) \/ LaunchFails
  <2>1. UNCHANGED <<screenLocked, daemon, desktop>>
    BY <1>5 DEF LockerDied, LaunchFails
  <2> QED BY <2>1 DEF ServiceStep, Asking, AreLocked
<1>6. CASE HandlerEnds
  <2>1. Asking' = "none" /\ AreLocked' = AreLocked
    BY <1>6 DEF HandlerEnds, LockAnswered, LockFails, UnlockAnswered, UnlockFails,
                RelockEnds, EndHandler, IdleDaemon, Asking, AreLocked
  <2>2. CASE /\ Done /\ daemon.req \in Requests
             /\ LockAnswered \/ UnlockAnswered \/ RelockEnds
    <3>1. \A d \in Desktops : AreLocked[d] = (Asking = "lock")
      BY <2>2, AskingIsWanted DEF Done, AreLocked
    <3>2. screenLocked' = (Asking = "lock")
      <4>1. (Asking = "lock") = Wanted
        BY <2>2, AskingIsWanted
      <4>2. CASE daemon.pc = "relock"
        BY <2>2, <4>1, <4>2
           DEF RelockEnds, LockAnswered, UnlockAnswered, RequestInv, Wanted, TypeOK
      <4>3. CASE daemon.pc # "relock"
        BY <2>2, <4>1, <4>3 DEF RelockEnds, LockAnswered, UnlockAnswered, Wanted
      <4> QED BY <4>2, <4>3
    <3>3. Service!Record
      BY <2>1, <2>2, <3>1, <3>2, AskingIsWanted
         DEF Service!Record, Asking, AreLocked
    <3> QED BY <3>3 DEF ServiceStep, Service!Next
  <2>3. CASE Unsent /\ (LockFails \/ UnlockFails \/ RelockEnds)
    <3>1. screenLocked' = screenLocked /\ Asking = "none"
      BY <2>3 DEF LockFails, UnlockFails, RelockEnds, Unsent, Still, Asking
    <3> QED BY <2>1, <3>1 DEF ServiceStep
  <2> QED BY <1>6, <2>2, <2>3, EndsWhenDone
<1> QED BY <1>2, <1>3, <1>4, <1>5, <1>6

LEMMA ServiceApply ==
  ASSUME TypeOK, RequestInv, NEW d \in Desktops, ApplyOrder(d)
  PROVE  ServiceStep
<1>1. /\ desktop[d].port # <<>> /\ UNCHANGED <<screenLocked, daemon>>
      /\ desktop' = [desktop EXCEPT ![d] = AfterOrder(d, Head(desktop[d].port))]
  BY DEF ApplyOrder, janus
<1>2. PassedOn /\ daemon.req \in Requests
  BY <1>1 DEF RequestInv, Rest, Unsent, Still, Sent, Done, NoOrders
<1>3. PICK m \in Orders : IsAsked(m) /\ desktop[d].port = <<m>>
  BY <1>1, <1>2 DEF PassedOn
<1>4. (Head(desktop[d].port).what = "lock") = (Asking = "lock")
  <2>1. Head(desktop[d].port) = m
    BY <1>3
  <2>2. (m.what = "lock") <=> Wanted
    BY <1>3 DEF IsAsked
  <2>3. (Asking = "lock") = Wanted
    BY <1>2, AskingIsWanted
  <2> QED BY <2>1, <2>2, <2>3 DEF Wanted
<1>5. /\ desktop'[d].locked = (Asking = "lock")
      /\ \A e \in Desktops \ {d} : desktop'[e] = desktop[e]
  BY <1>1, <1>4 DEF AfterOrder, TypeOK
<1>6. AreLocked' = [AreLocked EXCEPT ![d] = (Asking = "lock")]
  BY <1>5 DEF AreLocked
<1>7. Asking' = Asking /\ Asking # "none"
  BY <1>1, <1>2, AskingIsWanted DEF Asking
<1>8. Service!Apply(d)
  BY <1>1, <1>6, <1>7 DEF Service!Apply, Asking, AreLocked
<1> QED BY <1>8 DEF ServiceStep, Service!Next

LEMMA ServiceRefined ==
  ASSUME TypeOK, AppServerAnswers, RequestInv, [Next]_vars
  PROVE  [Service!Next]_(Service!vars)
<1> SUFFICES ServiceStep
  BY DEF ServiceStep, Service!vars, Asking, AreLocked
<1> DEFINE Same == /\ screenLocked' = screenLocked /\ daemon' = daemon
                   /\ \A d \in Desktops : desktop'[d].locked = desktop[d].locked
<1>1. Same => ServiceStep
  BY DEF ServiceStep, Asking, AreLocked
<1>2. CASE HandleOrder
  <2>1. UNCHANGED <<screenLocked, daemon>>
    BY <1>2 DEF HandleOrder, janus
  <2>2. PICK asked \in SUBSET Desktops :
          desktop' = [d \in Desktops |->
                        IF d \in asked
                          THEN [desktop[d] EXCEPT !.port = Append(@, Head(appPort))]
                          ELSE desktop[d]]
    BY <1>2 DEF HandleOrder
  <2>3. \A d \in Desktops : desktop'[d].locked = desktop[d].locked
    BY <2>2 DEF TypeOK
  <2> QED BY <1>1, <2>1, <2>3
<1>3. CASE HandleLockDone \/ (\E p \in Lockers : LockerStep(p)) \/ UNCHANGED vars
  <2>1. UNCHANGED <<screenLocked, daemon, desktop>>
    BY <1>3 DEF HandleLockDone, LockerStep, OpenWindow, Crash, CloseWindow, Exit, janus,
       vars
  <2> QED BY <1>1, <2>1
<1> QED BY <1>2, <1>3, ServiceDaemon, ServiceApply DEF Next

(* When app_server answers, every step of janus, the broker, the Desktops  *)
(* and the lockers is one of LockService, or leaves it as it is.  (That no *)
(* request stays open is left to TLC.)                                     *)
THEOREM ServiceSteps ==
  ASSUME AppServerAnswers
  PROVE  Spec => Service!Init /\ [][Service!Next]_(Service!vars)
<1>1. Init => Service!Init
  BY DEF Init, Service!Init, IdleDaemon
<1>2. TypeOK /\ RequestInv /\ [Next]_vars => [Service!Next]_(Service!vars)
  BY ServiceRefined
<1> QED BY <1>1, <1>2, TypeCorrect, RequestInvariant, PTL DEF Spec

-----------------------------------------------------------------------------
(* The last order wins, answered or not: what janus asked for last is at   *)
(* AppServer behind all other orders, or at a Desktop behind all others,   *)
(* or applied.                                                             *)
AllDone == \A i \in DOMAIN appPort : appPort[i].what = "done"
LastOrder(i) ==
  /\ i \in DOMAIN appPort /\ appPort[i].what # "done"
  /\ \A j \in DOMAIN appPort : j > i => appPort[j].what = "done"
LastAsked(d) ==
  /\ \A i \in DOMAIN appPort : LastOrder(i) => appPort[i].what = last.what
  /\ AllDone /\ desktop[d].port # <<>>
       => desktop[d].port[Len(desktop[d].port)].what = last.what
  /\ AllDone /\ desktop[d].port = <<>> /\ last.what # "none"
       => desktop[d].locked = (last.what = "lock")
OrderInv == \A d \in Desktops : LastAsked(d)

LEMMA OrderInit == Init => OrderInv
BY DEF Init, OrderInv, LastAsked, AllDone

(* A new order is the last one. *)
LEMMA NewOrder ==
  ASSUME TypeOK, NEW m \in Orders, appPort' = Append(appPort, m),
         last'.what = m.what
  PROVE  OrderInv'
<1>1. /\ Len(appPort) \in Nat /\ Len(appPort') = Len(appPort) + 1
      /\ DOMAIN appPort' = 1 .. Len(appPort')
      /\ appPort'[Len(appPort')] = m
  BY AppendProperties, LenProperties DEF TypeOK
<1>2. m.what # "done"
  BY DoneIsNoOrder
<1>3. ~AllDone'
  BY <1>1, <1>2 DEF AllDone
<1>4. \A i \in DOMAIN appPort' : LastOrder(i)' => i = Len(appPort')
  BY <1>1, <1>2 DEF LastOrder
<1> QED BY <1>1, <1>3, <1>4 DEF OrderInv, LastAsked

LEMMA OrderSame ==
  ASSUME OrderInv, UNCHANGED <<appPort, desktop>>, last'.what = last.what
  PROVE  OrderInv'
BY DEF OrderInv, LastAsked, LastOrder, AllDone

LEMMA AskOrders ==
  ASSUME TypeOK, OrderInv, NEW h, NEW what \in {"lock", "unlock"},
         NEW team \in Lockers \cup {NoLocker}, Ask(h, what, team), UNCHANGED desktop
  PROVE  OrderInv'
<1>1. CASE UNCHANGED <<appPort, last>>
  BY <1>1, OrderSame
<1>2. CASE ~UNCHANGED <<appPort, last>>
  <2>1. PICK r \in Requests :
          /\ appPort' = Append(appPort, [what |-> what, req |-> r, team |-> team])
          /\ last' = [what |-> what, seen |-> FALSE]
    BY <1>2 DEF Ask
  <2>2. [what |-> what, req |-> r, team |-> team] \in Orders
    BY DEF Orders
  <2> QED BY <2>1, <2>2, NewOrder
<1> QED BY <1>1, <1>2

LEMMA OrderDaemon ==
  ASSUME TypeOK, OrderInv,
         LockSession \/ UnlockAuth \/ LockerDied \/ LaunchFails \/ HandlerEnds
  PROVE  OrderInv'
<1> USE DEF server, janus
<1>1. ASSUME LaunchUnlockApp PROVE unlockApp' \in Lockers \cup {NoLocker}
  BY <1>1 DEF LaunchUnlockApp, TypeOK
<1>2. CASE LockSession
  BY <1>1, <1>2, AskOrders DEF LockSession
<1>3. CASE UnlockAuth
  BY <1>3, AskOrders DEF UnlockAuth
<1>4. CASE LockerDied /\ screenLocked
  BY <1>1, <1>4, AskOrders DEF LockerDied
<1>5. CASE (LockerDied /\ ~screenLocked) \/ LaunchFails
  BY <1>5, OrderSame DEF LockerDied, LaunchFails
<1>6. CASE HandlerEnds
  <2>1. last' = last \/ last' = [last EXCEPT !.seen = TRUE]
    BY <1>6 DEF HandlerEnds, LockAnswered, LockFails, UnlockAnswered, UnlockFails,
       RelockEnds, Answered, Unanswered
  <2>2. last'.what = last.what
    BY <2>1 DEF TypeOK
  <2>3. UNCHANGED <<appPort, desktop>>
    BY <1>6 DEF HandlerEnds, LockAnswered, LockFails, UnlockAnswered, UnlockFails,
       RelockEnds
  <2> QED BY <2>2, <2>3, OrderSame
<1> QED BY <1>2, <1>3, <1>4, <1>5, <1>6

(* What is behind the head of AppServer's port keeps its place. *)
LEMMA TakenFromPort ==
  ASSUME TypeOK, appPort # <<>>, appPort' = Tail(appPort)
  PROVE  /\ Head(appPort) = appPort[1] /\ 1 \in DOMAIN appPort
         /\ DOMAIN appPort \subseteq Nat \ {0}
         /\ \A i \in DOMAIN appPort' : i \in Nat /\ i + 1 \in DOMAIN appPort
                                       /\ appPort'[i] = appPort[i + 1]
         /\ \A i \in DOMAIN appPort \ {1} : i - 1 \in DOMAIN appPort'
                                            /\ appPort'[i - 1] = appPort[i]
<1>1. /\ Len(appPort) \in Nat /\ Len(appPort) # 0 /\ DOMAIN appPort = 1 .. Len(appPort)
      /\ Len(appPort') = Len(appPort) - 1 /\ DOMAIN appPort' = 1 .. Len(appPort')
      /\ \A i \in 1 .. Len(appPort') : appPort'[i] = appPort[i + 1]
      /\ Head(appPort) = appPort[1]
  BY HeadTailProperties, EmptySeq, LenProperties DEF TypeOK
<1> QED BY <1>1

LEMMA LastOrderTaken ==
  ASSUME TypeOK, OrderInv, appPort # <<>>, appPort' = Tail(appPort),
         last' = last, NEW d \in Desktops
  PROVE  /\ \A i \in DOMAIN appPort' : LastOrder(i)' => appPort'[i].what = last'.what
         /\ AllDone' /\ Head(appPort).what # "done" => Head(appPort).what = last.what
         /\ AllDone' /\ Head(appPort).what = "done" => AllDone
<1> USE TakenFromPort
<1>1. ASSUME NEW i \in DOMAIN appPort', LastOrder(i)'
      PROVE  appPort'[i].what = last'.what
  <2>1. i + 1 \in DOMAIN appPort /\ appPort'[i] = appPort[i + 1] /\ i \in Nat
    OBVIOUS
  <2>2. ASSUME NEW j \in DOMAIN appPort, j > i + 1 PROVE appPort[j].what = "done"
    <3>1. j \in Nat /\ j # 1
      BY <2>1, <2>2
    <3>2. j - 1 \in DOMAIN appPort' /\ appPort'[j - 1] = appPort[j] /\ j - 1 > i
      BY <2>1, <2>2, <3>1
    <3> QED BY <1>1, <3>2 DEF LastOrder
  <2>3. LastOrder(i + 1)
    BY <1>1, <2>1, <2>2 DEF LastOrder
  <2> QED BY <2>1, <2>3 DEF OrderInv, LastAsked
<1>2. ASSUME AllDone' PROVE \A j \in DOMAIN appPort \ {1} : appPort[j].what = "done"
  <2>1. \A i \in DOMAIN appPort' : appPort'[i].what = "done"
    BY <1>2 DEF AllDone
  <2>2. ASSUME NEW j \in DOMAIN appPort \ {1} PROVE appPort[j].what = "done"
    <3>1. j - 1 \in DOMAIN appPort' /\ appPort'[j - 1] = appPort[j]
      OBVIOUS
    <3> QED BY <2>1, <3>1
  <2> QED BY <2>2
<1>3. ASSUME AllDone', Head(appPort).what # "done" PROVE Head(appPort).what = last.what
  <2>1. LastOrder(1)
    BY <1>2, <1>3 DEF LastOrder
  <2> QED BY <2>1 DEF OrderInv, LastAsked
<1>4. ASSUME AllDone', Head(appPort).what = "done" PROVE AllDone
  BY <1>2, <1>4 DEF AllDone
<1> QED BY <1>1, <1>3, <1>4

LEMMA OrderServer ==
  ASSUME TypeOK, OrderInv, "portFull" \notin Events, HandleOrder \/ HandleLockDone
  PROVE  OrderInv'
<1>1. appPort # <<>> /\ appPort' = Tail(appPort) /\ last' = last
  BY DEF HandleOrder, HandleLockDone
<1> SUFFICES ASSUME NEW d \in Desktops PROVE LastAsked(d)'
  BY DEF OrderInv
<1>2. /\ \A i \in DOMAIN appPort' : LastOrder(i)' => appPort'[i].what = last'.what
      /\ AllDone' /\ Head(appPort).what # "done" => Head(appPort).what = last.what
      /\ AllDone' /\ Head(appPort).what = "done" => AllDone
  BY <1>1, LastOrderTaken
<1>3. CASE HandleOrder
  <2>1. Head(appPort) \in Orders /\ Head(appPort).what # "done"
    BY <1>1, <1>3, AppPortHead DEF HandleOrder, TypeOK
  <2>2. desktop' = [e \in Desktops |->
                      [desktop[e] EXCEPT !.port = Append(@, Head(appPort))]]
    <3>1. PICK asked \in {Desktops} :
            desktop' = [e \in Desktops |->
                          IF e \in asked
                            THEN [desktop[e] EXCEPT !.port = Append(@, Head(appPort))]
                            ELSE desktop[e]]
      BY <1>3 DEF HandleOrder
    <3> QED BY <3>1
  <2>3. desktop'[d].port = Append(desktop[d].port, Head(appPort))
    BY <2>2 DEF TypeOK
  <2>4. desktop[d].port \in Seq(Orders)
    BY DEF TypeOK
  <2>5. desktop'[d].port[Len(desktop'[d].port)] = Head(appPort) /\ desktop'[d].port # <<>>
    BY <2>1, <2>3, <2>4, AppendProperties
  <2> QED BY <1>1, <1>2, <2>1, <2>5 DEF LastAsked
<1>4. CASE HandleLockDone
  <2>1. Head(appPort).what = "done" /\ desktop' = desktop
    BY <1>4 DEF HandleLockDone
  <2>2. LastAsked(d)
    BY DEF OrderInv
  <2> QED BY <1>1, <1>2, <2>1, <2>2 DEF LastAsked
<1> QED BY <1>3, <1>4

LEMMA OrderDesktop ==
  ASSUME TypeOK, OrderInv, NEW e \in Desktops, ApplyOrder(e)
  PROVE  OrderInv'
<1>1. /\ desktop[e].port # <<>> /\ appPort' = Append(appPort, LockDone)
      /\ desktop' = [desktop EXCEPT ![e] = AfterOrder(e, Head(desktop[e].port))]
      /\ last' = last
  BY DEF ApplyOrder
<1>2. /\ DOMAIN appPort \subseteq Nat
      /\ \A i \in DOMAIN appPort : i \in DOMAIN appPort' /\ appPort'[i] = appPort[i]
      /\ \A i \in DOMAIN appPort' \ DOMAIN appPort : appPort'[i] = LockDone
  <2>1. /\ Len(appPort) \in Nat /\ DOMAIN appPort = 1 .. Len(appPort)
        /\ Len(appPort') = Len(appPort) + 1 /\ DOMAIN appPort' = 1 .. Len(appPort')
        /\ appPort'[Len(appPort')] = LockDone
        /\ \A i \in 1 .. Len(appPort) : appPort'[i] = appPort[i]
    BY <1>1, AppendProperties, LenProperties DEF TypeOK
  <2> QED BY <2>1
<1>3. AllDone' => AllDone
  BY <1>2 DEF AllDone
<1>4. \A i \in DOMAIN appPort' :
        LastOrder(i)' => LastOrder(i) /\ appPort'[i].what = appPort[i].what
  BY <1>2, DoneIsNoOrder DEF LastOrder
<1> SUFFICES ASSUME NEW d \in Desktops PROVE LastAsked(d)'
  BY DEF OrderInv
<1>5. LastAsked(d)
  BY DEF OrderInv
<1>6. \A i \in DOMAIN appPort' : LastOrder(i)' => appPort'[i].what = last'.what
  BY <1>1, <1>4, <1>5 DEF LastAsked, LastOrder
<1>7. CASE d # e
  <2>1. desktop'[d] = desktop[d]
    BY <1>1, <1>7 DEF TypeOK
  <2> QED BY <1>1, <1>3, <1>5, <1>6, <2>1 DEF LastAsked
<1>8. CASE d = e
  <2> DEFINE q == desktop[d].port
  <2>1. /\ desktop'[d].port = Tail(q)
        /\ desktop'[d].locked = (Head(q).what = "lock")
    BY <1>1, <1>8 DEF AfterOrder, TypeOK
  <2>2. q \in Seq(Orders) /\ q # <<>>
    BY <1>1, <1>8 DEF TypeOK
  <2> HIDE DEF q
  <2>3. /\ Tail(q) \in Seq(Orders) /\ Len(q) \in Nat /\ Len(q) # 0
        /\ Len(Tail(q)) = Len(q) - 1 /\ Head(q) = q[1]
        /\ \A i \in 1 .. Len(q) - 1 : Tail(q)[i] = q[i + 1]
    BY <2>2, HeadTailProperties, EmptySeq, LenProperties
  <2>4. Tail(q) # <<>> => Tail(q)[Len(Tail(q))] = q[Len(q)]
    BY <2>3, EmptySeq
  <2>5. ASSUME Tail(q) = <<>> PROVE Head(q) = q[Len(q)]
    <3>1. Len(Tail(q)) = 0
      BY <2>5, EmptySeq
    <3> DEFINE n == Len(q)
    <3>2. n \in Nat /\ 0 = n - 1 /\ Head(q) = q[1]
      BY <2>3, <3>1
    <3> HIDE DEF n
    <3>3. n = 1
      BY <3>2
    <3> QED BY <3>2, <3>3 DEF n
  <2>6. AllDone' => q[Len(q)].what = last.what
    BY <1>3, <1>5, <2>2 DEF LastAsked, q
  <2> QED BY <1>1, <1>6, <2>1, <2>4, <2>5, <2>6 DEF LastAsked
<1> QED BY <1>7, <1>8

(* Before the first order there is nothing to answer. *)
NoneYet ==
  last.what = "none" =>
    ~last.seen /\ answer # "ok" /\ appPort = <<>> /\ NoOrders

LEMMA NoneYetNext ==
  ASSUME TypeOK, NoneYet, [Next]_vars PROVE NoneYet'
<1> USE DEF server, janus
<1>1. CASE HandlerEnds
  <2>1. last' = last \/ (answer = "ok" /\ last' = [last EXCEPT !.seen = TRUE])
    BY <1>1 DEF HandlerEnds, LockAnswered, LockFails, UnlockAnswered, UnlockFails,
       RelockEnds, Answered, Unanswered
  <2>2. answer' = "none" /\ UNCHANGED <<appPort, desktop>>
    BY <1>1 DEF HandlerEnds, LockAnswered, LockFails, UnlockAnswered, UnlockFails,
       RelockEnds, EndHandler
  <2> QED BY <2>1, <2>2 DEF NoneYet, NoOrders, TypeOK
<1>2. ASSUME NEW h, NEW what \in {"lock", "unlock"}, NEW team, Ask(h, what, team),
             UNCHANGED desktop
      PROVE  NoneYet'
  <2>1. \/ last' = [what |-> what, seen |-> FALSE]
        \/ answer' = "error" /\ UNCHANGED <<appPort, last>>
    BY <1>2, Zenon DEF Ask
  <2> QED BY <1>2, <2>1 DEF NoneYet, NoOrders
<1>3. CASE LockSession
  BY <1>2, <1>3 DEF LockSession
<1>4. CASE UnlockAuth
  BY <1>2, <1>4 DEF UnlockAuth
<1>5. CASE LockerDied /\ screenLocked
  BY <1>2, <1>5 DEF LockerDied
<1>6. CASE \/ HandleOrder \/ HandleLockDone
           \/ \E d \in Desktops : ApplyOrder(d)
  <2>1. last' = last
    BY <1>6 DEF HandleOrder, HandleLockDone, ApplyOrder
  <2>2. appPort # <<>> \/ ~NoOrders
    BY <1>6 DEF HandleOrder, HandleLockDone, ApplyOrder, NoOrders
  <2> QED BY <2>1, <2>2 DEF NoneYet
<1>7. CASE \/ (LockerDied /\ ~screenLocked) \/ LaunchFails
           \/ (\E p \in Lockers : LockerStep(p)) \/ UNCHANGED vars
  <2>1. UNCHANGED <<answer, appPort, desktop, last>>
    BY <1>7 DEF LockerDied, LaunchFails, LockerStep, OpenWindow, Crash, CloseWindow,
       Exit, vars
  <2> QED BY <2>1 DEF NoneYet, NoOrders
<1> QED BY <1>1, <1>3, <1>4, <1>5, <1>6, <1>7 DEF Next

LEMMA OrderNext ==
  ASSUME "portFull" \notin Events, TypeOK, OrderInv, [Next]_vars
  PROVE  OrderInv'
<1>1. CASE UNCHANGED vars
  BY <1>1, OrderSame DEF vars
<1>2. CASE \E p \in Lockers : LockerStep(p)
  BY <1>2, OrderSame DEF LockerStep, OpenWindow, Crash, CloseWindow, Exit, server, janus
<1> QED BY <1>1, <1>2, OrderDaemon, OrderServer, OrderDesktop DEF Next

(* However many requests time out, are lost or are answered late, the last *)
(* order that janus saw succeed takes effect on every Desktop, as long as  *)
(* no Desktop's port is full.                                              *)
THEOREM LastSuccessHolds ==
  ASSUME "portFull" \notin Events PROVE Spec => []SuccessTakesEffect
<1>1. TypeOK /\ OrderInv /\ NoneYet => SuccessTakesEffect
  <2> SUFFICES ASSUME OrderInv, NoneYet, Quiet, last.seen PROVE SuccessTakesEffect
    BY DEF SuccessTakesEffect
  <2>1. last.what # "none"
    BY DEF NoneYet
  <2>2. AllDone /\ \A d \in Desktops : desktop[d].port = <<>>
    BY DEF Quiet, AllDone
  <2>3. \A d \in Desktops : desktop[d].locked = (last.what = "lock")
    BY <2>1, <2>2 DEF OrderInv, LastAsked
  <2> QED BY <2>3 DEF SuccessTakesEffect, AllLocked, AllUnlocked
<1>2. Init => NoneYet
  BY DEF Init, NoneYet, NoOrders
<1> QED
  BY <1>1, <1>2, OrderInit, OrderNext, NoneYetNext, TypeCorrect, PTL DEF Spec

-----------------------------------------------------------------------------
(* One locker at a time. *)
OnlyUp == \A p \in Lockers : Live(p) => p = unlockApp

LEMMA OneLockerNext == ASSUME TypeOK, OnlyUp, [Next]_vars PROVE OnlyUp'
<1>1. ASSUME LaunchUnlockApp PROVE OnlyUp'
  <2>1. CASE Live(unlockApp)
    BY <1>1, <2>1 DEF LaunchUnlockApp, OnlyUp, Live
  <2>2. CASE ~Live(unlockApp)
    <3>1. PICK p \in Lockers :
            /\ unlockApp' = p
            /\ locker' = [locker EXCEPT ![p] = [process |-> "up", window |-> "none"]]
      BY <1>1, <2>2 DEF LaunchUnlockApp
    <3>2. \A q \in Lockers \ {p} : locker'[q] = locker[q] /\ ~Live(q)
      BY <2>2, <3>1 DEF OnlyUp, TypeOK
    <3> QED BY <3>1, <3>2 DEF OnlyUp, Live
  <2> QED BY <2>1, <2>2
<1>2. ASSUME UNCHANGED unlockApp, \A p \in Lockers : Live(p)' => Live(p) PROVE OnlyUp'
  BY <1>2 DEF OnlyUp
<1>3. CASE LockSession \/ (LockerDied /\ screenLocked)
  BY <1>1, <1>3 DEF LockSession, LockerDied
<1>4. CASE \/ (LockerDied /\ ~screenLocked) \/ UnlockAuth \/ LockAnswered \/ UnlockFails
           \/ RelockEnds \/ HandleOrder \/ HandleLockDone
           \/ (\E d \in Desktops : ApplyOrder(d)) \/ UNCHANGED vars
  <2>1. UNCHANGED <<unlockApp, locker>>
    BY <1>4 DEF LockerDied, UnlockAuth, LockAnswered, UnlockFails, RelockEnds,
                HandleOrder, HandleLockDone, ApplyOrder, janus, vars
  <2> QED BY <1>2, <2>1 DEF Live
<1>5. CASE LaunchFails
  <2>1. ~Live(unlockApp) /\ locker' = locker
    BY <1>5 DEF LaunchFails
  <2> QED BY <2>1 DEF OnlyUp, Live
<1>6. CASE LockFails
  <2>1. \A p \in Lockers : locker'[p].process = "dead" \/ (p # unlockApp /\ locker'[p] = locker[p])
    BY <1>6 DEF LockFails, TypeOK
  <2>2. \A p \in Lockers : ~Live(p)'
    BY <2>1 DEF OnlyUp, Live
  <2> QED BY <2>2 DEF OnlyUp
<1>7. CASE UnlockAnswered
  <2>1. \A p \in Lockers : locker'[p].process \in {"up", "quitting"}
                             => locker[p].process \in {"up", "quitting"}
    BY <1>7 DEF UnlockAnswered, TypeOK
  <2>2. unlockApp' = unlockApp
    BY <1>7 DEF UnlockAnswered
  <2> QED BY <1>2, <2>1, <2>2 DEF Live
<1>8. ASSUME NEW q \in Lockers, LockerStep(q) PROVE OnlyUp'
  <2>1. unlockApp' = unlockApp /\ \A p \in Lockers \ {q} : locker'[p] = locker[p]
    BY <1>8 DEF LockerStep, OpenWindow, Crash, CloseWindow, Exit, janus, TypeOK
  <2>2. locker'[q].process \in {"dead", locker[q].process}
    BY <1>8 DEF LockerStep, OpenWindow, Crash, CloseWindow, Exit, TypeOK
  <2> QED BY <1>2, <2>1, <2>2 DEF Live
<1> QED
  BY <1>3, <1>4, <1>5, <1>6, <1>7, <1>8 DEF Next, HandlerEnds

(* At most one locker is up, or about to quit, at any time, whatever       *)
(* happens: the one janus knows.  launch_unlock_app() looks at the pid it  *)
(* has, and stop_unlock_app() ends a locker that it forgets.               *)
OneLockerRuns ==
  \A p, q \in Lockers : Live(p) /\ Live(q) => p = q
THEOREM OneLocker == Spec => []OneLockerRuns
<1>1. Init => OnlyUp
  BY DEF Init, OnlyUp, Live
<1>2. OnlyUp => OneLockerRuns
  BY DEF OnlyUp, OneLockerRuns
<1> QED BY <1>1, <1>2, OneLockerNext, TypeCorrect, PTL DEF Spec

-----------------------------------------------------------------------------
(* The locker of a locked Desktop: it runs, or its window is still to be   *)
(* removed, or janus is told of its loss.                                  *)
OnlyCrashes == Events \subseteq {"crash"}

Reported(p) ==
  \/ p \in Lockers /\ locker[p].process = "up"
  \/ died > 0
  \/ /\ p \in Lockers /\ locker[p].process = "dead" /\ HasWindow(p)
     /\ desktop[Home].locked /\ Exempt(p)
WindowsInv ==
  \A p \in Lockers : /\ locker[p].window # "hidden"
                     /\ locker[p].process = "up" => locker[p].window # "closed"
TrustedInv ==
  screenLocked \/ daemon.pc = "lock" =>
    unlockApp \in Lockers /\ locker[unlockApp].process # "quitting"
ReportInv ==
  IF daemon.pc = "idle"
    THEN desktop[Home].locked => Reported(desktop[Home].team)
    ELSE Wanted => Reported(unlockApp)
TeamInv ==
  daemon.pc # "idle" /\ Wanted =>
    /\ Home \in applied => desktop[Home].team = unlockApp
    /\ \A i \in DOMAIN desktop[Home].port : desktop[Home].port[i].team = unlockApp
    /\ \A i \in DOMAIN appPort : appPort[i].what # "done" => appPort[i].team = unlockApp
KnownInv ==
  daemon.pc = "idle" /\ desktop[Home].locked => desktop[Home].team = unlockApp
LockerInv == WindowsInv /\ TrustedInv /\ ReportInv /\ TeamInv /\ KnownInv

LEMMA LockerInit == Init => LockerInv
BY LockConstants
   DEF Init, LockerInv, WindowsInv, TrustedInv, ReportInv, TeamInv, KnownInv,
       IdleDaemon

(* Both handlers that lock ask for a locker that is up. *)
LEMMA LockerAsked ==
  ASSUME TypeOK, OnlyCrashes, RequestInv, LockerInv,
         NEW h \in {"lock", "relock"}, daemon.pc = "idle",
         LaunchUnlockApp, Ask(h, "lock", unlockApp'),
         Live(unlockApp) => locker[unlockApp].process # "quitting",
         UNCHANGED <<screenLocked, broker, desktop, applied>>
  PROVE  LockerInv'
<1>1. /\ unlockApp' \in Lockers /\ locker'[unlockApp'].process = "up"
      /\ WindowsInv'
  <2>1. CASE Live(unlockApp)
    BY <2>1 DEF LaunchUnlockApp, Live, LockerInv, WindowsInv
  <2>2. CASE ~Live(unlockApp)
    <3>1. PICK p \in Lockers :
            /\ unlockApp' = p
            /\ locker' = [locker EXCEPT ![p] = [process |-> "up", window |-> "none"]]
      BY <2>2 DEF LaunchUnlockApp
    <3> QED BY <3>1 DEF LockerInv, WindowsInv, TypeOK
  <2> QED BY <2>1, <2>2
<1>2. "notSent" \notin Events
  BY DEF OnlyCrashes
<1>3. PICK r \in Requests :
        /\ daemon' = [pc |-> h, req |-> r]
        /\ appPort' = Append(appPort, [what |-> "lock", req |-> r, team |-> unlockApp'])
  BY <1>2 DEF Ask
<1>4. daemon'.pc = h
  BY <1>3
<1>5. Rest
  BY DEF RequestInv
<1>6. appPort' = <<[what |-> "lock", req |-> r, team |-> unlockApp']>>
  BY <1>3, <1>5 DEF Rest, Still
<1>7. Home \notin applied' /\ desktop'[Home].port = <<>>
  BY <1>5, LockConstants DEF Rest, Still, NoOrders
<1>8. \A i \in DOMAIN appPort' : appPort'[i].team = unlockApp'
  BY <1>6
<1>9. TeamInv'
  BY <1>7, <1>8 DEF TeamInv
<1>10. ReportInv'
  BY <1>1, <1>4 DEF ReportInv, Reported
<1>11. TrustedInv'
  BY <1>1 DEF TrustedInv
<1>12. KnownInv'
  BY <1>4 DEF KnownInv
<1> QED BY <1>1, <1>9, <1>10, <1>11, <1>12 DEF LockerInv

LEMMA LockerDaemon ==
  ASSUME TypeOK, OnlyCrashes, RequestInv, LockerInv,
         LockSession \/ UnlockAuth \/ LockerDied \/ LaunchFails \/ HandlerEnds
  PROVE  LockerInv'
<1> USE DEF server, janus
<1>1. CASE LockSession
  <2>1. /\ daemon.pc = "idle" /\ LaunchUnlockApp /\ Ask("lock", "lock", unlockApp')
        /\ Live(unlockApp) => locker[unlockApp].process # "quitting"
        /\ UNCHANGED <<screenLocked, broker, desktop, applied>>
    BY <1>1 DEF LockSession, OnlyCrashes
  <2> QED BY <2>1, LockerAsked
<1>2. CASE LockerDied /\ screenLocked
  <2>1. /\ daemon.pc = "idle" /\ LaunchUnlockApp /\ Ask("relock", "lock", unlockApp')
        /\ UNCHANGED <<screenLocked, broker, desktop, applied>>
    BY <1>2 DEF LockerDied
  <2>2. locker[unlockApp].process # "quitting"
    BY <1>2 DEF LockerInv, TrustedInv
  <2> QED BY <2>1, <2>2, LockerAsked
<1>3. CASE LockerDied /\ ~screenLocked
  <2>1. /\ daemon.pc = "idle"
        /\ UNCHANGED <<screenLocked, unlockApp, locker, daemon, desktop>>
    BY <1>3 DEF LockerDied
  <2>2. ~desktop[Home].locked
    BY <1>3, <2>1, LockConstants DEF RequestInv, Rest, Still
  <2> QED
    BY <2>1, <2>2 DEF LockerInv, WindowsInv, TrustedInv, ReportInv, TeamInv, KnownInv
<1>4. CASE UnlockAuth
  <2>1. /\ Ask("unlock", "unlock", NoLocker) /\ screenLocked
        /\ UNCHANGED <<screenLocked, unlockApp, locker>>
    BY <1>4 DEF UnlockAuth
  <2>2. \E r : daemon' = [pc |-> "unlock", req |-> r]
    BY <2>1 DEF Ask
  <2>3. daemon'.pc = "unlock"
    BY <2>2
  <2> QED BY <2>1, <2>3
          DEF LockerInv, WindowsInv, TrustedInv, ReportInv, TeamInv, KnownInv, Wanted
<1>5. ~LaunchFails
  BY DEF LaunchFails, OnlyCrashes
<1>6. CASE HandlerEnds
  <2>1. /\ daemon.pc # "idle" /\ Done
        /\ LockAnswered \/ UnlockAnswered \/ RelockEnds
    BY <1>6, EndsWhenDone DEF AppServerAnswers, OnlyCrashes, Unsent
  <2>2. daemon'.pc = "idle" /\ UNCHANGED <<unlockApp, died, desktop, appPort>>
    BY <2>1 DEF LockAnswered, UnlockAnswered, RelockEnds, EndHandler, IdleDaemon
  <2>3. TeamInv'
    BY <2>2 DEF TeamInv
  <2>4. CASE UnlockAnswered
    <3>1. ~Wanted /\ ~screenLocked'
      BY <2>4 DEF UnlockAnswered, Wanted
    <3>2. ~desktop'[Home].locked
      BY <2>1, <2>2, <3>1, LockConstants DEF Done
    <3>3. WindowsInv'
      BY <2>4 DEF UnlockAnswered, LockerInv, WindowsInv, TypeOK
    <3> QED
      BY <2>2, <2>3, <3>1, <3>2, <3>3 DEF LockerInv, TrustedInv, ReportInv, KnownInv
  <2>5. CASE LockAnswered \/ RelockEnds
    <3>1. Wanted /\ locker' = locker
      BY <2>5 DEF LockAnswered, RelockEnds, Wanted
    <3>2. desktop[Home].team = unlockApp /\ Reported(unlockApp)
      BY <2>1, <3>1, LockConstants DEF LockerInv, TeamInv, ReportInv, Done
    <3>3. ReportInv'
      BY <2>2, <3>1, <3>2 DEF ReportInv, Reported, HasWindow, Exempt
    <3>4. TrustedInv'
      BY <2>2, <2>5, <3>1
         DEF LockerInv, TrustedInv, LockAnswered, RelockEnds, RequestInv
    <3>5. KnownInv'
      BY <2>2, <3>2 DEF KnownInv
    <3> QED BY <2>3, <3>1, <3>3, <3>4, <3>5 DEF LockerInv, WindowsInv
  <2> QED BY <2>1, <2>4, <2>5
<1> QED BY <1>1, <1>2, <1>3, <1>4, <1>5, <1>6

LEMMA LockerServer ==
  ASSUME TypeOK, OnlyCrashes, RequestInv, LockerInv, HandleOrder \/ HandleLockDone
  PROVE  LockerInv'
<1>1. /\ appPort # <<>> /\ appPort' = Tail(appPort)
      /\ UNCHANGED <<screenLocked, unlockApp, daemon, died, locker, applied>>
  BY DEF HandleOrder, HandleLockDone, janus
<1>2. daemon.pc # "idle"
  BY <1>1 DEF RequestInv, Rest, Still
<1>3. \A i \in DOMAIN appPort' : i + 1 \in DOMAIN appPort /\ appPort'[i] = appPort[i + 1]
  BY <1>1, TakenFromPort
<1>4. /\ desktop'[Home].locked = desktop[Home].locked
      /\ desktop'[Home].team = desktop[Home].team
      /\ \/ desktop'[Home].port = desktop[Home].port
         \/ HandleOrder /\ desktop'[Home].port = Append(desktop[Home].port, Head(appPort))
  <2>1. CASE HandleLockDone
    BY <2>1 DEF HandleLockDone
  <2>2. CASE HandleOrder
    <3>1. PICK asked \in SUBSET Desktops :
            desktop' = [d \in Desktops |->
                          IF d \in asked
                            THEN [desktop[d] EXCEPT !.port = Append(@, Head(appPort))]
                            ELSE desktop[d]]
      BY <2>2 DEF HandleOrder
    <3> QED BY <2>2, <3>1, LockConstants DEF TypeOK
  <2> QED BY <2>1, <2>2
<1>5. ASSUME Wanted
      PROVE  \A i \in DOMAIN desktop'[Home].port : desktop'[Home].port[i].team = unlockApp
  <2>1. \A i \in DOMAIN desktop[Home].port : desktop[Home].port[i].team = unlockApp
    BY <1>2, <1>5 DEF LockerInv, TeamInv
  <2>2. CASE HandleOrder /\ desktop'[Home].port = Append(desktop[Home].port, Head(appPort))
    <3>1. Head(appPort).team = unlockApp /\ Head(appPort) \in Orders
      <4>1. Head(appPort).what # "done"
        BY <2>2 DEF HandleOrder
      <4>2. Head(appPort) = appPort[1] /\ 1 \in DOMAIN appPort
        BY <1>1, TakenFromPort
      <4>3. Head(appPort).team = unlockApp
        BY <1>2, <1>5, <4>1, <4>2 DEF LockerInv, TeamInv
      <4>4. Head(appPort) \in Orders
        BY <1>1, <4>1, AppPortHead DEF TypeOK
      <4> QED BY <4>3, <4>4
    <3>2. desktop[Home].port \in Seq(Orders)
      BY LockConstants DEF TypeOK
    <3>3. ASSUME NEW i \in DOMAIN desktop'[Home].port
          PROVE  desktop'[Home].port[i] \in {Head(appPort)}
                   \cup {desktop[Home].port[j] : j \in DOMAIN desktop[Home].port}
      BY <2>2, <3>1, <3>2, AppendProperties
    <3> QED BY <2>1, <3>1, <3>3
  <2> QED BY <1>4, <2>1, <2>2
<1>6. TeamInv'
  BY <1>1, <1>2, <1>3, <1>4, <1>5 DEF LockerInv, TeamInv, Wanted
<1>7. ReportInv'
  BY <1>1, <1>2, <1>4 DEF LockerInv, ReportInv, Reported, HasWindow, Exempt, Wanted
<1>8. WindowsInv' /\ TrustedInv' /\ KnownInv'
  BY <1>1, <1>2 DEF LockerInv, WindowsInv, TrustedInv, KnownInv
<1> QED BY <1>6, <1>7, <1>8 DEF LockerInv

LEMMA LockerDesktop ==
  ASSUME TypeOK, OnlyCrashes, RequestInv, LockerInv, NEW d \in Desktops, ApplyOrder(d)
  PROVE  LockerInv'
<1>1. /\ desktop[d].port # <<>> /\ appPort' = Append(appPort, LockDone)
      /\ desktop' = [desktop EXCEPT ![d] = AfterOrder(d, Head(desktop[d].port))]
      /\ UNCHANGED <<screenLocked, unlockApp, daemon, died, locker>>
      /\ applied' = IF Head(desktop[d].port).req = daemon.req
                      THEN applied \cup {d} ELSE applied
  BY DEF ApplyOrder, janus
<1>2. PassedOn /\ daemon.pc # "idle"
  BY <1>1 DEF RequestInv, Rest, Unsent, Still, Sent, Done, NoOrders
<1>3. PICK m \in Orders : IsAsked(m) /\ desktop[d].port = <<m>>
  BY <1>1, <1>2 DEF PassedOn
<1>4. WindowsInv' /\ TrustedInv' /\ KnownInv'
  BY <1>1, <1>2 DEF LockerInv, WindowsInv, TrustedInv, KnownInv
<1>5. \A i \in DOMAIN appPort' : appPort'[i].what = "done"
  <2>1. \A i \in DOMAIN appPort' : appPort'[i] = LockDone
    BY <1>1, <1>2, AppendProperties, LenProperties DEF TypeOK, PassedOn
  <2> QED BY <2>1, DoneIsNoOrder
<1>6. CASE ~Wanted
  BY <1>1, <1>2, <1>4, <1>6 DEF LockerInv, ReportInv, TeamInv, Wanted
<1>7. CASE Wanted /\ d # Home
  <2>1. desktop'[Home] = desktop[Home] /\ (Home \in applied' <=> Home \in applied)
    BY <1>1, <1>7, LockConstants DEF TypeOK
  <2>2. TeamInv'
    BY <1>1, <1>2, <1>5, <1>7, <2>1 DEF LockerInv, TeamInv
  <2>3. ReportInv'
    BY <1>1, <1>2, <1>7, <2>1
       DEF LockerInv, ReportInv, Reported, HasWindow, Exempt, Wanted
  <2> QED BY <1>4, <2>2, <2>3 DEF LockerInv
<1>8. CASE Wanted /\ d = Home
  <2>1. m.team = unlockApp /\ m.what = "lock"
    BY <1>2, <1>3, <1>8 DEF LockerInv, TeamInv, IsAsked
  <2>2. /\ desktop'[Home].team = unlockApp /\ desktop'[Home].locked
        /\ desktop'[Home].port = <<>>
    <3>1. /\ desktop'[Home] = AfterOrder(Home, Head(desktop[Home].port))
          /\ Head(desktop[Home].port) = m /\ Tail(desktop[Home].port) = <<>>
      <4>1. Home \in DOMAIN desktop
        BY LockConstants DEF TypeOK
      <4>2. desktop'[Home] = AfterOrder(Home, Head(desktop[Home].port))
        BY <1>1, <1>8, <4>1
      <4>3. Head(desktop[Home].port) = m
        BY <1>3, <1>8
      <4>4. Tail(desktop[Home].port) = <<>>
        <5>1. Tail(<<m>>) = <<>>
          OBVIOUS
        <5> QED BY <1>3, <1>8, <5>1
      <4> QED BY <4>2, <4>3, <4>4
    <3>2. desktop'[Home].locked = (m.what = "lock")
      BY <3>1 DEF AfterOrder
    <3>3. desktop'[Home].team = unlockApp /\ desktop'[Home].port = <<>>
      BY <2>1, <3>1 DEF AfterOrder
    <3> QED BY <2>1, <3>2, <3>3
  <2>3. TeamInv'
    BY <1>1, <1>5, <2>2 DEF TeamInv
  <2>4. Reported(unlockApp)
    BY <1>2, <1>8 DEF LockerInv, ReportInv
  <2>5. ReportInv'
    BY <1>1, <1>2, <2>2, <2>4 DEF ReportInv, Reported, HasWindow, Exempt, Wanted
  <2> QED BY <1>4, <2>3, <2>5 DEF LockerInv
<1> QED BY <1>6, <1>7, <1>8

LEMMA LockerLocker ==
  ASSUME TypeOK, OnlyCrashes, OnlyUp, LockerInv, NEW p \in Lockers, LockerStep(p)
  PROVE  LockerInv'
<1>1. /\ UNCHANGED <<screenLocked, unlockApp, daemon, desktop, appPort, applied>>
      /\ \A q \in Lockers \ {p} : locker'[q] = locker[q]
      /\ died \in Nat /\ died' \in Nat /\ died' >= died
  BY LockConstants
     DEF LockerStep, OpenWindow, Crash, CloseWindow, Exit, TypeOK, server, janus
<1>2. TeamInv'
  BY <1>1 DEF LockerInv, TeamInv, Wanted
<1>3. TrustedInv'
  BY <1>1 DEF LockerInv, TrustedInv, LockerStep, OpenWindow, Crash, CloseWindow, Exit,
     TypeOK
<1>4. WindowsInv'
  <2>1. CASE OpenWindow(p)
    <3>1. p = unlockApp
      BY <2>1 DEF OpenWindow, OnlyUp, Live
    <3>2. desktop[Home].locked => Exempt(p)
      BY <2>1, <3>1 DEF OpenWindow, OnlyCrashes, Quiet, Exempt, LockerInv, KnownInv
    <3>3. locker' = [locker EXCEPT ![p].window = "shown"]
      BY <2>1, <3>2 DEF OpenWindow
    <3> QED BY <3>3 DEF LockerInv, WindowsInv, TypeOK
  <2>2. CASE Crash(p) \/ Exit(p)
    <3>1. locker' = [locker EXCEPT ![p].process = "dead"]
      BY <2>2 DEF Crash, Exit
    <3> QED BY <3>1 DEF LockerInv, WindowsInv, TypeOK
  <2>3. CASE CloseWindow(p)
    <3>1. /\ locker' = [locker EXCEPT ![p].window = "closed"]
          /\ locker[p].process # "up"
      BY <2>3 DEF CloseWindow
    <3> QED BY <3>1 DEF LockerInv, WindowsInv, TypeOK
  <2> QED BY <2>1, <2>2, <2>3 DEF LockerStep
<1>5. ASSUME Reported(p) PROVE Reported(p)' \/ locker[p].process = "quitting"
  <2>1. CASE OpenWindow(p)
    BY <1>1, <1>5, <2>1
       DEF Reported, OpenWindow, TypeOK
  <2>2. CASE Crash(p)
    BY <1>1, <1>5, <2>2
       DEF Reported, Crash, HasWindow, Exempt, TypeOK, OnlyCrashes
  <2>3. CASE CloseWindow(p)
    BY <1>1, <1>5, <2>3
       DEF Reported, CloseWindow, HasWindow, Exempt, TypeOK
  <2>4. CASE Exit(p)
    BY <2>4 DEF Exit
  <2> QED BY <2>1, <2>2, <2>3, <2>4 DEF LockerStep
<1>6. ASSUME NEW q, Reported(q) PROVE Reported(q)'
  <2>1. CASE q # p
    BY <1>1, <1>6, <2>1 DEF Reported, HasWindow, Exempt
  <2>2. CASE q = p /\ locker[p].process # "quitting"
    BY <1>5, <1>6, <2>2
  <2>3. CASE q = p /\ locker[p].process = "quitting"
    BY <1>1, <1>6, <2>3 DEF Reported
  <2> QED BY <2>1, <2>2, <2>3
<1>7. ReportInv' /\ KnownInv'
  BY <1>1, <1>6 DEF LockerInv, ReportInv, KnownInv, Wanted
<1> QED BY <1>2, <1>3, <1>4, <1>7 DEF LockerInv

LEMMA LockerNext ==
  ASSUME OnlyCrashes, TypeOK, OnlyUp, RequestInv, LockerInv, [Next]_vars
  PROVE  LockerInv'
<1>1. CASE UNCHANGED vars
  BY <1>1 DEF vars, LockerInv, WindowsInv, TrustedInv, ReportInv, TeamInv, KnownInv,
     Reported, HasWindow, Exempt, Wanted
<1> QED
  BY <1>1, LockerDaemon, LockerServer, LockerDesktop, LockerLocker DEF Next

(* When app_server answers and lockers do nothing worse than crash with    *)
(* their window up, a Desktop that stays locked has a locker, or janus is  *)
(* told that it has none.                                                  *)
THEOREM LockerLossIsReported ==
  ASSUME OnlyCrashes PROVE Spec => []GoneLockerIsReported
<1>1. AppServerAnswers
  BY DEF AppServerAnswers, OnlyCrashes
<1>2. LockerInv => GoneLockerIsReported
  BY DEF LockerInv, WindowsInv, ReportInv, Reported, GoneLockerIsReported, Quiet
<1>3. Init => OnlyUp
  BY DEF Init, OnlyUp, Live
<1> QED
  BY <1>1, <1>2, <1>3, LockerInit, LockerNext, OneLockerNext, TypeCorrect,
     RequestInvariant, PTL DEF Spec

-----------------------------------------------------------------------------
(* One locker's turn, on the session's Desktop.  While a locker is up,     *)
(* no order behind one that names it names another; once the Desktop knows *)
(* it, or has its window, no order on its way does.                        *)
Names(m, p) == m.what = "lock" /\ m.team = p
NamesAnother(m, p) == m.what = "lock" /\ m.team # p
HomePort == desktop[Home].port
NoneBehind(p) ==
  /\ \A i, j \in DOMAIN HomePort :
       i < j /\ Names(HomePort[i], p) => ~NamesAnother(HomePort[j], p)
  /\ \A i \in DOMAIN HomePort : \A j \in DOMAIN appPort :
       Names(HomePort[i], p) => ~NamesAnother(appPort[j], p)
  /\ \A i, j \in DOMAIN appPort :
       i < j /\ Names(appPort[i], p) => ~NamesAnother(appPort[j], p)
NoneLeft(p) ==
  /\ \A i \in DOMAIN HomePort : ~NamesAnother(HomePort[i], p)
  /\ \A j \in DOMAIN appPort : ~NamesAnother(appPort[j], p)
Settled(p) == desktop[Home].team = p \/ HasWindow(p)
Turn(p) == NoneBehind(p) /\ (Settled(p) => NoneLeft(p))
TurnInv == OnlyUp /\ \A p \in Lockers : locker[p].process = "up" => Turn(p)

LEMMA TurnInit == Init => TurnInv
<1> SUFFICES ASSUME Init PROVE TurnInv
  OBVIOUS
<1>1. \A p \in Lockers : locker[p].process = "dead"
  BY DEF Init
<1> QED BY <1>1 DEF TurnInv, OnlyUp, Live

(* How the two queues of the session's Desktop change. *)
LEMMA AppPortGrows ==
  ASSUME TypeOK, NEW m \in Orders \cup {LockDone}, appPort' = Append(appPort, m)
  PROVE  /\ \A i \in DOMAIN appPort : i \in Nat
         /\ \A i \in DOMAIN appPort' :
              \/ i \in DOMAIN appPort /\ appPort'[i] = appPort[i]
              \/ i = Len(appPort) + 1 /\ appPort'[i] = m
         /\ Len(appPort) \in Nat
         /\ \A i \in DOMAIN appPort : i < Len(appPort) + 1
<1>1. /\ Len(appPort) \in Nat /\ DOMAIN appPort = 1 .. Len(appPort)
      /\ Len(appPort') = Len(appPort) + 1 /\ DOMAIN appPort' = 1 .. Len(appPort')
      /\ appPort'[Len(appPort) + 1] = m
      /\ \A i \in 1 .. Len(appPort) : appPort'[i] = appPort[i]
  BY AppendProperties, LenProperties DEF TypeOK
<1> QED BY <1>1

LEMMA HomePortGrows ==
  ASSUME TypeOK, NEW m \in Orders, HomePort' = Append(HomePort, m)
  PROVE  /\ Len(HomePort) \in Nat
         /\ \A i \in DOMAIN HomePort : i \in Nat /\ i < Len(HomePort) + 1
         /\ \A i \in DOMAIN HomePort' :
              \/ i \in DOMAIN HomePort /\ HomePort'[i] = HomePort[i]
              \/ i = Len(HomePort) + 1 /\ HomePort'[i] = m
<1>1. HomePort \in Seq(Orders)
  BY LockConstants DEF TypeOK, HomePort
<1>2. /\ Len(HomePort) \in Nat /\ DOMAIN HomePort = 1 .. Len(HomePort)
      /\ Len(HomePort') = Len(HomePort) + 1 /\ DOMAIN HomePort' = 1 .. Len(HomePort')
      /\ HomePort'[Len(HomePort) + 1] = m
      /\ \A i \in 1 .. Len(HomePort) : HomePort'[i] = HomePort[i]
  <2> DEFINE s == HomePort
             t == HomePort'
  <2>1. s \in Seq(Orders) /\ t = Append(s, m)
    BY <1>1
  <2> HIDE DEF s, t
  <2>2. /\ Len(s) \in Nat /\ DOMAIN s = 1 .. Len(s)
        /\ Len(t) = Len(s) + 1 /\ DOMAIN t = 1 .. Len(t)
        /\ t[Len(s) + 1] = m
        /\ \A i \in 1 .. Len(s) : t[i] = s[i]
    BY <2>1, AppendProperties, LenProperties
  <2> QED BY <2>2 DEF s, t
<1> QED BY <1>2

LEMMA HomePortShrinks ==
  ASSUME TypeOK, HomePort # <<>>, HomePort' = Tail(HomePort)
  PROVE  /\ Head(HomePort) = HomePort[1] /\ 1 \in DOMAIN HomePort
         /\ \A i \in DOMAIN HomePort : i \in Nat \ {0}
         /\ \A i \in DOMAIN HomePort' : /\ i \in Nat \ {0} /\ i + 1 \in DOMAIN HomePort
                                        /\ HomePort'[i] = HomePort[i + 1]
<1>1. HomePort \in Seq(Orders)
  BY LockConstants DEF TypeOK, HomePort
<1> DEFINE s == HomePort
           t == HomePort'
<1>2. s \in Seq(Orders) /\ s # <<>> /\ t = Tail(s)
  BY <1>1
<1> HIDE DEF s, t
<1>3. /\ Len(s) \in Nat /\ Len(s) # 0 /\ DOMAIN s = 1 .. Len(s)
      /\ t \in Seq(Orders) /\ Len(t) = Len(s) - 1 /\ Head(s) = s[1]
      /\ \A i \in 1 .. Len(t) : t[i] = s[i + 1]
  BY <1>2, HeadTailProperties, EmptySeq, LenProperties
<1>4. DOMAIN t = 1 .. Len(t)
  BY <1>3, LenProperties
<1>5. /\ Head(s) = s[1] /\ 1 \in DOMAIN s
      /\ \A i \in DOMAIN s : i \in Nat \ {0}
      /\ \A i \in DOMAIN t : i \in Nat \ {0} /\ i + 1 \in DOMAIN s /\ t[i] = s[i + 1]
  BY <1>3, <1>4
<1> QED BY <1>5 DEF s, t

(* What becomes of the turn of p when an order is asked for, passed on,    *)
(* taken by the Desktop, or an answer is collected.                        *)
QueuesKeep(p) == NoneBehind(p)' /\ (NoneLeft(p) => NoneLeft(p)')

LEMMA AskedKeeps ==
  ASSUME TypeOK, NEW p, NoneBehind(p), HomePort' = HomePort,
         NEW m \in Orders \cup {LockDone}, ~NamesAnother(m, p),
         appPort' = Append(appPort, m)
  PROVE  QueuesKeep(p)
<1>1. \A j \in DOMAIN appPort' : \A i \in DOMAIN appPort' :
        i < j /\ j \in DOMAIN appPort => i \in DOMAIN appPort
  BY AppPortGrows
<1>2. \A j \in DOMAIN appPort' : NamesAnother(appPort'[j], p)
                                   => j \in DOMAIN appPort /\ appPort'[j] = appPort[j]
  BY AppPortGrows DEF NamesAnother
<1>3. \A i \in DOMAIN appPort' : i \in DOMAIN appPort => appPort'[i] = appPort[i]
  BY AppPortGrows
<1>4. ASSUME NEW i \in DOMAIN appPort', NEW j \in DOMAIN appPort',
             i < j, Names(appPort'[i], p)
      PROVE  ~NamesAnother(appPort'[j], p)
  BY <1>1, <1>2, <1>3, <1>4 DEF NoneBehind
<1>5. ASSUME NEW i \in DOMAIN HomePort, NEW j \in DOMAIN appPort', Names(HomePort[i], p)
      PROVE  ~NamesAnother(appPort'[j], p)
  BY <1>2, <1>5 DEF NoneBehind
<1>6. NoneBehind(p)'
  BY <1>4, <1>5 DEF NoneBehind, Names, NamesAnother
<1>7. NoneLeft(p) => NoneLeft(p)'
  BY <1>2 DEF NoneLeft, NamesAnother
<1> QED BY <1>6, <1>7 DEF QueuesKeep

LEMMA CollectedKeeps ==
  ASSUME TypeOK, NEW p, NoneBehind(p), HomePort' = HomePort,
         appPort # <<>>, appPort' = Tail(appPort)
  PROVE  QueuesKeep(p)
<1>1. \A i \in DOMAIN appPort' : /\ i \in Nat /\ i + 1 \in DOMAIN appPort
                                 /\ appPort'[i] = appPort[i + 1]
  BY TakenFromPort
<1>2. ASSUME NEW i \in DOMAIN appPort', NEW j \in DOMAIN appPort',
             i < j, Names(appPort'[i], p)
      PROVE  ~NamesAnother(appPort'[j], p)
  <2>1. i + 1 < j + 1
    BY <1>1, <1>2
  <2> QED BY <1>1, <1>2, <2>1 DEF NoneBehind
<1>3. NoneBehind(p)'
  BY <1>1, <1>2 DEF NoneBehind, Names, NamesAnother
<1>4. NoneLeft(p) => NoneLeft(p)'
  BY <1>1 DEF NoneLeft, NamesAnother
<1> QED BY <1>3, <1>4 DEF QueuesKeep

LEMMA PassedOnKeeps ==
  ASSUME TypeOK, NEW p, NoneBehind(p),
         appPort # <<>>, appPort' = Tail(appPort), Head(appPort) \in Orders,
         HomePort' = Append(HomePort, Head(appPort))
  PROVE  QueuesKeep(p)
<1>1. /\ Head(appPort) = appPort[1] /\ 1 \in DOMAIN appPort
      /\ \A i \in DOMAIN appPort' : /\ i \in Nat /\ 1 < i + 1 /\ i + 1 \in DOMAIN appPort
                                    /\ appPort'[i] = appPort[i + 1]
  <2>1. /\ Head(appPort) = appPort[1] /\ 1 \in DOMAIN appPort
        /\ DOMAIN appPort \subseteq Nat \ {0}
        /\ \A i \in DOMAIN appPort' : /\ i \in Nat /\ i + 1 \in DOMAIN appPort
                                      /\ appPort'[i] = appPort[i + 1]
    BY TakenFromPort
  <2>2. \A i \in DOMAIN appPort' : i # 0
    BY <2>1, AppPortHead, LenProperties DEF TypeOK
  <2> QED BY <2>1, <2>2
<1>2. /\ Len(HomePort) \in Nat
      /\ \A i \in DOMAIN HomePort : i \in Nat /\ i < Len(HomePort) + 1
      /\ \A i \in DOMAIN HomePort' :
           \/ i \in DOMAIN HomePort /\ HomePort'[i] = HomePort[i]
           \/ i = Len(HomePort) + 1 /\ HomePort'[i] = Head(appPort)
  BY HomePortGrows
<1>3. ASSUME NEW i \in DOMAIN HomePort', NEW j \in DOMAIN HomePort',
             i < j, Names(HomePort'[i], p)
      PROVE  ~NamesAnother(HomePort'[j], p)
  <2>1. i \in DOMAIN HomePort /\ HomePort'[i] = HomePort[i]
    BY <1>2, <1>3
  <2> QED BY <1>1, <1>2, <1>3, <2>1 DEF NoneBehind
<1>4. ASSUME NEW i \in DOMAIN HomePort', NEW j \in DOMAIN appPort', Names(HomePort'[i], p)
      PROVE  ~NamesAnother(appPort'[j], p)
  BY <1>1, <1>2, <1>4 DEF NoneBehind
<1>5. ASSUME NEW i \in DOMAIN appPort', NEW j \in DOMAIN appPort',
             i < j, Names(appPort'[i], p)
      PROVE  ~NamesAnother(appPort'[j], p)
  <2>1. i + 1 < j + 1
    BY <1>1, <1>5
  <2> QED BY <1>1, <1>5, <2>1 DEF NoneBehind
<1>6. NoneBehind(p)'
  BY <1>3, <1>4, <1>5 DEF NoneBehind, Names, NamesAnother
<1>7. NoneLeft(p) => NoneLeft(p)'
  BY <1>1, <1>2 DEF NoneLeft, NamesAnother
<1> QED BY <1>6, <1>7 DEF QueuesKeep

LEMMA AppliedKeeps ==
  ASSUME TypeOK, NEW p, NoneBehind(p),
         HomePort # <<>>, HomePort' = Tail(HomePort), appPort' = Append(appPort, LockDone)
  PROVE  QueuesKeep(p) /\ (Names(Head(HomePort), p) => NoneLeft(p)')
<1>1. /\ Head(HomePort) = HomePort[1] /\ 1 \in DOMAIN HomePort
      /\ \A i \in DOMAIN HomePort' : /\ i \in Nat \ {0} /\ i + 1 \in DOMAIN HomePort
                                     /\ HomePort'[i] = HomePort[i + 1]
  BY HomePortShrinks
<1>2. \A j \in DOMAIN appPort' : NamesAnother(appPort'[j], p) \/ Names(appPort'[j], p)
                                   => j \in DOMAIN appPort /\ appPort'[j] = appPort[j]
  BY AppPortGrows, DoneIsNoOrder DEF NamesAnother, Names
<1>3. ASSUME NEW i \in DOMAIN HomePort', NEW j \in DOMAIN HomePort',
             i < j, Names(HomePort'[i], p)
      PROVE  ~NamesAnother(HomePort'[j], p)
  <2>1. i + 1 < j + 1
    BY <1>1, <1>3
  <2> QED BY <1>1, <1>3, <2>1 DEF NoneBehind
<1>4. ASSUME NEW i \in DOMAIN HomePort', NEW j \in DOMAIN appPort', Names(HomePort'[i], p)
      PROVE  ~NamesAnother(appPort'[j], p)
  BY <1>1, <1>2, <1>4 DEF NoneBehind
<1>5. ASSUME NEW i \in DOMAIN appPort', NEW j \in DOMAIN appPort',
             i < j, Names(appPort'[i], p)
      PROVE  ~NamesAnother(appPort'[j], p)
  BY <1>2, <1>5 DEF NoneBehind
<1>6. NoneBehind(p)'
  BY <1>3, <1>4, <1>5 DEF NoneBehind, Names, NamesAnother
<1>7. NoneLeft(p) => NoneLeft(p)'
  BY <1>1, <1>2 DEF NoneLeft, NamesAnother
<1>8. ASSUME Names(Head(HomePort), p) PROVE NoneLeft(p)'
  <2>1. ASSUME NEW i \in DOMAIN HomePort' PROVE ~NamesAnother(HomePort'[i], p)
    <3>1. 1 < i + 1
      BY <1>1
    <3> QED BY <1>1, <1>8, <3>1 DEF NoneBehind
  <2>2. \A j \in DOMAIN appPort' : ~NamesAnother(appPort'[j], p)
    BY <1>1, <1>2, <1>8 DEF NoneBehind
  <2> QED BY <2>1, <2>2 DEF NoneLeft, NamesAnother
<1> QED BY <1>6, <1>7, <1>8 DEF QueuesKeep

LEMMA TurnKept ==
  ASSUME NEW p \in Lockers, Turn(p), QueuesKeep(p), Settled(p)' => Settled(p)
  PROVE  Turn(p)'
BY DEF Turn, QueuesKeep

LEMMA QueuesStay ==
  ASSUME NEW p, NoneBehind(p), UNCHANGED <<appPort, HomePort>>
  PROVE  QueuesKeep(p)
<1>1. NoneBehind(p)'
  BY DEF NoneBehind, Names, NamesAnother
<1>2. NoneLeft(p) => NoneLeft(p)'
  BY DEF NoneLeft, NamesAnother
<1> QED BY <1>1, <1>2 DEF QueuesKeep

HomeSame == /\ desktop'[Home].locked = desktop[Home].locked
            /\ desktop'[Home].team = desktop[Home].team

(* What AppServer handles leaves the Desktop alone, or is passed on to it. *)
LEMMA HomeHears ==
  ASSUME TypeOK, HandleOrder \/ HandleLockDone
  PROVE  /\ HomeSame
         /\ \/ HomePort' = HomePort
            \/ Head(appPort) \in Orders /\ HomePort' = Append(HomePort, Head(appPort))
<1>1. CASE HandleLockDone
  BY <1>1 DEF HandleLockDone, HomePort, HomeSame
<1>2. CASE HandleOrder
  <2>1. PICK asked \in SUBSET Desktops :
          desktop' = [d \in Desktops |->
                        IF d \in asked
                          THEN [desktop[d] EXCEPT !.port = Append(@, Head(appPort))]
                          ELSE desktop[d]]
    BY <1>2 DEF HandleOrder
  <2>2. Head(appPort) \in Orders
    BY <1>2, AppPortHead DEF HandleOrder, TypeOK
  <2> QED BY <2>1, <2>2, LockConstants DEF TypeOK, HomePort, HomeSame
<1> QED BY <1>1, <1>2

(* A handler that locks asks for the locker that is up, or for a new one   *)
(* whose pid nothing remembers.                                            *)
LEMMA AskedForLock ==
  ASSUME TypeOK, TurnInv, NEW h, LaunchUnlockApp, Ask(h, "lock", unlockApp'),
         UNCHANGED desktop, NEW p \in Lockers, p = unlockApp', locker'[p].process = "up"
  PROVE  Turn(p)'
<1>1. \/ appPort' = appPort
      \/ \E m \in Orders : Names(m, p) /\ appPort' = Append(appPort, m)
  <2>1. CASE appPort' = appPort
    BY <2>1
  <2>2. ASSUME NEW r \in Requests,
               appPort' = Append(appPort, [what |-> "lock", req |-> r, team |-> p])
        PROVE  \E m \in Orders : Names(m, p) /\ appPort' = Append(appPort, m)
    <3>1. [what |-> "lock", req |-> r, team |-> p] \in Orders
      BY DEF Orders
    <3> QED BY <2>2, <3>1 DEF Names
  <2> QED BY <2>1, <2>2 DEF Ask
<1>2. HomePort' = HomePort
  BY DEF HomePort
<1>3. ASSUME NoneBehind(p) PROVE QueuesKeep(p)
  <2>1. CASE appPort' = appPort
    BY <1>2, <1>3, <2>1, QueuesStay
  <2>2. ASSUME NEW m \in Orders, Names(m, p), appPort' = Append(appPort, m)
        PROVE  QueuesKeep(p)
    <3>1. ~NamesAnother(m, p)
      BY <2>2 DEF Names, NamesAnother
    <3> QED BY <1>2, <1>3, <2>2, <3>1, AskedKeeps
  <2> QED BY <1>1, <2>1, <2>2
<1>4. CASE Live(unlockApp)
  <2>1. p = unlockApp /\ locker' = locker
    BY <1>4 DEF LaunchUnlockApp
  <2>2. Turn(p) /\ NoneBehind(p)
    BY <2>1 DEF TurnInv, Turn
  <2>3. Settled(p)' => Settled(p)
    BY <2>1 DEF Settled, HasWindow
  <2> QED BY <1>3, <2>2, <2>3, TurnKept
<1>5. CASE ~Live(unlockApp)
  <2>1. FreePid(p) /\ locker' = [locker EXCEPT ![p] = [process |-> "up", window |-> "none"]]
    BY <1>5 DEF LaunchUnlockApp
  <2>2. /\ \A i \in DOMAIN appPort : ~Names(appPort[i], p)
        /\ \A i \in DOMAIN HomePort : ~Names(HomePort[i], p)
    BY <2>1, LockConstants DEF FreePid, OnItsWay, Range, Names, HomePort
  <2>3. NoneBehind(p)
    BY <2>2 DEF NoneBehind
  <2>4. ~Settled(p)'
    <3>1. locker'[p].window = "none"
      BY <2>1 DEF TypeOK
    <3>2. desktop'[Home].team # p
      BY <2>1, LockConstants DEF FreePid
    <3> QED BY <3>1, <3>2 DEF Settled, HasWindow
  <2> QED BY <1>3, <2>3, <2>4 DEF QueuesKeep, Turn
<1> QED BY <1>4, <1>5

(* The Desktop takes an order: one that names p leaves none that names     *)
(* another.                                                                *)
LEMMA AppliedTurn ==
  ASSUME TypeOK, NEW p \in Lockers, Turn(p), ApplyOrder(Home)
  PROVE  Turn(p)'
<1>1. /\ HomePort # <<>> /\ appPort' = Append(appPort, LockDone) /\ locker' = locker
      /\ desktop' = [desktop EXCEPT ![Home] = AfterOrder(Home, Head(HomePort))]
  BY DEF ApplyOrder, HomePort
<1>2. desktop'[Home] = AfterOrder(Home, Head(HomePort))
  BY <1>1, LockConstants DEF TypeOK
<1>3. HomePort' = Tail(HomePort)
  BY <1>2 DEF AfterOrder, HomePort
<1>4. QueuesKeep(p) /\ (Names(Head(HomePort), p) => NoneLeft(p)')
  BY <1>1, <1>3, AppliedKeeps DEF Turn
<1>5. Settled(p)' => Settled(p) \/ Names(Head(HomePort), p)
  <2>1. desktop'[Home].team = p => desktop[Home].team = p \/ Names(Head(HomePort), p)
    BY <1>2, LockConstants DEF AfterOrder, Names
  <2> QED BY <1>1, <2>1 DEF Settled, HasWindow
<1> QED BY <1>4, <1>5 DEF Turn, QueuesKeep

LEMMA TurnNext ==
  ASSUME TypeOK, TurnInv, "earlyWindow" \notin Events, [Next]_vars PROVE TurnInv'
<1>1. OnlyUp'
  BY OneLockerNext DEF TurnInv
<1> SUFFICES ASSUME NEW p \in Lockers, locker'[p].process = "up" PROVE Turn(p)'
  BY <1>1 DEF TurnInv
<1>2. p = unlockApp'
  BY <1>1 DEF OnlyUp, Live
<1>3. CASE LockSession \/ (LockerDied /\ screenLocked)
  <2>1. PICK h : LaunchUnlockApp /\ Ask(h, "lock", unlockApp')
    BY <1>3 DEF LockSession, LockerDied
  <2>2. UNCHANGED desktop
    BY <1>3 DEF LockSession, LockerDied
  <2> QED BY <1>2, <2>1, <2>2, AskedForLock
(* Nobody is launched. *)
<1>4. ASSUME locker[p].process = "up", QueuesKeep(p), Settled(p)' => Settled(p)
      PROVE  Turn(p)'
  BY <1>4, TurnKept DEF TurnInv
<1>5. ASSUME locker[p].process = "up" PROVE NoneBehind(p)
  BY <1>5 DEF TurnInv, Turn
<1>6. CASE UnlockAuth
  <2>1. UNCHANGED <<locker, desktop>> /\ Ask("unlock", "unlock", NoLocker)
    BY <1>6 DEF UnlockAuth
  <2>2. HomePort' = HomePort /\ (Settled(p)' => Settled(p)) /\ locker[p].process = "up"
    BY <2>1 DEF HomePort, Settled, HasWindow
  <2>3. CASE appPort' = appPort
    BY <1>4, <1>5, <2>2, <2>3, QueuesStay
  <2>4. ASSUME NEW r \in Requests,
               appPort' = Append(appPort, [what |-> "unlock", req |-> r, team |-> NoLocker])
        PROVE  Turn(p)'
    <3> DEFINE m == [what |-> "unlock", req |-> r, team |-> NoLocker]
    <3>1. m \in Orders /\ ~NamesAnother(m, p)
      BY DEF Orders, NamesAnother
    <3> QED BY <1>4, <1>5, <2>2, <2>4, <3>1, AskedKeeps
  <2> QED BY <2>1, <2>3, <2>4 DEF Ask
<1>7. CASE (LockerDied /\ ~screenLocked) \/ LaunchFails \/ HandlerEnds \/ UNCHANGED vars
  <2>1. UNCHANGED <<appPort, desktop>>
    BY <1>7 DEF LockerDied, LaunchFails, HandlerEnds, LockAnswered, LockFails,
       UnlockAnswered, UnlockFails, RelockEnds, server, vars
  <2>2. locker[p].process = "up" /\ locker'[p].window = locker[p].window
    <3>1. CASE LockFails
      BY <3>1 DEF LockFails, TypeOK
    <3>2. CASE UnlockAnswered
      <4>1. locker'[p] = IF p = typist /\ locker[p].process = "up"
                           THEN [locker[p] EXCEPT !.process = "quitting"] ELSE locker[p]
        BY <3>2 DEF UnlockAnswered
      <4>2. locker'[p].window = locker[p].window
            /\ (locker'[p].process = "up" => locker[p].process = "up")
        BY <4>1 DEF TypeOK
      <4> QED BY <4>2
    <3>3. CASE ~LockFails /\ ~UnlockAnswered
      <4>1. locker' = locker
        BY <1>7, <3>3 DEF LockerDied, LaunchFails, HandlerEnds, LockAnswered,
           UnlockFails, RelockEnds, vars
      <4> QED BY <4>1
    <3> QED BY <3>1, <3>2, <3>3
  <2>3. UNCHANGED HomePort /\ (Settled(p)' => Settled(p))
    BY <2>1, <2>2 DEF HomePort, Settled, HasWindow
  <2> QED BY <1>4, <1>5, <2>1, <2>2, <2>3, QueuesStay
<1>8. CASE HandleLockDone
  <2>1. appPort # <<>> /\ appPort' = Tail(appPort) /\ UNCHANGED <<desktop, locker>>
    BY <1>8 DEF HandleLockDone
  <2>2. HomePort' = HomePort /\ (Settled(p)' => Settled(p)) /\ locker[p].process = "up"
    BY <2>1 DEF HomePort, Settled, HasWindow
  <2> QED BY <1>4, <1>5, <2>1, <2>2, CollectedKeeps
<1>9. CASE HandleOrder
  <2>1. appPort # <<>> /\ appPort' = Tail(appPort) /\ UNCHANGED locker
    BY <1>9 DEF HandleOrder
  <2>2. /\ HomeSame
        /\ \/ HomePort' = HomePort
           \/ Head(appPort) \in Orders /\ HomePort' = Append(HomePort, Head(appPort))
    BY <1>9, HomeHears
  <2>3. (Settled(p)' => Settled(p)) /\ locker[p].process = "up"
    BY <2>1, <2>2 DEF HomeSame, Settled, HasWindow
  <2>4. QueuesKeep(p)
    BY <1>5, <2>1, <2>2, <2>3, CollectedKeeps, PassedOnKeeps
  <2> QED BY <1>4, <2>3, <2>4
<1>10. ASSUME NEW d \in Desktops, ApplyOrder(d) PROVE Turn(p)'
  <2>1. UNCHANGED locker /\ appPort' = Append(appPort, LockDone)
    BY <1>10 DEF ApplyOrder
  <2>2. CASE d = Home
    BY <1>10, <2>1, <2>2, AppliedTurn DEF TurnInv
  <2>3. CASE d # Home
    <3>1. desktop'[Home] = desktop[Home]
      BY <1>10, <2>3, LockConstants DEF ApplyOrder, TypeOK
    <3>2. HomePort' = HomePort /\ (Settled(p)' => Settled(p)) /\ locker[p].process = "up"
      BY <2>1, <3>1 DEF HomePort, Settled, HasWindow
    <3>3. ~NamesAnother(LockDone, p)
      BY DEF LockDone, NamesAnother
    <3> QED BY <1>4, <1>5, <2>1, <3>2, <3>3, AskedKeeps
  <2> QED BY <2>2, <2>3
<1>11. ASSUME NEW q \in Lockers, LockerStep(q) PROVE Turn(p)'
  <2>1. UNCHANGED <<appPort, desktop>>
    BY <1>11 DEF LockerStep, OpenWindow, Crash, CloseWindow, Exit, server
  <2>2. locker[p].process = "up"
    <3>1. CASE OpenWindow(q) \/ CloseWindow(q)
      <4>1. PICK w : locker' = [locker EXCEPT ![q].window = w]
        BY <3>1 DEF OpenWindow, CloseWindow
      <4>2. locker'[p].process = locker[p].process
        BY <4>1 DEF TypeOK
      <4> QED BY <4>2
    <3>2. CASE Crash(q) \/ Exit(q)
      <4>1. locker' = [locker EXCEPT ![q].process = "dead"]
        BY <3>2 DEF Crash, Exit
      <4>2. p # q /\ locker'[p] = locker[p]
        BY <4>1 DEF TypeOK
      <4> QED BY <4>2
    <3> QED BY <1>11, <3>1, <3>2 DEF LockerStep
  <2>3. Settled(p)' => Settled(p) \/ Quiet
    <3>1. CASE OpenWindow(q)
      <4>1. /\ desktop[Home].team = q \/ Quiet
            /\ \A x \in Lockers \ {q} : locker'[x] = locker[x]
        BY <3>1 DEF OpenWindow, Exempt, TypeOK
      <4> QED BY <2>1, <4>1 DEF Settled, HasWindow
    <3>2. CASE Crash(q) \/ CloseWindow(q) \/ Exit(q)
      <4>1. locker' = [locker EXCEPT ![q].process = "dead"]
              => locker'[p].window = locker[p].window
        BY DEF TypeOK
      <4>2. locker' = [locker EXCEPT ![q].window = "closed"]
              => locker'[p].window \in {locker[p].window, "closed"}
        BY DEF TypeOK
      <4>3. locker'[p].window \in {locker[p].window, "closed"}
        BY <3>2, <4>1, <4>2 DEF Crash, CloseWindow, Exit
      <4>4. HasWindow(p)' => HasWindow(p)
        BY <4>3 DEF HasWindow
      <4> QED BY <2>1, <4>4 DEF Settled
    <3> QED BY <1>11, <3>1, <3>2 DEF LockerStep
  <2>4. UNCHANGED HomePort
    BY <2>1 DEF HomePort
  <2>5. QueuesKeep(p)
    BY <1>5, <2>1, <2>2, <2>4, QueuesStay
  <2>6. CASE Quiet
    <3>1. NoneLeft(p)
      BY <2>6, LockConstants DEF Quiet, HomePort, NoneLeft
    <3> QED BY <2>5, <3>1 DEF QueuesKeep, Turn
  <2> QED BY <1>4, <2>2, <2>3, <2>5, <2>6
<1> QED
  BY <1>3, <1>6, <1>7, <1>8, <1>9, <1>10, <1>11 DEF Next

THEOREM TurnInvariant == ASSUME "earlyWindow" \notin Events PROVE Spec => []TurnInv
BY TurnInit, TurnNext, TypeCorrect, PTL DEF Spec

(* Every order to lock names a locker. *)
LockersNamed ==
  /\ \A i \in DOMAIN HomePort : HomePort[i].what = "lock" => HomePort[i].team \in Lockers
  /\ \A i \in DOMAIN appPort : appPort[i].what = "lock" => appPort[i].team \in Lockers

LEMMA NamedInit == Init => LockersNamed
<1> SUFFICES ASSUME Init PROVE LockersNamed
  OBVIOUS
<1>1. appPort = <<>> /\ HomePort = <<>>
  BY LockConstants DEF Init, HomePort
<1> QED BY <1>1 DEF LockersNamed

LEMMA NamedNext == ASSUME TypeOK, LockersNamed, [Next]_vars PROVE LockersNamed'
<1>1. ASSUME NEW what, NEW team \in Lockers \cup {NoLocker}, NEW h, Ask(h, what, team),
             what = "unlock" \/ (what = "lock" /\ team \in Lockers), UNCHANGED desktop
      PROVE  LockersNamed'
  <2>1. HomePort' = HomePort
    BY <1>1 DEF HomePort
  <2>2. CASE appPort' = appPort
    BY <2>1, <2>2 DEF LockersNamed
  <2>3. ASSUME NEW r \in Requests,
               appPort' = Append(appPort, [what |-> what, req |-> r, team |-> team])
        PROVE  LockersNamed'
    <3> DEFINE m == [what |-> what, req |-> r, team |-> team]
    <3>1. m \in Orders /\ (m.what = "lock" => m.team \in Lockers)
      BY <1>1 DEF Orders
    <3> HIDE DEF m
    <3>2. \A i \in DOMAIN appPort' : \/ i \in DOMAIN appPort /\ appPort'[i] = appPort[i]
                                     \/ appPort'[i] = m
      BY <2>3, <3>1, AppPortGrows DEF m
    <3> QED BY <2>1, <3>1, <3>2 DEF LockersNamed
  <2> QED BY <1>1, <2>2, <2>3 DEF Ask
<1>2. CASE LockSession \/ (LockerDied /\ screenLocked)
  <2>1. PICK h : LaunchUnlockApp /\ Ask(h, "lock", unlockApp') /\ UNCHANGED desktop
    BY <1>2 DEF LockSession, LockerDied
  <2>2. unlockApp' \in Lockers
    BY <2>1 DEF LaunchUnlockApp, Live
  <2> QED BY <1>1, <2>1, <2>2
<1>3. CASE UnlockAuth
  <2>1. Ask("unlock", "unlock", NoLocker) /\ UNCHANGED desktop
    BY <1>3 DEF UnlockAuth
  <2>2. NoLocker \in Lockers \cup {NoLocker}
    OBVIOUS
  <2> QED BY <1>1, <2>1, <2>2
<1>4. CASE \/ (LockerDied /\ ~screenLocked) \/ LaunchFails \/ HandlerEnds \/ UNCHANGED vars
           \/ (\E p \in Lockers : LockerStep(p))
  <2>1. UNCHANGED <<appPort, desktop>>
    BY <1>4 DEF LockerDied, LaunchFails, HandlerEnds, LockAnswered, LockFails,
       UnlockAnswered, UnlockFails, RelockEnds, server, vars, LockerStep, OpenWindow,
       Crash, CloseWindow, Exit
  <2>2. HomePort' = HomePort
    BY <2>1 DEF HomePort
  <2> QED BY <2>1, <2>2 DEF LockersNamed
<1>5. CASE HandleOrder \/ HandleLockDone
  <2>1. appPort # <<>> /\ appPort' = Tail(appPort)
    BY <1>5 DEF HandleOrder, HandleLockDone
  <2>2. /\ Head(appPort) = appPort[1] /\ 1 \in DOMAIN appPort
        /\ \A i \in DOMAIN appPort' : i + 1 \in DOMAIN appPort /\ appPort'[i] = appPort[i + 1]
    BY <2>1, TakenFromPort
  <2>3. \/ HomePort' = HomePort
        \/ Head(appPort) \in Orders /\ HomePort' = Append(HomePort, Head(appPort))
    BY <1>5, HomeHears
  <2>4. \A i \in DOMAIN HomePort' : \/ i \in DOMAIN HomePort /\ HomePort'[i] = HomePort[i]
                                    \/ HomePort'[i] = Head(appPort)
    BY <2>3, HomePortGrows
  <2> QED BY <2>2, <2>4 DEF LockersNamed
<1>6. ASSUME NEW d \in Desktops, ApplyOrder(d) PROVE LockersNamed'
  <2>1. appPort' = Append(appPort, LockDone)
    BY <1>6 DEF ApplyOrder
  <2>2. \A i \in DOMAIN appPort' : appPort'[i].what = "lock"
                                     => i \in DOMAIN appPort /\ appPort'[i] = appPort[i]
    BY <2>1, AppPortGrows, DoneIsNoOrder
  <2>3. \A i \in DOMAIN HomePort' : \E j \in DOMAIN HomePort : HomePort'[i] = HomePort[j]
    <3>1. CASE d = Home
      <4>1. HomePort # <<>> /\ HomePort' = Tail(HomePort)
        BY <1>6, <3>1, LockConstants DEF ApplyOrder, AfterOrder, HomePort, TypeOK
      <4> QED BY <4>1, HomePortShrinks
    <3>2. CASE d # Home
      BY <1>6, <3>2, LockConstants DEF ApplyOrder, HomePort, TypeOK
    <3> QED BY <3>1, <3>2
  <2> QED BY <2>2, <2>3 DEF LockersNamed
<1> QED BY <1>2, <1>3, <1>4, <1>5, <1>6 DEF Next

(* The Desktop lock that ScreenLock implements on the session's Desktop. *)
WindowOf(p) == IF ~HasWindow(p) THEN "none"
               ELSE IF locker[p].process = "up" THEN "open"
               ELSE "going"
HomeStep == HomeLock!Next \/ UNCHANGED HomeLock!vars

LEMMA HomeStutters ==
  ASSUME HomeSame, \A p \in Lockers : WindowOf(p)' = WindowOf(p)
  PROVE  HomeStep
BY DEF HomeStep, HomeLock!vars, HomeSame, WindowOf, HasWindow

LEMMA HomeWindow ==
  ASSUME HomeSame, NEW p \in Lockers, \A q \in Lockers \ {p} : WindowOf(q)' = WindowOf(q),
         \/ WindowOf(p)' = WindowOf(p)
         \/ WindowOf(p) = "open" /\ WindowOf(p)' = "going"
         \/ WindowOf(p) = "going" /\ WindowOf(p)' = "none"
         \/ /\ WindowOf(p) = "none" /\ WindowOf(p)' = "open"
            /\ \A q \in Lockers \ {p} : WindowOf(q) # "open"
  PROVE  HomeStep
<1> DEFINE w == [q \in Lockers |-> WindowOf(q)]
<1>1. w' = [w EXCEPT ![p] = WindowOf(p)']
  OBVIOUS
<1>2. CASE WindowOf(p)' = WindowOf(p)
  BY <1>2, HomeStutters
<1>3. CASE WindowOf(p) = "open" /\ WindowOf(p)' = "going"
  <2>1. HomeLock!Go(p)
    BY <1>1, <1>3 DEF HomeLock!Go, HomeLock!Becomes, HomeSame, WindowOf, HasWindow
  <2> QED BY <2>1 DEF HomeStep, HomeLock!Next
<1>4. CASE WindowOf(p) = "going" /\ WindowOf(p)' = "none"
  <2>1. HomeLock!Close(p)
    BY <1>1, <1>4 DEF HomeLock!Close, HomeLock!Becomes, HomeSame, WindowOf, HasWindow
  <2> QED BY <2>1 DEF HomeStep, HomeLock!Next
<1>5. CASE /\ WindowOf(p) = "none" /\ WindowOf(p)' = "open"
           /\ \A q \in Lockers \ {p} : WindowOf(q) # "open"
  <2>1. HomeLock!Open(p)
    BY <1>1, <1>5 DEF HomeLock!Open, HomeLock!OthersGo, HomeLock!Becomes, HomeSame,
                      WindowOf, HasWindow
  <2> QED BY <2>1 DEF HomeStep, HomeLock!Next
<1> QED BY <1>2, <1>3, <1>4, <1>5

(* A locker whose window is there to stay is the one that janus knows, and *)
(* no order on its way names another: because the lockers take turns, or   *)
(* because no order outlives its request.                                  *)
OpenIsKnown ==
  \A q \in Lockers : WindowOf(q) = "open" => q = unlockApp /\ NoneLeft(q)

LEMMA TurnsSuffice == TurnInv => OpenIsKnown
BY DEF TurnInv, OnlyUp, Live, Turn, Settled, WindowOf, OpenIsKnown

LEMMA AnswersSuffice == OnlyUp /\ NoneLeft(unlockApp) => OpenIsKnown
<1> SUFFICES ASSUME OnlyUp, NoneLeft(unlockApp),
                    NEW q \in Lockers, WindowOf(q) = "open"
             PROVE  q = unlockApp /\ NoneLeft(q)
  BY DEF OpenIsKnown
<1>1. q = unlockApp
  BY DEF OnlyUp, Live, WindowOf
<1> QED BY <1>1 DEF NoneLeft

LEMMA HomeApplies ==
  ASSUME TypeOK, OpenIsKnown, LockersNamed, ApplyOrder(Home)
  PROVE  HomeStep
<1> DEFINE m == Head(HomePort)
<1>1. /\ HomePort # <<>> /\ locker' = locker
      /\ desktop'[Home] = AfterOrder(Home, m)
  BY LockConstants DEF ApplyOrder, HomePort, TypeOK
<1>2. /\ HomePort' = Tail(HomePort)
      /\ desktop'[Home].locked = (m.what = "lock")
      /\ desktop'[Home].team = IF m.what = "lock" THEN m.team
                               ELSE IF desktop[Home].locked THEN NoLocker
                               ELSE desktop[Home].team
  BY <1>1 DEF AfterOrder, HomePort
<1>3. m = HomePort[1] /\ 1 \in DOMAIN HomePort
  BY <1>1, <1>2, HomePortShrinks
<1>4. \A q \in Lockers : WindowOf(q)' = WindowOf(q)
  BY <1>1 DEF WindowOf, HasWindow
<1>5. CASE m.what = "lock"
  <2>1. m.team \in Lockers
    BY <1>3, <1>5 DEF LockersNamed
  <2>2. \A q \in Lockers \ {m.team} : WindowOf(q) # "open"
    BY <1>3, <1>5 DEF OpenIsKnown, NoneLeft, NamesAnother
  <2>3. HomeLock!Lock(m.team)
    BY <1>2, <1>4, <1>5, <2>2
       DEF HomeLock!Lock, HomeLock!OthersGo, WindowOf, HasWindow
  <2> QED BY <2>1, <2>3 DEF HomeStep, HomeLock!Next
<1>6. CASE m.what # "lock" /\ desktop[Home].locked
  <2>1. HomeLock!Unlock
    BY <1>2, <1>4, <1>6 DEF HomeLock!Unlock, WindowOf, HasWindow
  <2> QED BY <2>1 DEF HomeStep, HomeLock!Next
<1>7. CASE m.what # "lock" /\ ~desktop[Home].locked
  <2>1. desktop[Home].locked = FALSE
    BY <1>7, LockConstants DEF TypeOK
  <2>2. HomeSame
    BY <1>2, <1>7, <2>1 DEF HomeSame
  <2> QED BY <1>4, <2>2, HomeStutters
<1> QED BY <1>5, <1>6, <1>7

LEMMA HomeDaemon ==
  ASSUME TypeOK, OpenIsKnown,
         LockSession \/ UnlockAuth \/ LockerDied \/ LaunchFails \/ HandlerEnds
  PROVE  HomeStep
<1>1. HomeSame
  BY DEF LockSession, UnlockAuth, LockerDied, LaunchFails, HandlerEnds, LockAnswered,
     LockFails, UnlockAnswered, UnlockFails, RelockEnds, HomeSame
<1>2. ASSUME locker' = locker PROVE HomeStep
  BY <1>1, <1>2, HomeStutters DEF WindowOf, HasWindow
<1>3. ASSUME LaunchUnlockApp PROVE HomeStep
  <2>1. CASE Live(unlockApp)
    BY <1>2, <1>3, <2>1 DEF LaunchUnlockApp
  <2>2. CASE ~Live(unlockApp)
    <3>1. PICK p \in Lockers :
            /\ FreePid(p)
            /\ locker' = [locker EXCEPT ![p] = [process |-> "up", window |-> "none"]]
      BY <1>3, <2>2 DEF LaunchUnlockApp
    <3>2. \A q \in Lockers : locker'[q] = IF q = p THEN [process |-> "up", window |-> "none"]
                                          ELSE locker[q]
      BY <3>1 DEF TypeOK
    <3>3. \A q \in Lockers : WindowOf(q)' = WindowOf(q)
      BY <3>1, <3>2 DEF FreePid, WindowOf, HasWindow
    <3> QED BY <1>1, <3>3, HomeStutters
  <2> QED BY <2>1, <2>2
(* A handler that ends may stop the locker that janus knows. *)
<1>4. ASSUME \A q \in Lockers : /\ locker'[q].window = locker[q].window
                                /\ \/ locker'[q].process = locker[q].process
                                   \/ locker'[q].process # "up"
      PROVE  HomeStep
  <2>1. ASSUME NEW q \in Lockers
        PROVE  \/ WindowOf(q)' = WindowOf(q)
               \/ WindowOf(q) = "open" /\ WindowOf(q)' = "going"
    <3>1. HasWindow(q)' <=> HasWindow(q)
      BY <1>4 DEF HasWindow
    <3>2. locker'[q].process = locker[q].process \/ locker'[q].process # "up"
      BY <1>4
    <3> QED BY <3>1, <3>2 DEF WindowOf
  <2>2. CASE \A q \in Lockers : WindowOf(q) # "open"
    <3>1. \A q \in Lockers : WindowOf(q)' = WindowOf(q)
      BY <2>1, <2>2
    <3> QED BY <1>1, <3>1, HomeStutters
  <2>3. ASSUME NEW p \in Lockers, WindowOf(p) = "open" PROVE HomeStep
    <3>1. \A q \in Lockers \ {p} : WindowOf(q)' = WindowOf(q)
      BY <2>1, <2>3 DEF OpenIsKnown
    <3> QED BY <1>1, <2>1, <3>1, HomeWindow
  <2> QED BY <2>2, <2>3
<1>5. CASE LockSession \/ (LockerDied /\ screenLocked)
  BY <1>3, <1>5 DEF LockSession, LockerDied
<1>6. CASE UnlockAuth \/ (LockerDied /\ ~screenLocked) \/ LaunchFails \/ LockAnswered
           \/ UnlockFails \/ RelockEnds
  BY <1>2, <1>6 DEF UnlockAuth, LockerDied, LaunchFails, LockAnswered, UnlockFails,
     RelockEnds
<1>7. CASE LockFails
  <2>1. locker' = [locker EXCEPT ![unlockApp].process = "dead"]
    BY <1>7 DEF LockFails
  <2>2. \A q \in Lockers : /\ locker'[q].window = locker[q].window
                           /\ \/ locker'[q].process = locker[q].process
                              \/ locker'[q].process # "up"
    BY <2>1 DEF TypeOK
  <2> QED BY <1>4, <2>2
<1>8. CASE UnlockAnswered
  <2>1. \A q \in Lockers : locker'[q] = IF q = typist /\ locker[q].process = "up"
                                          THEN [locker[q] EXCEPT !.process = "quitting"]
                                          ELSE locker[q]
    BY <1>8 DEF UnlockAnswered
  <2>2. \A q \in Lockers : /\ locker'[q].window = locker[q].window
                           /\ \/ locker'[q].process = locker[q].process
                              \/ locker'[q].process # "up"
    BY <2>1 DEF TypeOK
  <2> QED BY <1>4, <2>2
<1> QED BY <1>5, <1>6, <1>7, <1>8 DEF HandlerEnds

LEMMA HomeLockers ==
  ASSUME TypeOK, OnlyUp, OpenIsKnown, NEW p \in Lockers, LockerStep(p)
  PROVE  HomeStep
<1>1. HomeSame
  BY DEF LockerStep, OpenWindow, Crash, CloseWindow, Exit, HomeSame
<1>2. ASSUME NEW r \in LockerTypes, locker' = [locker EXCEPT ![p] = r]
      PROVE  /\ locker'[p] = r
             /\ \A q \in Lockers \ {p} : WindowOf(q)' = WindowOf(q)
  BY <1>2 DEF TypeOK, WindowOf, HasWindow
<1>3. locker[p] \in LockerTypes
  BY DEF TypeOK, LockerTypes
<1>4. CASE OpenWindow(p)
  <2>1. PICK w \in {"shown", "hidden"} :
          locker' = [locker EXCEPT ![p] = [locker[p] EXCEPT !.window = w]]
    BY <1>4 DEF OpenWindow
  <2>2. /\ [locker[p] EXCEPT !.window = w] \in LockerTypes
        /\ locker[p].process = "up" /\ locker[p].window = "none"
    BY <1>3, <1>4 DEF OpenWindow, LockerTypes
  <2>3. \A q \in Lockers \ {p} : WindowOf(q) # "open"
    BY <2>2 DEF OnlyUp, OpenIsKnown, Live
  <2>4. WindowOf(p) = "none" /\ WindowOf(p)' = "open"
    BY <1>2, <1>3, <2>1, <2>2 DEF WindowOf, HasWindow, LockerTypes
  <2> QED BY <1>1, <1>2, <2>1, <2>2, <2>3, <2>4, HomeWindow
<1>5. CASE Crash(p) \/ Exit(p)
  <2>1. /\ locker' = [locker EXCEPT ![p] = [locker[p] EXCEPT !.process = "dead"]]
        /\ locker[p].process = "up" \/ ~HasWindow(p)
    BY <1>5 DEF Crash, Exit
  <2>2. [locker[p] EXCEPT !.process = "dead"] \in LockerTypes
    BY <1>3 DEF LockerTypes
  <2>3. /\ locker'[p].process = "dead" /\ locker'[p].window = locker[p].window
        /\ HasWindow(p)' <=> HasWindow(p)
    <3>1. locker'[p] = [locker[p] EXCEPT !.process = "dead"]
      BY <1>2, <2>1, <2>2
    <3>2. locker'[p].process = "dead" /\ locker'[p].window = locker[p].window
      BY <1>3, <3>1 DEF LockerTypes
    <3> QED BY <3>2 DEF HasWindow
  <2>4. \/ WindowOf(p)' = WindowOf(p)
        \/ WindowOf(p) = "open" /\ WindowOf(p)' = "going"
    BY <2>1, <2>3 DEF WindowOf
  <2> QED BY <1>1, <1>2, <2>1, <2>2, <2>4, HomeWindow
<1>6. CASE CloseWindow(p)
  <2>1. /\ locker[p].process \in {"quitting", "dead"} /\ HasWindow(p)
        /\ locker' = [locker EXCEPT ![p] = [locker[p] EXCEPT !.window = "closed"]]
    BY <1>6 DEF CloseWindow
  <2>2. [locker[p] EXCEPT !.window = "closed"] \in LockerTypes
    BY <1>3 DEF LockerTypes
  <2>3. WindowOf(p) = "going" /\ WindowOf(p)' = "none"
    BY <1>2, <1>3, <2>1, <2>2 DEF WindowOf, HasWindow, LockerTypes
  <2> QED BY <1>1, <1>2, <2>1, <2>2, <2>3, HomeWindow
<1> QED BY <1>4, <1>5, <1>6 DEF LockerStep

LEMMA HomeRefined ==
  ASSUME TypeOK, OnlyUp, OpenIsKnown, LockersNamed, [Next]_vars
  PROVE  [HomeLock!Next]_(HomeLock!vars)
<1> SUFFICES HomeStep
  BY DEF HomeStep
<1>1. ASSUME locker' = locker, HomeSame PROVE HomeStep
  BY <1>1, HomeStutters DEF WindowOf, HasWindow
<1>2. CASE HandleOrder \/ HandleLockDone
  BY <1>1, <1>2, HomeHears DEF HandleOrder, HandleLockDone
<1>3. CASE UNCHANGED vars
  BY <1>1, <1>3 DEF vars, HomeSame
<1>4. ASSUME NEW d \in Desktops, ApplyOrder(d) PROVE HomeStep
  <2>1. CASE d = Home
    BY <1>4, <2>1, HomeApplies
  <2>2. CASE d # Home
    BY <1>1, <1>4, <2>2, LockConstants DEF ApplyOrder, TypeOK, HomeSame
  <2> QED BY <2>1, <2>2
<1> QED BY <1>2, <1>3, <1>4, HomeDaemon, HomeLockers DEF Next

(* As long as app_server answers, an order that locks names the locker     *)
(* that janus knows, for no order is left when janus turns to another.     *)
LEMMA KnownNext ==
  ASSUME TypeOK, AppServerAnswers, RequestInv, NoneLeft(unlockApp), [Next]_vars
  PROVE  NoneLeft(unlockApp)'
<1> PICK p : p = unlockApp
  OBVIOUS
<1>1. NoneLeft(p) /\ NoneBehind(p)
  BY DEF NoneLeft, NoneBehind
<1>2. ASSUME QueuesKeep(p), unlockApp' = unlockApp PROVE NoneLeft(unlockApp)'
  BY <1>1, <1>2 DEF QueuesKeep, NoneLeft, NamesAnother
<1>3. NoOrders /\ appPort = <<>> => HomePort = <<>> /\ appPort = <<>>
  BY LockConstants DEF NoOrders, HomePort
<1>4. ASSUME HomePort = <<>>, appPort = <<>>, UNCHANGED <<appPort, desktop>>
      PROVE  NoneLeft(unlockApp)'
  BY <1>4 DEF NoneLeft, HomePort
<1>5. ASSUME daemon.pc = "idle" PROVE HomePort = <<>> /\ appPort = <<>>
  BY <1>3, <1>5 DEF RequestInv, Rest, Still
<1>6. ASSUME NEW h, NEW what, NEW team, Ask(h, what, team), daemon.pc = "idle",
             what = "unlock" \/ team = unlockApp', UNCHANGED desktop
      PROVE  NoneLeft(unlockApp)'
  <2>1. HomePort = <<>> /\ appPort = <<>> /\ HomePort' = HomePort
    BY <1>5, <1>6 DEF HomePort
  <2>2. CASE appPort' = appPort
    BY <1>4, <1>6, <2>1, <2>2
  <2>3. ASSUME NEW r \in Requests,
               appPort' = Append(appPort, [what |-> what, req |-> r, team |-> team])
        PROVE  NoneLeft(unlockApp)'
    <3>1. appPort' = <<[what |-> what, req |-> r, team |-> team]>>
      BY <2>1, <2>3
    <3>2. \A i \in DOMAIN appPort' :
            appPort'[i] = [what |-> what, req |-> r, team |-> team]
      BY <3>1
    <3>3. \A i \in DOMAIN appPort' : ~NamesAnother(appPort'[i], unlockApp')
      BY <1>6, <3>2 DEF NamesAnother
    <3> QED BY <2>1, <3>3 DEF NoneLeft, NamesAnother
  <2> QED BY <1>6, <2>2, <2>3 DEF Ask
<1>7. CASE LockSession \/ (LockerDied /\ screenLocked)
  <2>1. PICK h : Ask(h, "lock", unlockApp') /\ daemon.pc = "idle" /\ UNCHANGED desktop
    BY <1>7 DEF LockSession, LockerDied
  <2> QED BY <1>6, <2>1
<1>8. CASE UnlockAuth
  <2>1. /\ Ask("unlock", "unlock", NoLocker) /\ daemon.pc = "idle"
        /\ UNCHANGED desktop
    BY <1>8 DEF UnlockAuth
  <2> QED BY <1>6, <2>1
<1>9. CASE (LockerDied /\ ~screenLocked) \/ LaunchFails
  <2>1. daemon.pc = "idle" /\ UNCHANGED <<appPort, desktop>>
    BY <1>9 DEF LockerDied, LaunchFails, server
  <2> QED BY <1>4, <1>5, <2>1
<1>10. CASE HandlerEnds
  <2>1. NoOrders /\ appPort = <<>>
    BY <1>10, EndsWhenDone DEF Done, Unsent, Still
  <2>2. UNCHANGED <<appPort, desktop>>
    BY <1>10 DEF HandlerEnds, LockAnswered, LockFails, UnlockAnswered, UnlockFails,
       RelockEnds, server
  <2> QED BY <1>3, <1>4, <2>1, <2>2
<1>11. CASE HandleOrder \/ HandleLockDone
  <2>1. appPort # <<>> /\ appPort' = Tail(appPort) /\ UNCHANGED unlockApp
    BY <1>11 DEF HandleOrder, HandleLockDone, janus
  <2>2. \/ HomePort' = HomePort
        \/ Head(appPort) \in Orders /\ HomePort' = Append(HomePort, Head(appPort))
    BY <1>11, HomeHears
  <2>3. QueuesKeep(p)
    BY <1>1, <2>1, <2>2, CollectedKeeps, PassedOnKeeps
  <2> QED BY <1>2, <2>1, <2>3
<1>12. ASSUME NEW d \in Desktops, ApplyOrder(d) PROVE NoneLeft(unlockApp)'
  <2>1. appPort' = Append(appPort, LockDone) /\ UNCHANGED unlockApp
    BY <1>12 DEF ApplyOrder, janus
  <2>2. CASE d = Home
    <3>1. HomePort # <<>> /\ HomePort' = Tail(HomePort)
      BY <1>12, <2>2, LockConstants DEF ApplyOrder, AfterOrder, HomePort, TypeOK
    <3> QED BY <1>1, <1>2, <2>1, <3>1, AppliedKeeps
  <2>3. CASE d # Home
    <3>1. HomePort' = HomePort
      BY <1>12, <2>3, LockConstants DEF ApplyOrder, HomePort, TypeOK
    <3>2. ~NamesAnother(LockDone, p)
      BY DEF LockDone, NamesAnother
    <3> QED BY <1>1, <1>2, <2>1, <3>1, <3>2, AskedKeeps
  <2> QED BY <2>2, <2>3
<1>13. CASE UNCHANGED vars \/ \E q \in Lockers : LockerStep(q)
  <2>1. UNCHANGED <<unlockApp, appPort, desktop>>
    BY <1>13 DEF vars, LockerStep, OpenWindow, Crash, CloseWindow, Exit, server, janus
  <2>2. UNCHANGED HomePort
    BY <2>1 DEF HomePort
  <2> QED BY <1>1, <1>2, <2>1, <2>2, QueuesStay
<1> QED BY <1>7, <1>8, <1>9, <1>10, <1>11, <1>12, <1>13 DEF Next

(* The session's Desktop is a DesktopLock: no order names a locker, and    *)
(* none opens its window, while the window of another one is there to      *)
(* stay.  That is so however many orders time out or are lost, and         *)
(* whatever lockers are killed, crash or are stopped, as long as a locker  *)
(* waits with its window for the Desktop to know it; and whatever lockers  *)
(* do, as long as app_server answers.                                      *)
THEOREM OrdersTakeTurns ==
  ASSUME "earlyWindow" \notin Events \/ AppServerAnswers
  PROVE  Spec => IsDesktopLock
<1>1. Init => HomeLock!Init
  <2> SUFFICES ASSUME Init PROVE HomeLock!Init
    OBVIOUS
  <2>1. desktop[Home].locked = FALSE /\ desktop[Home].team = NoLocker
    BY LockConstants DEF Init
  <2>2. \A p \in Lockers : ~HasWindow(p)
    BY DEF Init, HasWindow
  <2> QED BY <2>1, <2>2 DEF HomeLock!Init
<1>2. /\ TypeOK /\ OnlyUp /\ OpenIsKnown /\ LockersNamed /\ [Next]_vars
         => [HomeLock!Next]_(HomeLock!vars)
  BY HomeRefined
<1>3. Spec => []LockersNamed
  BY NamedInit, NamedNext, TypeCorrect, PTL DEF Spec
<1>4. Spec => []OnlyUp
  <2>1. Init => OnlyUp
    BY TurnInit DEF TurnInv
  <2> QED BY <2>1, OneLockerNext, TypeCorrect, PTL DEF Spec
<1>5. Spec => []OpenIsKnown
  <2>1. CASE "earlyWindow" \notin Events
    <3>1. Spec => []TurnInv
      BY <2>1, TurnInvariant
    <3> QED BY <3>1, TurnsSuffice, PTL
  <2>2. CASE AppServerAnswers
    <3>1. Spec => []RequestInv
      BY <2>2, RequestInvariant
    <3>2. Init => NoneLeft(unlockApp)
      BY LockConstants DEF Init, NoneLeft, HomePort
    <3>3. /\ TypeOK /\ RequestInv /\ NoneLeft(unlockApp) /\ [Next]_vars
             => NoneLeft(unlockApp)'
      BY <2>2, KnownNext
    <3> QED
      BY <1>4, <3>1, <3>2, <3>3, AnswersSuffice, TypeCorrect, PTL DEF Spec
  <2> QED BY <2>1, <2>2
<1> QED
  BY <1>1, <1>2, <1>3, <1>4, <1>5, TypeCorrect, PTL
     DEF Spec, IsDesktopLock, HomeLock!Spec
=============================================================================
