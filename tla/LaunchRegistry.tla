---------------------------- MODULE LaunchRegistry ----------------------------
(***************************************************************************)
(* The registry of servers in janus, the supervisor (servers/janus/        *)
(* janus.cpp): the table sApps of servers and their ports, which           *)
(* B_GET_LAUNCH_DATA looks servers up in, and the table sPending of the    *)
(* launches that wait for their server to say, through a pipe, that its    *)
(* port exists.                                                            *)
(*                                                                         *)
(* There are two kinds of server.  The system server (mount_server) is     *)
(* janus's child: janus launches it, reaps it and starts it again for      *)
(* every new registrar.  The session server (the registrar) belongs to a   *)
(* janus_session, which reports it with REGISTER and UNREGISTER messages.  *)
(*                                                                         *)
(* Four threads share the tables: the launch daemon, the main thread that  *)
(* reaps children, the thread that restarts mount_server, and the session  *)
(* transition that purges a dead login's servers.                          *)
(***************************************************************************)
EXTENDS Naturals, Sequences

CONSTANTS
  Pids,         \* pids of the servers; none is reused
  NoPid,        \* pid -1, and port -1
  MaxApps,      \* JANUS_MAX_APPS
  MaxPending,   \* JANUS_MAX_PENDING
  PortSize,     \* bound: messages waiting at the launch port
  Restarters,   \* the restart threads pthread_create() can supply
  Events        \* what may happen in an instance

ASSUME RegistryConstants ==
  /\ NoPid \notin Pids
  /\ MaxApps \in Nat \ {0}
  /\ MaxPending \in Nat \ {0}
  /\ PortSize \in Nat
  /\ Events \subseteq {"slowServer", "hastyDeath", "stubborn", "newLogin",
                 "overlap"}

System == "mount_server"
Session == "registrar"
Signatures == {System, Session}

VARIABLES
  apps,         \* sApps, the whole array
  count,        \* sAppCount
  pending,      \* sPending
  daemon,       \* the launch daemon thread: its place in a handler
  port,         \* messages waiting at sLaunchPort
  reaping,      \* the main thread: the pid waitpid() returned
  restart,      \* restart thread -> its place and the server it stops
  server,       \* pid -> signature and state of that process
  report,       \* janus_session: the server it is about to REGISTER
  newest,       \* history: signature -> the server janus last heard is ready
  unanswered    \* history: the servers whose launch awaits its answer

vars == <<apps, count, pending, daemon, port, reaping, restart, server, report,
          newest, unanswered>>

Slots == 1 .. MaxPending
Rows == 1 .. MaxApps
EmptyRow == [sig |-> "none", pid |-> NoPid, port |-> NoPid]
NoLaunch == [active |-> FALSE, row |-> 0, pid |-> NoPid]
IdleDaemon == [pc |-> "idle", pid |-> NoPid, slot |-> 0]
IdleRestart == [pc |-> "none", old |-> NoPid]

Messages ==
  [what : {"launch"}] \cup [what : {"register", "unregister"}, pid : Pids]

TypeOK ==
  /\ apps \in [Rows -> [sig : Signatures \cup {"none"}, pid : Pids \cup {NoPid},
                        port : Pids \cup {NoPid}]]
  /\ count \in 0 .. MaxApps
  /\ pending \in [Slots -> [active : BOOLEAN, row : 0 .. MaxApps,
                            pid : Pids \cup {NoPid}]]
  /\ daemon \in [pc : {"idle", "record", "reply"}, pid : Pids \cup {NoPid},
                 slot : 0 .. MaxPending]
  /\ port \in Seq(Messages) /\ Len(port) <= PortSize
  /\ reaping \in Pids \cup {NoPid}
  /\ restart \in [Restarters ->
                    [pc : {"none", "start", "wait", "invalidate", "launch"},
                     old : Pids \cup {NoPid}]]
  /\ server \in [Pids -> [sig : Signatures \cup {"none"}, wrote : BOOLEAN,
                          state : {"unborn", "up", "dead", "reaped"}]]
  /\ report \in Pids \cup {NoPid}
  /\ newest \in [Signatures -> Pids \cup {NoPid}]
  /\ unanswered \subseteq Pids

Init ==
  /\ apps = [i \in Rows |-> EmptyRow]
  /\ count = 0
  /\ pending = [i \in Slots |-> NoLaunch]
  /\ daemon = IdleDaemon
  /\ port = <<>>
  /\ reaping = NoPid
  /\ restart = [t \in Restarters |-> IdleRestart]
  /\ server = [p \in Pids |-> [sig |-> "none", wrote |-> FALSE, state |-> "unborn"]]
  /\ report = NoPid
  /\ newest = [s \in Signatures |-> NoPid]
  /\ unanswered = {}

(* A server's port goes away with the server. *)
PortExists(p) == p \in Pids /\ server[p].wrote /\ server[p].state = "up"

-----------------------------------------------------------------------------
(* Operators on the table; each is used under sAppsLock. *)

RowsOf(s) == {i \in 1 .. count : apps[i].sig = s}
First(S) == CHOOSE i \in S : \A j \in S : i <= j

(* find_app_by_sig(): the first row, 0 for none. *)
Find(s) == IF RowsOf(s) = {} THEN 0 ELSE First(RowsOf(s))

Cleared(row) == [row EXCEPT !.pid = NoPid, !.port = NoPid]

(* Mutant of InvalidateApp: the row is found by what server it is for. *)
InvalidateByName(p) ==
  LET i == Find(server[p].sig)
  IN  apps' = IF i = 0 THEN apps ELSE [apps EXCEPT ![i] = Cleared(@)]

(* invalidate_app_by_pid(): the first row of that process. *)
InvalidateApp(p) ==
  LET mine == {i \in 1 .. count : apps[i].pid = p}
  IN  apps' = IF mine = {} THEN apps
              ELSE [apps EXCEPT ![First(mine)] = Cleared(@)]

(* Where handle_launch_job() records its server: a row whose server is     *)
(* known to be gone, else a new one, 0 when the table is full.             *)
LaunchRow ==
  LET free == {i \in RowsOf(System) : apps[i].pid = NoPid}
  IN  IF free # {} THEN First(free)
      ELSE IF count < MaxApps THEN count + 1 ELSE 0

(* Mutant of RegisterRow: only rows known to be free are reused. *)
RegisterRowIfFree ==
  LET free == {i \in RowsOf(Session) : apps[i].pid = NoPid}
  IN  IF free # {} THEN First(free)
      ELSE IF count < MaxApps THEN count + 1 ELSE 0

(* Where handle_register_app() does: live rows are reused as well.         *)
RegisterRow ==
  IF Find(Session) # 0 THEN Find(Session)
  ELSE IF count < MaxApps THEN count + 1 ELSE 0

Grown(row) == IF row > count THEN row ELSE count

-----------------------------------------------------------------------------
(* The launch daemon thread. *)

Receive(what) ==
  /\ daemon.pc = "idle"
  /\ port # <<>> /\ Head(port).what = what
  /\ port' = Tail(port)

(* fork() returns a new pid; which of them makes no difference. *)
NewPid == CHOOSE p \in Pids : server[p].state = "unborn"
Born(p, s, ready) ==
  /\ server[p].state = "unborn" /\ p = NewPid
  /\ server' = [server EXCEPT ![p] = [sig |-> s, wrote |-> ready, state |-> "up"]]

(* handle_launch_job() forks first, ... *)
LaunchJob ==
  /\ Receive("launch")
  /\ \E p \in Pids :
       /\ Born(p, System, FALSE)
       /\ daemon' = [IdleDaemon EXCEPT !.pc = "record", !.pid = p]
       /\ unanswered' = unanswered \cup {p}
  /\ UNCHANGED <<apps, count, pending, reaping, restart, report, newest>>

FreeSlots == {i \in Slots : ~pending[i].active}

(* Mutant of RecordLaunch: no answer when no pending slot is left. *)
RecordWithoutReply ==
  /\ daemon.pc = "record"
  /\ IF LaunchRow = 0
       THEN UNCHANGED <<apps, count, pending>>
       ELSE /\ apps' = [apps EXCEPT ![LaunchRow] = [sig |-> System,
                                                    pid |-> daemon.pid,
                                                    port |-> NoPid]]
            /\ count' = Grown(LaunchRow)
            /\ pending' = IF FreeSlots = {} THEN pending
                          ELSE [pending EXCEPT ![First(FreeSlots)] =
                                  [active |-> TRUE, row |-> LaunchRow,
                                   pid |-> daemon.pid]]
  /\ unanswered' = IF LaunchRow = 0 THEN unanswered \ {daemon.pid}
                                    ELSE unanswered
  /\ daemon' = IdleDaemon
  /\ UNCHANGED <<port, reaping, restart, server, report, newest>>

(* ... then enters the child in both tables.  With no row or no pending    *)
(* slot left it answers at once, and the child's pipe is closed.           *)
RecordLaunch ==
  /\ daemon.pc = "record"
  /\ IF LaunchRow = 0
       THEN UNCHANGED <<apps, count, pending>>
       ELSE /\ apps' = [apps EXCEPT ![LaunchRow] = [sig |-> System,
                                                    pid |-> daemon.pid,
                                                    port |-> NoPid]]
            /\ count' = Grown(LaunchRow)
            /\ pending' = IF FreeSlots = {} THEN pending
                          ELSE [pending EXCEPT ![First(FreeSlots)] =
                                  [active |-> TRUE, row |-> LaunchRow,
                                   pid |-> daemon.pid]]
  /\ unanswered' = IF LaunchRow = 0 \/ FreeSlots = {}
                     THEN unanswered \ {daemon.pid} ELSE unanswered
  /\ daemon' = IdleDaemon
  /\ UNCHANGED <<port, reaping, restart, server, report, newest>>

(* check_pending_launches(): the server wrote its port to the pipe, or     *)
(* died without, or took longer than ten seconds.  The port is entered in  *)
(* the row the launch remembers, if that row is still the same server's,   *)
ResolveLaunch(i) ==
  /\ daemon.pc = "idle"
  /\ pending[i].active
  /\ LET p == pending[i].pid
         row == pending[i].row
         stale == apps[row].pid # p
     IN  \/ /\ server[p].wrote
            /\ IF stale THEN UNCHANGED <<apps, newest>>
                        ELSE /\ apps' = [apps EXCEPT ![row].port = p]
                             /\ newest' = [newest EXCEPT ![System] = p]
         \/ /\ ~server[p].wrote
            /\ server[p].state # "up" \/ "slowServer" \in Events
            /\ UNCHANGED <<apps, newest>>
  /\ daemon' = [pc |-> "reply", pid |-> pending[i].pid, slot |-> i]
  /\ UNCHANGED <<count, pending, port, reaping, restart, server, report,
                 unanswered>>

(* and the launch is answered. *)
ReplyLaunch ==
  /\ daemon.pc = "reply"
  /\ pending' = [pending EXCEPT ![daemon.slot] = NoLaunch]
  /\ unanswered' = unanswered \ {daemon.pid}
  /\ daemon' = IdleDaemon
  /\ UNCHANGED <<apps, count, port, reaping, restart, server, report, newest>>

(* handle_register_app(): with no row left the server is not entered.  A   *)
(* registrar starts the restart thread in any case.                        *)
RegisterApp ==
  /\ Receive("register")
  /\ LET row == RegisterRow
         p == Head(port).pid
     IN  IF row = 0
           THEN UNCHANGED <<apps, count>>
           ELSE /\ apps' = [apps EXCEPT ![row] = [sig |-> Session, pid |-> p,
                                                  port |-> p]]
                /\ count' = Grown(row)
  /\ newest' = [newest EXCEPT ![Session] = Head(port).pid]
  /\ LET free == {t \in Restarters : restart[t].pc = "none"}
     IN  IF free = {} THEN UNCHANGED restart
         ELSE \E t \in free : restart' = [restart EXCEPT ![t].pc = "start"]
  /\ UNCHANGED <<pending, daemon, reaping, server, report, unanswered>>

(* Mutant of UnregisterApp: a late notice clears its replacement's row. *)
UnregisterAny ==
  /\ Receive("unregister")
  /\ LET i == Find(Session)
     IN  apps' = IF i # 0 THEN [apps EXCEPT ![i] = Cleared(@)] ELSE apps
  /\ UNCHANGED <<count, pending, daemon, reaping, restart, server, report,
                 newest, unanswered>>

(* handle_unregister_app(): only if the row is still that server's. *)
UnregisterApp ==
  /\ Receive("unregister")
  /\ LET i == Find(Session)
     IN  apps' = IF i # 0 /\ apps[i].pid = Head(port).pid
                   THEN [apps EXCEPT ![i] = Cleared(@)] ELSE apps
  /\ UNCHANGED <<count, pending, daemon, reaping, restart, server, report,
                 newest, unanswered>>

(* handle_get_launch_data() drops a row whose port is gone. *)
GetLaunchData(s) ==
  /\ daemon.pc = "idle"
  /\ LET i == Find(s)
     IN  /\ i # 0 /\ apps[i].port # NoPid /\ ~PortExists(apps[i].port)
         /\ apps' = [apps EXCEPT ![i] = Cleared(@)]
  /\ UNCHANGED <<count, pending, daemon, port, reaping, restart, server,
                 report, newest, unanswered>>

-----------------------------------------------------------------------------
(* The main thread reaps children: waitpid(), then the table. *)

Reap(p) ==
  /\ reaping = NoPid
  /\ server[p].sig = System /\ server[p].state = "dead"
  /\ server' = [server EXCEPT ![p].state = "reaped"]
  /\ reaping' = p
  /\ UNCHANGED <<apps, count, pending, daemon, port, restart, report, newest,
                 unanswered>>

ReapInvalidate ==
  /\ reaping # NoPid
  /\ InvalidateApp(reaping)
  /\ reaping' = NoPid
  /\ UNCHANGED <<count, pending, daemon, port, restart, server, report, newest,
                 unanswered>>

-----------------------------------------------------------------------------
(* mount_server_restart_thread(): kill the survivor of the last login, *)

RestartStart(t) ==
  /\ restart[t].pc = "start"
  /\ LET i == Find(System)
         old == IF i = 0 THEN NoPid ELSE apps[i].pid
     IN  restart' = [restart EXCEPT ![t] =
                       [pc |-> IF old = NoPid THEN "launch" ELSE "wait",
                        old |-> old]]
  /\ UNCHANGED <<apps, count, pending, daemon, port, reaping, server, report,
                 newest, unanswered>>

(* wait until it is gone, for two seconds at most, *)
RestartWait(t) ==
  /\ restart[t].pc = "wait"
  /\ LET old == restart[t].old
     IN  \/ /\ server[old].state \in {"dead", "reaped"}
            /\ server' = [server EXCEPT ![old].state = "reaped"]
         \/ /\ "stubborn" \in Events /\ server[old].state = "up"
            /\ UNCHANGED server
  /\ restart' = [restart EXCEPT ![t].pc = "invalidate"]
  /\ UNCHANGED <<apps, count, pending, daemon, port, reaping, report, newest,
                 unanswered>>

RestartInvalidate(t) ==
  /\ restart[t].pc = "invalidate"
  /\ InvalidateApp(restart[t].old)
  /\ restart' = [restart EXCEPT ![t] = [pc |-> "launch", old |-> NoPid]]
  /\ newest' = IF newest[System] = restart[t].old
                 THEN [newest EXCEPT ![System] = NoPid] ELSE newest
  /\ UNCHANGED <<count, pending, daemon, port, reaping, server, report,
                 unanswered>>

(* and ask for a new one, on the same port as everybody else. *)
Send(m) == Len(port) < PortSize /\ port' = Append(port, m)

RestartLaunch(t) ==
  /\ restart[t].pc = "launch"
  /\ Send([what |-> "launch"])
  /\ restart' = [restart EXCEPT ![t] = IdleRestart]
  /\ UNCHANGED <<apps, count, pending, daemon, reaping, server, report, newest,
                 unanswered>>

-----------------------------------------------------------------------------
(* purge_session_apps(), in a session transition.  The old janus_session   *)
(* and its servers are gone, and with them what it had not sent.  The rows *)
(* that stay move to the front; what was behind them is left as it was.    *)

Stays == {i \in 1 .. count : apps[i].sig = System}

PurgeSessionApps ==
  /\ "newLogin" \in Events
  /\ \E keep \in 0 .. count : \E kept \in [1 .. keep -> Stays] :
       /\ \A i, j \in 1 .. keep : i < j => kept[i] < kept[j]
       /\ \A r \in Stays : \E i \in 1 .. keep : kept[i] = r
       /\ count' = keep
       /\ apps' = [i \in Rows |-> IF i <= keep THEN apps[kept[i]] ELSE apps[i]]
  /\ server' = [p \in Pids |->
                  IF server[p].sig = Session
                    THEN [server[p] EXCEPT !.state = "reaped"] ELSE server[p]]
  /\ report' = NoPid
  /\ newest' = [newest EXCEPT ![Session] = NoPid]
  /\ UNCHANGED <<pending, daemon, port, reaping, restart, unanswered>>

-----------------------------------------------------------------------------
(* The servers, and the janus_session that looks after the registrar.      *)

(* BApplication writes its port to the pipe. *)
ServerReady(p) ==
  /\ server[p].sig = System /\ server[p].state = "up" /\ ~server[p].wrote
  /\ server' = [server EXCEPT ![p].wrote = TRUE]
  /\ UNCHANGED <<apps, count, pending, daemon, port, reaping, restart, report,
                 newest, unanswered>>

ServerDies(p) ==
  /\ server[p].state = "up"
  /\ daemon.pc = "record" /\ daemon.pid = p => "hastyDeath" \in Events
  /\ server' = [server EXCEPT ![p].state = "dead"]
  /\ UNCHANGED <<apps, count, pending, daemon, port, reaping, restart, report,
                 newest, unanswered>>

(* janus has restarted mount_server for the registrars it has heard of. *)
Settled ==
  /\ \A t \in Restarters : restart[t].pc = "none"
  /\ daemon.pc # "record"
  /\ \A k \in 1 .. Len(port) : port[k].what = "unregister"

(* A registrar is ready; its launch thread is about to report it, ...      *)
SessionLaunches(p) ==
  /\ report = NoPid
  /\ "overlap" \notin Events => Settled
  /\ \A q \in Pids : ~(server[q].sig = Session /\ server[q].state = "up")
  /\ Born(p, Session, TRUE)
  /\ report' = p
  /\ UNCHANGED <<apps, count, pending, daemon, port, reaping, restart, newest,
                 unanswered>>

SendRegister ==
  /\ report # NoPid
  /\ Send([what |-> "register", pid |-> report])
  /\ report' = NoPid
  /\ UNCHANGED <<apps, count, pending, daemon, reaping, restart, server,
                 newest, unanswered>>

(* ... and its main thread reports what it reaped, before or after that.   *)
SessionReaps(p) ==
  /\ server[p].sig = Session /\ server[p].state = "dead"
  /\ server' = [server EXCEPT ![p].state = "reaped"]
  /\ Send([what |-> "unregister", pid |-> p])
  /\ UNCHANGED <<apps, count, pending, daemon, reaping, restart, report,
                 newest, unanswered>>

-----------------------------------------------------------------------------
DaemonStep ==
  \/ LaunchJob \/ RecordLaunch \/ ReplyLaunch \/ RegisterApp \/ UnregisterApp
  \/ \E i \in Slots : ResolveLaunch(i)
  \/ \E s \in Signatures : GetLaunchData(s)

RestartStep(t) ==
  RestartStart(t) \/ RestartWait(t) \/ RestartInvalidate(t) \/ RestartLaunch(t)

SessionStep(p) == SessionLaunches(p) \/ SessionReaps(p)

Next ==
  \/ DaemonStep
  \/ ReapInvalidate \/ \E p \in Pids : Reap(p)
  \/ \E t \in Restarters : RestartStep(t)
  \/ PurgeSessionApps
  \/ SendRegister
  \/ \E p \in Pids : ServerReady(p) \/ ServerDies(p) \/ SessionStep(p)

Spec == Init /\ [][Next]_vars

(* janus's threads run; servers need not become ready, or die.             *)
FairSpec ==
  /\ Spec
  /\ WF_vars(RecordLaunch) /\ WF_vars(ReplyLaunch)
  /\ \A i \in Slots : SF_vars(ResolveLaunch(i))

-----------------------------------------------------------------------------
Found(s) ==
  LET p == newest[s]
  IN  PortExists(p) =>
        /\ Find(s) # 0
        /\ apps[Find(s)].pid = p
        /\ apps[Find(s)].port = p

(* A server that janus heard is ready is what B_GET_LAUNCH_DATA answers,   *)
(* as long as it lives and no other takes its place: rows are reused,      *)
(* cleared and moved by four threads, and notices come late.               *)
ReadyServerIsFound == \A s \in Signatures : Found(s)

(* The same of a session's server, across logins: unless the table had no  *)
(* room for it, as restarts that overlap may bring about.                  *)
NoRoom(s) == RowsOf(s) = {} /\ count = MaxApps
SessionServerIsFound == NoRoom(Session) \/ Found(Session)

(* "find_app_by_sig() returns the first hit, so a row left behind by a     *)
(* dead server would shadow its replacement."                              *)
NoRowShadows ==
  \A s \in Signatures, i, j \in 1 .. count :
    apps[i].sig = s /\ apps[j].sig = s => i = j

(* Every launch is answered, though its server may never become ready, its *)
(* row may be purged or reused meanwhile, and the tables may be full.      *)
LaunchesAreAnswered ==
  \A p \in Pids : p \in unanswered ~> p \notin unanswered
=============================================================================
