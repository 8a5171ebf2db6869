------------------------------ MODULE SeatSwitch ------------------------------
(***************************************************************************)
(* Switching the virtual terminal.  janus relays a request to the launch   *)
(* port of the janus_session that owns the seat (servers/janus/janus.cpp); *)
(* the launch thread there hands it to the seat thread through one slot    *)
(* and waits; the seat thread, which alone may call libseat, polls the     *)
(* seat, tells app_server when the seat goes and comes back, and serves    *)
(* the slot (servers/janus_session/janus_session.cpp).                     *)
(*                                                                         *)
(* app_server stands for all servers that follow the seat: input_server is *)
(* told in the same way before it, the others without waiting.  The slot's *)
(* mutex is held for each action on it; sSeatWakeFd only shortens a poll   *)
(* that ends after 200 ms.  libseat, logind and the kernel are external.   *)
(***************************************************************************)
EXTENDS Naturals, SequencesExt

CONSTANTS
  Vts,        \* the terminals asked for; one request on its way for each
  NoVt,       \* no request
  PortSize,   \* bound: relayed requests waiting at the launch port
  Backlog,    \* bound: signals that app_server has not read when more come
  Events      \* the mishaps that an instance considers

ASSUME SeatConstants ==
  /\ IsFiniteSet(Vts)
  /\ NoVt \notin Vts
  /\ PortSize \in Nat /\ Backlog \in Nat
  /\ Events \subseteq {"slowSeat", "slowApp", "switchFails", "wakeFails",
                       "sigterm", "noSeat", "lateSeat"}

VARIABLES
  janus,      \* janus: the request whose relay it waits for
  port,       \* relayed requests waiting at the launch port of the session
  launch,     \* the launch thread: the request it waits for in the slot
  slot,       \* sSeatReqVt, sSeatReqPending, sSeatReqDone, sSeatReqResult
  seatThread, \* daemon_loop(): its place, the local vt and result
  active,     \* sDaemonLoopActive
  running,    \* sRunning
  console,    \* logind: who has the console, as far as this seat matters
  events,     \* callbacks waiting in libseat's descriptor
  app,        \* app_server: what sApps knows of it, its port, fSessionActive
  answer,     \* Vt -> what the launch thread answered its last request
  performed,  \* history: the requests whose terminal was switched to
  mixed,      \* history: the slot holds the result of another request
  untold      \* history: the seat was let go before app_server let it go,
              \* or was not there when the session started

launchVars == <<janus, port, launch, answer>>
slotVars == <<slot, active, running>>
seatVars == <<console, events, app>>
histVars == <<performed, mixed, untold>>
vars == <<launchVars, slotVars, seatThread, seatVars, histVars>>

Results == {"ok", "error", "noInit"}
Signals == {"enable", "disable"}
EmptySlot == [vt |-> NoVt, pending |-> FALSE, done |-> TRUE, result |-> "ok"]

TypeOK ==
  /\ janus \in Vts \cup {NoVt}
  /\ port \in Seq(Vts) /\ Len(port) <= PortSize
  /\ launch \in Vts \cup {NoVt}
  /\ slot \in [vt : Vts \cup {NoVt}, pending : BOOLEAN, done : BOOLEAN,
               result : Results]
  /\ seatThread \in [pc : {"init", "loop", "poll", "disable", "told", "serve",
                           "switch", "complete", "ended"},
                     vt : Vts \cup {NoVt}, result : Results]
  /\ active \in BOOLEAN /\ running \in BOOLEAN
  /\ console \in {"none", "ours", "leaving", "away"}
  /\ events \in Seq(Signals)
  /\ app \in [known : BOOLEAN, up : BOOLEAN, active : BOOLEAN,
              port : Seq(Signals)]
  /\ answer \in [Vts -> Results \cup {"none", "timeout"}]
  /\ performed \subseteq Vts
  /\ mixed \in BOOLEAN /\ untold \in BOOLEAN

(* init_seat(): libseat_open_seat() can fail, and after a second without   *)
(* seat_enable_cb() the session starts all the same.                       *)
Init ==
  /\ janus = NoVt /\ port = <<>> /\ launch = NoVt
  /\ answer = [v \in Vts |-> "none"]
  /\ slot = EmptySlot /\ active = FALSE /\ running = TRUE
  /\ seatThread = [pc |-> "init", vt |-> NoVt, result |-> "ok"]
  /\ \/ console = "ours"
     \/ console = "none" /\ "noSeat" \in Events
     \/ console = "away" /\ "lateSeat" \in Events
  /\ events = <<>>
  /\ app = [known |-> FALSE, up |-> FALSE, active |-> FALSE, port |-> <<>>]
  /\ performed = {} /\ mixed = FALSE /\ untold = (console = "away")

-----------------------------------------------------------------------------
(* janus, handle_switch_vt(): relay, and wait two seconds for the reply.   *)

OnItsWay(v) == v \in {janus, launch, seatThread.vt} \cup Range(port)

Relay(v) ==
  /\ janus = NoVt
  /\ ~OnItsWay(v) /\ Len(port) < PortSize
  /\ janus' = v
  /\ port' = Append(port, v)
  /\ answer' = [answer EXCEPT ![v] = "none"]
  /\ performed' = performed \ {v}
  /\ UNCHANGED <<launch, slotVars, seatThread, seatVars, mixed, untold>>

(* The reply, or the end of the two seconds. *)
RelayEnds ==
  /\ janus # NoVt
  /\ \/ answer[janus] # "none"
     \/ {"slowSeat", "slowApp", "sigterm"} \cap Events # {}
  /\ janus' = NoVt
  /\ UNCHANGED <<port, launch, answer, slotVars, seatThread, seatVars, histVars>>

-----------------------------------------------------------------------------
(* The launch thread of janus_session: launch_port_dispatch().  It is the  *)
(* only caller of submit_switch_vt(), so it never finds the slot taken.    *)
(* One dispatch may still be under way when sRunning is cleared.           *)

Receive == launch = NoVt /\ port # <<>> /\ port' = Tail(port)

Reply(v, result) == answer' = [answer EXCEPT ![v] = result]

(* No seat, or no thread that serves the slot. *)
RefuseNoInit ==
  /\ Receive
  /\ console = "none" \/ ~active
  /\ Reply(Head(port), "noInit")
  /\ UNCHANGED <<janus, launch, slotVars, seatThread, seatVars, histVars>>

(* The write that wakes the seat thread fails. *)
WakeFails ==
  /\ "wakeFails" \in Events
  /\ Receive
  /\ console # "none" /\ active /\ ~slot.pending
  /\ slot' = [slot EXCEPT !.vt = Head(port), !.done = FALSE]
  /\ Reply(Head(port), "error")
  /\ UNCHANGED <<janus, launch, active, running, seatThread, seatVars, histVars>>

(* Mutant: sSeatReqDone keeps the value that the last request left. *)
SubmitKeepsDone ==
  /\ Receive
  /\ console # "none" /\ active /\ ~slot.pending
  /\ launch' = Head(port)
  /\ slot' = [slot EXCEPT !.vt = Head(port), !.pending = TRUE]
  /\ UNCHANGED <<janus, answer, active, running, seatThread, seatVars, histVars>>

(* submit_switch_vt() up to its wait. *)
Submit ==
  /\ Receive
  /\ console # "none" /\ active /\ ~slot.pending
  /\ launch' = Head(port)
  /\ slot' = [slot EXCEPT !.vt = Head(port), !.pending = TRUE, !.done = FALSE]
  /\ UNCHANGED <<janus, answer, active, running, seatThread, seatVars, histVars>>

(* The end of the wait: done, or five seconds have passed. *)
SubmitDone ==
  /\ launch # NoVt
  /\ slot.done
  /\ Reply(launch, slot.result)
  /\ launch' = NoVt
  /\ slot' = [slot EXCEPT !.pending = FALSE]
  /\ mixed' = FALSE
  /\ UNCHANGED <<janus, port, active, running, seatThread, seatVars, performed,
                 untold>>

SubmitTimesOut ==
  /\ {"slowSeat", "slowApp"} \cap Events # {}
  /\ launch # NoVt
  /\ ~slot.done
  /\ Reply(launch, "timeout")
  /\ launch' = NoVt
  /\ slot' = [slot EXCEPT !.pending = FALSE]
  /\ UNCHANGED <<janus, port, active, running, seatThread, seatVars, histVars>>

(* check_pending_launches(): app_server wrote its port to its pipe. *)
AppKnown ==
  /\ launch = NoVt
  /\ app.up /\ ~app.known
  /\ app' = [app EXCEPT !.known = TRUE]
  /\ UNCHANGED <<launchVars, slotVars, seatThread, console, events, histVars>>

-----------------------------------------------------------------------------
(* The seat thread, daemon_loop(). *)

Goes(from, to) ==
  /\ seatThread.pc = from
  /\ seatThread' = [seatThread EXCEPT !.pc = to]

LoopStarts ==
  /\ Goes("init", "loop")
  /\ active' = TRUE
  /\ UNCHANGED <<launchVars, slot, running, seatVars, histVars>>

LoopGoesOn ==
  /\ Goes("loop", "poll")
  /\ running
  /\ UNCHANGED <<launchVars, slotVars, seatVars, histVars>>

(* Mutant: the waiter is not released. *)
LoopEndsSilently ==
  /\ Goes("loop", "ended")
  /\ ~running
  /\ active' = FALSE
  /\ UNCHANGED <<launchVars, slot, running, seatVars, histVars>>

LoopEnds ==
  /\ Goes("loop", "ended")
  /\ ~running
  /\ active' = FALSE
  /\ slot' = [slot EXCEPT !.done = TRUE]
  /\ UNCHANGED <<launchVars, running, seatVars, histVars>>

(* poll(): the wake descriptor, a signal, the end of the 200 ms, ... *)
PollEnds ==
  /\ Goes("poll", "serve")
  /\ UNCHANGED <<launchVars, slotVars, seatVars, histVars>>

(* ... or libseat_dispatch(): seat_enable_cb(), which does not wait, and   *)
(* seat_disable_cb() as far as the message to app_server.                  *)
Tell(signal) ==
  /\ events # <<>> /\ Head(events) = signal
  /\ events' = Tail(events)
  /\ app' = IF app.known THEN [app EXCEPT !.port = Append(@, signal)] ELSE app

(* Mutants: nobody is told; the seat is let go only if somebody is told. *)
SeatEnabledUntold ==
  /\ Goes("poll", "serve")
  /\ events # <<>> /\ Head(events) = "enable"
  /\ events' = Tail(events)
  /\ UNCHANGED <<launchVars, slotVars, console, app, histVars>>

SeatDisabledIfKnown ==
  /\ Goes("poll", IF app.known THEN "told" ELSE "serve")
  /\ Tell("disable")
  /\ untold' = ~app.known
  /\ UNCHANGED <<launchVars, slotVars, console, performed, mixed>>

SeatEnabled ==
  /\ Goes("poll", "serve")
  /\ Tell("enable")
  /\ UNCHANGED <<launchVars, slotVars, console, histVars>>

SeatDisabled ==
  /\ Goes("poll", IF app.known THEN "told" ELSE "disable")
  /\ Tell("disable")
  /\ untold' = ~app.known
  /\ UNCHANGED <<launchVars, slotVars, console, performed, mixed>>

(* Mutant: the message is sent without waiting for the reply. *)
AppNotAwaited ==
  /\ Goes("told", "disable")
  /\ UNCHANGED <<launchVars, slotVars, seatVars, histVars>>

(* send_seat_message() waits for the reply, two seconds at most. *)
AppReplied ==
  /\ Goes("told", "disable")
  /\ app.port = <<>>
  /\ UNCHANGED <<launchVars, slotVars, seatVars, histVars>>

AppSlow ==
  /\ "slowApp" \in Events
  /\ Goes("told", "disable")
  /\ app.port # <<>>
  /\ untold' = TRUE
  /\ UNCHANGED <<launchVars, slotVars, seatVars, performed, mixed>>

(* The end of seat_disable_cb(): libseat_disable_seat(). *)
DisableSeat ==
  /\ Goes("disable", "serve")
  /\ console' = "away"
  /\ UNCHANGED <<launchVars, slotVars, events, app, histVars>>

(* process_seat_request() reads the slot, switches with no lock held, and  *)
(* writes the slot.                                                        *)
Pick ==
  /\ seatThread.pc = "serve"
  /\ seatThread' = IF slot.pending /\ ~slot.done
                   THEN [seatThread EXCEPT !.pc = "switch", !.vt = slot.vt]
                   ELSE [seatThread EXCEPT !.pc = "loop"]
  /\ UNCHANGED <<launchVars, slotVars, seatVars, histVars>>

(* libseat_switch_session(): logind asks this seat to let go. *)
Leave ==
  /\ console' = IF console = "ours" THEN "leaving" ELSE console
  /\ events' = IF console = "ours" THEN Append(events, "disable") ELSE events

SwitchSession ==
  /\ seatThread.pc = "switch"
  /\ seatThread' = [seatThread EXCEPT !.pc = "complete", !.result = "ok"]
  /\ performed' = performed \cup {seatThread.vt}
  /\ Leave
  /\ UNCHANGED <<launchVars, slotVars, app, mixed, untold>>

SwitchSessionFails ==
  /\ "switchFails" \in Events
  /\ seatThread.pc = "switch"
  /\ seatThread' = [seatThread EXCEPT !.pc = "complete", !.result = "error"]
  /\ UNCHANGED <<launchVars, slotVars, seatVars, histVars>>

Complete ==
  /\ seatThread.pc = "complete"
  /\ seatThread' = [seatThread EXCEPT !.pc = "loop", !.vt = NoVt]
  /\ slot' = [slot EXCEPT !.result = seatThread.result, !.done = TRUE]
  /\ mixed' = (launch \notin {NoVt, seatThread.vt})
  /\ UNCHANGED <<launchVars, active, running, seatVars, performed, untold>>

-----------------------------------------------------------------------------
(* SIGTERM, the other sessions of the seat, and app_server. *)

SigTerm ==
  /\ "sigterm" \in Events
  /\ running
  /\ running' = FALSE
  /\ UNCHANGED <<launchVars, slot, active, seatThread, seatVars, histVars>>

(* The user, or another session, takes the console away and gives it back. *)
OthersTakeConsole ==
  /\ console = "ours" /\ events = <<>>
  /\ Leave
  /\ UNCHANGED <<launchVars, slotVars, seatThread, app, histVars>>

ConsoleComesBack ==
  /\ console = "away" /\ events = <<>> /\ Len(app.port) <= Backlog
  /\ console' = "ours"
  /\ events' = Append(events, "enable")
  /\ UNCHANGED <<launchVars, slotVars, seatThread, app, histVars>>

(* Started by the fan-out after init_seat(), with the device already open. *)
AppStarts ==
  /\ seatThread.pc # "init" /\ ~app.up
  /\ app' = [app EXCEPT !.up = TRUE, !.active = TRUE]
  /\ UNCHANGED <<launchVars, slotVars, seatThread, console, events, histVars>>

(* AppServer::MessageReceived(), DrmHWInterface::OnSeatEnabled() and       *)
(* OnSeatDisabled(), and the reply.                                        *)
AppHandles ==
  /\ app.port # <<>>
  /\ app' = [app EXCEPT !.active = (Head(app.port) = "enable"),
                        !.port = Tail(app.port)]
  /\ untold' = (untold /\ (Head(app.port) = "enable" \/ Len(app.port) > 1))
  /\ UNCHANGED <<launchVars, slotVars, seatThread, console, events, performed,
                 mixed>>

SeatStep ==
  \/ LoopStarts \/ LoopGoesOn \/ LoopEnds
  \/ PollEnds \/ SeatEnabled \/ SeatDisabled
  \/ AppReplied \/ AppSlow \/ DisableSeat
  \/ Pick \/ SwitchSession \/ SwitchSessionFails \/ Complete

Next ==
  \/ \E v \in Vts : Relay(v)
  \/ RelayEnds
  \/ RefuseNoInit \/ WakeFails \/ Submit \/ SubmitDone \/ SubmitTimesOut
  \/ AppKnown
  \/ SeatStep
  \/ SigTerm \/ OthersTakeConsole \/ ConsoleComesBack
  \/ AppStarts \/ AppHandles

Spec == Init /\ [][Next]_vars

(* The threads run; a readable descriptor ends poll() at once, so that no  *)
(* callback waits for ever; a signalled condition is noticed.  No fairness *)
(* for the requests, the console, SIGTERM and the ends of the waits.       *)
FairSpec ==
  /\ Spec
  /\ WF_vars(SeatStep)
  /\ SF_vars(SeatEnabled) /\ SF_vars(SeatDisabled)
  /\ WF_vars(SubmitDone)
  /\ WF_vars(AppHandles)

-----------------------------------------------------------------------------
(* A request is answered with success only after libseat was asked for its *)
(* terminal.  Two exceptions are the code's own: the completion of a       *)
(* request that was given up releases the next one (process_seat_request() *)
(* does not look whose request it completes), and at SIGTERM the waiter is *)
(* released with the last result.                                          *)
OkMeansSwitched ==
  [][\A v \in Vts : answer[v] # "ok" /\ answer'[v] = "ok"
                      => v \in performed \/ mixed \/ ~running]_vars

(* While another session has the console, app_server has let go of the     *)
(* display: its flips could reach a foreign terminal.  Except after the    *)
(* seat thread had to give up the seat without app_server's reply, or the  *)
(* session started without the console (app_server draws at once, and      *)
(* nobody tells it to stop), until app_server has read a disable signal.   *)
NoDrawingOnForeignVt == console = "away" => ~app.active \/ untold

(* Every wait in submit_switch_vt() ends, by its own deadline or not.      *)
SubmitEnds == \A v \in Vts : (launch = v) ~> (launch # v)

(* logind gets the seat back when it asks for it: the thread is not held   *)
(* up by a request or by an app_server that is not there.                  *)
SeatIsGivenUp == (console = "leaving") ~> (console # "leaving" \/ ~running)

(* app_server draws again after the console came back. *)
DisplayComesBack ==
  (console = "ours" /\ app.known)
    ~> (app.active \/ console # "ours" \/ ~running)
=============================================================================
