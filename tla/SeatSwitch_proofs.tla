------------------------- MODULE SeatSwitch_proofs -------------------------
(***************************************************************************)
(* What janus_session.cpp promises about the seat, for any number of       *)
(* terminals and waiting requests: no drawing on a foreign terminal, and   *)
(* no success without a switch.                                            *)
(***************************************************************************)
EXTENDS SeatSwitch, SequenceTheorems, TLAPS

SlotTypes == [vt : Vts \cup {NoVt}, pending : BOOLEAN, done : BOOLEAN,
              result : Results]
Places == {"init", "loop", "poll", "disable", "told", "serve", "switch",
           "complete", "ended"}
ThreadTypes == [pc : Places, vt : Vts \cup {NoVt}, result : Results]
AppTypes == [known : BOOLEAN, up : BOOLEAN, active : BOOLEAN, port : Seq(Signals)]

(* The seat thread is in seat_disable_cb(). *)
LettingGo == seatThread.pc \in {"told", "disable"}

(* A loss of the seat is under way exactly while logind waits for it: in   *)
(* libseat's descriptor, or in the callback.                               *)
ConsoleInv ==
  /\ console \in {"none", "away"} => events = <<>> /\ ~LettingGo
  /\ console = "ours" => events \in {<<>>, <<"enable">>} /\ ~LettingGo
  /\ console = "leaving" =>
       IF LettingGo THEN events = <<>>
       ELSE events \in {<<"disable">>, <<"enable", "disable">>}

(* app_server has let go, or will when it has read what it was sent. *)
LetGo == app.up /\ app.port = <<>> /\ ~app.active
WillLetGo == app.port # <<>> /\ app.port[Len(app.port)] = "disable"

AppInv ==
  /\ app.known => app.up
  /\ ~app.up => ~app.active /\ app.port = <<>>
  /\ seatThread.pc = "told" => app.up /\ (LetGo \/ WillLetGo)
  /\ seatThread.pc = "disable" \/ console = "away" => untold \/ LetGo

(* Who holds a result holds the result of a switch that was made. *)
SlotInv ==
  /\ slot.pending => slot.vt \in Vts
  /\ launch # NoVt => slot.pending
  /\ seatThread.pc \in {"switch", "complete"} => seatThread.vt \in Vts
  /\ seatThread.pc = "complete" /\ seatThread.result = "ok" =>
       seatThread.vt \in performed
  /\ launch # NoVt /\ slot.done /\ slot.result = "ok" =>
       launch \in performed \/ mixed \/ ~running

SeatInv == TypeOK /\ ConsoleInv /\ AppInv /\ SlotInv

-----------------------------------------------------------------------------
LEMMA TypeInit == Init => TypeOK
<1> SUFFICES ASSUME Init PROVE TypeOK
  OBVIOUS
<1>1. /\ port \in Seq(Vts) /\ Len(port) <= PortSize
      /\ events \in Seq(Signals) /\ app.port \in Seq(Signals)
  BY SeatConstants DEF Init
<1>2. slot \in SlotTypes /\ seatThread \in ThreadTypes /\ app \in AppTypes
  BY <1>1 DEF Init, EmptySlot, SlotTypes, ThreadTypes, AppTypes, Places, Results
<1>3. answer \in [Vts -> Results \cup {"none", "timeout"}]
  BY DEF Init
<1>4. console \in {"none", "ours", "leaving", "away"}
  BY DEF Init
<1>5. active \in BOOLEAN /\ running \in BOOLEAN /\ mixed \in BOOLEAN /\ untold \in BOOLEAN
  BY DEF Init
<1> QED
  BY <1>1, <1>2, <1>3, <1>4, <1>5
     DEF Init, TypeOK, SlotTypes, ThreadTypes, AppTypes, Places

LEMMA InvInit == Init => SeatInv
<1> SUFFICES ASSUME Init PROVE SeatInv
  OBVIOUS
<1>1. TypeOK
  BY TypeInit
<1>2. ConsoleInv
  BY DEF Init, ConsoleInv, LettingGo
<1>3. AppInv
  BY DEF Init, AppInv
<1>4. SlotInv
  BY DEF Init, SlotInv, EmptySlot
<1> QED BY <1>1, <1>2, <1>3, <1>4 DEF SeatInv
-----------------------------------------------------------------------------
(* Types. *)
LEMMA TypeLaunch ==
  ASSUME TypeOK,
         \/ \E v \in Vts : Relay(v)
         \/ RelayEnds \/ RefuseNoInit \/ WakeFails \/ Submit \/ SubmitDone
         \/ SubmitTimesOut
  PROVE  TypeOK'
<1>0. NoVt \notin Vts /\ PortSize \in Nat
  BY SeatConstants
<1>1. ASSUME NEW v \in Vts, Relay(v) PROVE TypeOK'
  <2>1. port' \in Seq(Vts) /\ Len(port') <= PortSize
    BY <1>0, <1>1 DEF Relay, TypeOK
  <2>2. answer' \in [Vts -> Results \cup {"none", "timeout"}]
    BY <1>1 DEF Relay, TypeOK
  <2> QED
    BY <1>1, <2>1, <2>2 DEF Relay, TypeOK, slotVars, seatVars
<1>2. CASE RelayEnds
  BY <1>2 DEF RelayEnds, TypeOK, slotVars, seatVars, histVars
<1>3. ASSUME Receive
      PROVE  Head(port) \in Vts /\ port' \in Seq(Vts) /\ Len(port') <= PortSize
  BY <1>0, <1>3 DEF Receive, TypeOK
<1>4. CASE RefuseNoInit
  <2>1. answer' \in [Vts -> Results \cup {"none", "timeout"}]
    BY <1>3, <1>4 DEF RefuseNoInit, Reply, TypeOK, Results
  <2> QED
    BY <1>3, <1>4, <2>1 DEF RefuseNoInit, TypeOK, slotVars, seatVars, histVars
<1>5. CASE WakeFails
  <2>1. answer' \in [Vts -> Results \cup {"none", "timeout"}]
    BY <1>3, <1>5 DEF WakeFails, Reply, TypeOK, Results
  <2>2. slot' \in SlotTypes
    BY <1>3, <1>5 DEF WakeFails, TypeOK, SlotTypes
  <2> QED
    BY <1>3, <1>5, <2>1, <2>2 DEF WakeFails, TypeOK, SlotTypes, seatVars, histVars
<1>6. CASE Submit
  <2>1. slot' \in SlotTypes
    BY <1>3, <1>6 DEF Submit, TypeOK, SlotTypes
  <2> QED
    BY <1>3, <1>6, <2>1 DEF Submit, TypeOK, SlotTypes, seatVars, histVars
<1>7. CASE SubmitDone
  <2>1. answer' \in [Vts -> Results \cup {"none", "timeout"}]
    BY <1>7 DEF SubmitDone, Reply, TypeOK
  <2>2. slot' \in SlotTypes
    BY <1>7 DEF SubmitDone, TypeOK, SlotTypes
  <2>3. mixed' \in BOOLEAN
    BY <1>7 DEF SubmitDone
  <2> QED
    BY <1>7, <2>1, <2>2, <2>3 DEF SubmitDone, TypeOK, SlotTypes, seatVars
<1>8. CASE SubmitTimesOut
  <2>1. answer' \in [Vts -> Results \cup {"none", "timeout"}]
    BY <1>8 DEF SubmitTimesOut, Reply, TypeOK
  <2>2. slot' \in SlotTypes
    BY <1>8 DEF SubmitTimesOut, TypeOK, SlotTypes
  <2> QED
    BY <1>8, <2>1, <2>2 DEF SubmitTimesOut, TypeOK, SlotTypes, seatVars, histVars
<1> QED BY <1>1, <1>2, <1>4, <1>5, <1>6, <1>7, <1>8

LEMMA TypeSeat == ASSUME TypeOK, SlotInv, SeatStep PROVE TypeOK'
<1>1. ASSUME NEW from, NEW to \in Places, Goes(from, to)
      PROVE  seatThread' \in ThreadTypes
  BY <1>1 DEF Goes, TypeOK, ThreadTypes, Places
<1>2. ASSUME NEW signal \in Signals, Tell(signal)
      PROVE  events' \in Seq(Signals) /\ app' \in AppTypes
  <2>1. events' \in Seq(Signals)
    BY <1>2 DEF Tell, TypeOK
  <2>2. CASE app.known
    <3>1. Append(app.port, signal) \in Seq(Signals)
      BY DEF TypeOK
    <3> QED BY <1>2, <2>1, <2>2, <3>1 DEF Tell, TypeOK, AppTypes
  <2>3. CASE ~app.known
    BY <1>2, <2>1, <2>3 DEF Tell, TypeOK, AppTypes
  <2> QED BY <2>2, <2>3
<1>3. CASE LoopStarts \/ LoopGoesOn \/ PollEnds \/ AppReplied
  <2>1. seatThread' \in ThreadTypes
    <3>1. \/ Goes("init", "loop") \/ Goes("loop", "poll")
          \/ Goes("poll", "serve") \/ Goes("told", "disable")
      BY <1>3 DEF LoopStarts, LoopGoesOn, PollEnds, AppReplied
    <3> QED BY <1>1, <3>1 DEF Places
  <2>2. /\ UNCHANGED <<janus, port, launch, answer, slot, running, console, events, app>>
        /\ UNCHANGED <<performed, mixed, untold>>
        /\ active' \in BOOLEAN
    BY <1>3 DEF LoopStarts, LoopGoesOn, PollEnds, AppReplied, TypeOK, launchVars,
                slotVars, seatVars, histVars
  <2>3. seatThread' \in [pc : {"init", "loop", "poll", "disable", "told", "serve",
                               "switch", "complete", "ended"},
                         vt : Vts \cup {NoVt}, result : Results]
    BY <2>1 DEF ThreadTypes, Places
  <2> QED BY <2>2, <2>3 DEF TypeOK
<1>4. CASE LoopEnds
  <2>1. seatThread' \in ThreadTypes
    BY <1>1, <1>4 DEF LoopEnds, Places
  <2>2. slot' \in SlotTypes
    BY <1>4 DEF LoopEnds, TypeOK, SlotTypes
  <2> QED
    BY <1>4, <2>1, <2>2
       DEF LoopEnds, TypeOK, ThreadTypes, Places, SlotTypes, launchVars, seatVars,
           histVars
<1>5. CASE SeatEnabled
  <2>1. seatThread' \in ThreadTypes /\ events' \in Seq(Signals) /\ app' \in AppTypes
    BY <1>1, <1>2, <1>5 DEF SeatEnabled, Places, Signals
  <2> QED
    BY <1>5, <2>1
       DEF SeatEnabled, TypeOK, ThreadTypes, Places, AppTypes, launchVars, slotVars,
           histVars
<1>6. CASE SeatDisabled
  <2>1. seatThread' \in ThreadTypes /\ events' \in Seq(Signals) /\ app' \in AppTypes
    BY <1>1, <1>2, <1>6 DEF SeatDisabled, Places, Signals
  <2>2. untold' \in BOOLEAN
    BY <1>6 DEF SeatDisabled, TypeOK
  <2> QED
    BY <1>6, <2>1, <2>2
       DEF SeatDisabled, TypeOK, ThreadTypes, Places, AppTypes, launchVars, slotVars
<1>7. CASE AppSlow \/ DisableSeat
  <2>1. seatThread' \in ThreadTypes
    BY <1>1, <1>7 DEF AppSlow, DisableSeat, Places
  <2> QED
    BY <1>7, <2>1
       DEF AppSlow, DisableSeat, TypeOK, ThreadTypes, Places, launchVars, slotVars,
           seatVars, histVars
<1>8. CASE Pick
  <2>1. seatThread' \in ThreadTypes
    BY <1>8 DEF Pick, TypeOK, ThreadTypes, Places
  <2> QED
    BY <1>8, <2>1
       DEF Pick, TypeOK, ThreadTypes, Places, launchVars, slotVars, seatVars, histVars
<1>9. CASE SwitchSession
  <2>1. seatThread' \in ThreadTypes
    BY <1>9 DEF SwitchSession, TypeOK, ThreadTypes, Places, Results
  <2>2. /\ events' \in Seq(Signals)
        /\ console' \in {"none", "ours", "leaving", "away"}
    BY <1>9 DEF SwitchSession, Leave, TypeOK, Signals
  <2>3. performed' \subseteq Vts
    BY <1>9 DEF SwitchSession, TypeOK, SlotInv
  <2> QED
    BY <1>9, <2>1, <2>2, <2>3
       DEF SwitchSession, TypeOK, ThreadTypes, Places, launchVars, slotVars
<1>10. CASE SwitchSessionFails
  <2>1. seatThread' \in ThreadTypes
    BY <1>10 DEF SwitchSessionFails, TypeOK, ThreadTypes, Places, Results
  <2> QED
    BY <1>10, <2>1
       DEF SwitchSessionFails, TypeOK, ThreadTypes, Places, launchVars, slotVars,
           seatVars, histVars
<1>11. CASE Complete
  <2>1. seatThread' \in ThreadTypes /\ slot' \in SlotTypes
    BY <1>11 DEF Complete, TypeOK, ThreadTypes, Places, SlotTypes
  <2>2. mixed' \in BOOLEAN
    BY <1>11 DEF Complete
  <2> QED
    BY <1>11, <2>1, <2>2
       DEF Complete, TypeOK, ThreadTypes, Places, SlotTypes, launchVars, seatVars
<1> QED
  BY <1>3, <1>4, <1>5, <1>6, <1>7, <1>8, <1>9, <1>10, <1>11 DEF SeatStep

LEMMA TypeWorld ==
  ASSUME TypeOK,
         \/ AppKnown \/ SigTerm \/ OthersTakeConsole \/ ConsoleComesBack
         \/ AppStarts \/ AppHandles
  PROVE  TypeOK'
<1>1. CASE AppKnown \/ AppStarts
  <2>1. app' \in AppTypes
    BY <1>1 DEF AppKnown, AppStarts, TypeOK, AppTypes
  <2> QED
    BY <1>1, <2>1
       DEF AppKnown, AppStarts, TypeOK, AppTypes, launchVars, slotVars, histVars
<1>2. CASE SigTerm
  <2>1. running' \in BOOLEAN
    BY <1>2 DEF SigTerm
  <2> QED
    BY <1>2, <2>1 DEF SigTerm, TypeOK, launchVars, seatVars, histVars
<1>3. CASE OthersTakeConsole \/ ConsoleComesBack
  <2>1. /\ events' \in Seq(Signals)
        /\ console' \in {"none", "ours", "leaving", "away"}
    BY <1>3 DEF OthersTakeConsole, ConsoleComesBack, Leave, TypeOK, Signals
  <2> QED
    BY <1>3, <2>1
       DEF OthersTakeConsole, ConsoleComesBack, TypeOK, launchVars, slotVars, histVars
<1>4. CASE AppHandles
  <2>1. app' \in AppTypes
    <3>1. Tail(app.port) \in Seq(Signals) /\ (Head(app.port) = "enable") \in BOOLEAN
      BY <1>4 DEF AppHandles, TypeOK
    <3>2. /\ app \in AppTypes
          /\ app' = [app EXCEPT !.active = (Head(app.port) = "enable"),
                                !.port = Tail(app.port)]
      BY <1>4 DEF AppHandles, TypeOK, AppTypes
    <3> HIDE DEF AppTypes
    <3>3. DEFINE a == (Head(app.port) = "enable")
                 p == Tail(app.port)
    <3>4. a \in BOOLEAN /\ p \in Seq(Signals)
      BY <3>1
    <3>5. app' = [app EXCEPT !.active = a, !.port = p]
      BY <3>2
    <3> HIDE DEF a, p
    <3> QED BY <3>2, <3>4, <3>5 DEF AppTypes
  <2>2. untold' \in BOOLEAN
    BY <1>4 DEF AppHandles
  <2> QED
    BY <1>4, <2>1, <2>2 DEF AppHandles, TypeOK, AppTypes, launchVars, slotVars
<1> QED BY <1>1, <1>2, <1>3, <1>4

LEMMA TypeNext == ASSUME SeatInv, Next PROVE TypeOK'
<1>1. TypeOK /\ SlotInv
  BY DEF SeatInv
<1> QED
  BY <1>1, TypeLaunch, TypeSeat, TypeWorld DEF Next
-----------------------------------------------------------------------------
(* The console and the callbacks. *)
LEMMA Callbacks ==
  /\ Head(<<"enable">>) = "enable" /\ Tail(<<"enable">>) = <<>>
  /\ Head(<<"disable">>) = "disable" /\ Tail(<<"disable">>) = <<>>
  /\ Head(<<"enable", "disable">>) = "enable"
  /\ Tail(<<"enable", "disable">>) = <<"disable">>
  /\ Append(<<>>, "enable") = <<"enable">>
  /\ Append(<<>>, "disable") = <<"disable">>
  /\ Append(<<"enable">>, "disable") = <<"enable", "disable">>
  /\ <<"enable">> # <<>> /\ <<"disable">> # <<>> /\ <<"enable", "disable">> # <<>>
<1>1. Head(<<"enable">>) = "enable" /\ Tail(<<"enable">>) = <<>>
  OBVIOUS
<1>2. Head(<<"disable">>) = "disable" /\ Tail(<<"disable">>) = <<>>
  OBVIOUS
<1>3. Head(<<"enable", "disable">>) = "enable"
  OBVIOUS
<1>4. Tail(<<"enable", "disable">>) = <<"disable">>
  <2>1. Append(<<>>, "disable") = <<"disable">>
    OBVIOUS
  <2>2. <<"enable", "disable">> \in Seq(Signals) /\ <<"disable">> \in Seq(Signals)
    BY DEF Signals
  <2>3. /\ Tail(<<"enable", "disable">>) \in Seq(Signals)
        /\ Len(Tail(<<"enable", "disable">>)) = 1
        /\ Tail(<<"enable", "disable">>)[1] = "disable"
    BY <2>2, HeadTailProperties
  <2> QED BY <2>2, <2>3, SeqEqual
<1>5. Append(<<>>, "enable") = <<"enable">> /\ Append(<<>>, "disable") = <<"disable">>
  OBVIOUS
<1>6. Append(<<"enable">>, "disable") = <<"enable", "disable">>
  <2>1. /\ Append(<<"enable">>, "disable") \in Seq(Signals)
        /\ <<"enable", "disable">> \in Seq(Signals)
    BY DEF Signals
  <2>2. /\ Len(Append(<<"enable">>, "disable")) = 2
        /\ Append(<<"enable">>, "disable")[1] = "enable"
        /\ Append(<<"enable">>, "disable")[2] = "disable"
    BY DEF Signals
  <2> DEFINE s == Append(<<"enable">>, "disable")
             t == <<"enable", "disable">>
  <2>3. Len(t) = 2 /\ t[1] = "enable" /\ t[2] = "disable"
    OBVIOUS
  <2>4. s \in Seq(Signals) /\ t \in Seq(Signals)
    BY <2>1
  <2>5. Len(s) = 2 /\ s[1] = "enable" /\ s[2] = "disable"
    BY <2>2
  <2> HIDE DEF s, t
  <2>6. \A i \in 1 .. Len(s) : s[i] = t[i]
    BY <2>3, <2>5
  <2>7. s = t
    BY <2>3, <2>4, <2>5, <2>6, SeqEqual
  <2> QED BY <2>7 DEF s, t
<1>7. <<"enable">> # <<>> /\ <<"disable">> # <<>> /\ <<"enable", "disable">> # <<>>
  OBVIOUS
<1> QED BY <1>1, <1>2, <1>3, <1>4, <1>5, <1>6, <1>7

LEMMA ConsoleNext == ASSUME SeatInv, Next PROVE ConsoleInv'
<1> USE DEF ConsoleInv, LettingGo
<1>0. TypeOK /\ ConsoleInv
  BY DEF SeatInv
<1>1. ASSUME UNCHANGED <<console, events>>, LettingGo' <=> LettingGo PROVE ConsoleInv'
  BY <1>0, <1>1
<1>2. CASE \/ \E v \in Vts : Relay(v)
           \/ RelayEnds \/ RefuseNoInit \/ WakeFails \/ Submit \/ SubmitDone
           \/ SubmitTimesOut \/ AppKnown \/ SigTerm \/ AppStarts \/ AppHandles
  <2>1. UNCHANGED <<console, events, seatThread>>
    BY <1>2 DEF Relay, RelayEnds, RefuseNoInit, WakeFails, Submit, SubmitDone,
                SubmitTimesOut, AppKnown, SigTerm, AppStarts, AppHandles, seatVars
  <2> QED BY <1>1, <2>1
<1>3. CASE \/ LoopStarts \/ LoopGoesOn \/ LoopEnds \/ PollEnds \/ AppReplied
           \/ AppSlow \/ Pick \/ SwitchSessionFails \/ Complete
  <2>1. UNCHANGED <<console, events>>
    BY <1>3 DEF LoopStarts, LoopGoesOn, LoopEnds, PollEnds, AppReplied, AppSlow, Pick,
                SwitchSessionFails, Complete, seatVars
  <2>2. ASSUME NEW from, NEW to, Goes(from, to),
               from \in {"told", "disable"} <=> to \in {"told", "disable"}
        PROVE  LettingGo' <=> LettingGo
    BY <1>0, <2>2 DEF Goes, TypeOK
  <2>3. CASE LoopStarts
    <3>1. Goes("init", "loop")
      BY <2>3 DEF LoopStarts
    <3> QED BY <1>1, <2>1, <2>2, <3>1
  <2>4. CASE LoopGoesOn
    <3>1. Goes("loop", "poll")
      BY <2>4 DEF LoopGoesOn
    <3> QED BY <1>1, <2>1, <2>2, <3>1
  <2>5. CASE LoopEnds
    <3>1. Goes("loop", "ended")
      BY <2>5 DEF LoopEnds
    <3> QED BY <1>1, <2>1, <2>2, <3>1
  <2>6. CASE PollEnds
    <3>1. Goes("poll", "serve")
      BY <2>6 DEF PollEnds
    <3> QED BY <1>1, <2>1, <2>2, <3>1
  <2>7. CASE AppReplied \/ AppSlow
    <3>1. Goes("told", "disable")
      BY <2>7 DEF AppReplied, AppSlow
    <3> QED BY <1>1, <2>1, <2>2, <3>1
  <2>8. CASE Pick
    <3>1. /\ seatThread.pc = "serve"
          /\ seatThread'.pc \in {"switch", "loop"}
      BY <1>0, <2>8 DEF Pick, TypeOK
    <3> QED BY <1>1, <2>1, <3>1
  <2>9. CASE SwitchSessionFails
    <3>1. seatThread.pc = "switch" /\ seatThread'.pc = "complete"
      BY <1>0, <2>9 DEF SwitchSessionFails, TypeOK
    <3> QED BY <1>1, <2>1, <3>1
  <2>10. CASE Complete
    <3>1. seatThread.pc = "complete" /\ seatThread'.pc = "loop"
      BY <1>0, <2>10 DEF Complete, TypeOK
    <3> QED BY <1>1, <2>1, <3>1
  <2> QED BY <1>3, <2>3, <2>4, <2>5, <2>6, <2>7, <2>8, <2>9, <2>10
<1>4. CASE SeatEnabled
  <2>1. ~LettingGo /\ ~LettingGo' /\ UNCHANGED console
    BY <1>0, <1>4 DEF SeatEnabled, Goes, TypeOK
  <2>2. events # <<>> /\ Head(events) = "enable" /\ events' = Tail(events)
    BY <1>4 DEF SeatEnabled, Tell
  <2> HIDE DEF LettingGo
  <2> QED BY <1>0, <2>1, <2>2, Callbacks
<1>5. CASE SeatDisabled
  <2>1. ~LettingGo /\ LettingGo' /\ UNCHANGED console
    BY <1>0, <1>5 DEF SeatDisabled, Goes, TypeOK
  <2>2. events # <<>> /\ Head(events) = "disable" /\ events' = Tail(events)
    BY <1>5 DEF SeatDisabled, Tell
  <2> HIDE DEF LettingGo
  <2> QED BY <1>0, <2>1, <2>2, Callbacks
<1>6. CASE DisableSeat
  BY <1>0, <1>6 DEF DisableSeat, Goes, TypeOK
<1>7. CASE SwitchSession
  <2>1. ~LettingGo /\ ~LettingGo' /\ Leave
    BY <1>0, <1>7 DEF SwitchSession, TypeOK
  <2> HIDE DEF LettingGo
  <2> QED BY <1>0, <2>1, Callbacks DEF Leave
<1>8. CASE OthersTakeConsole \/ ConsoleComesBack
  <2>1. LettingGo' <=> LettingGo
    BY <1>8 DEF OthersTakeConsole, ConsoleComesBack
  <2>2. \/ console = "ours" /\ events = <<>> /\ Leave
        \/ console = "away" /\ events = <<>> /\ console' = "ours"
             /\ events' = Append(events, "enable")
    BY <1>8 DEF OthersTakeConsole, ConsoleComesBack
  <2> HIDE DEF LettingGo
  <2> QED BY <1>0, <2>1, <2>2, Callbacks DEF Leave
<1> QED
  BY <1>2, <1>3, <1>4, <1>5, <1>6, <1>7, <1>8 DEF Next, SeatStep
-----------------------------------------------------------------------------
(* The slot and the results. *)
LEMMA SlotNext == ASSUME SeatInv, Next PROVE SlotInv'
<1> USE SeatConstants DEF SlotInv
<1>0. TypeOK /\ SlotInv
  BY DEF SeatInv
<1>1. ASSUME NEW v \in Vts, Relay(v) PROVE SlotInv'
  BY <1>0, <1>1 DEF Relay, OnItsWay, TypeOK, slotVars
<1>2. CASE RelayEnds \/ RefuseNoInit \/ AppKnown \/ OthersTakeConsole
           \/ ConsoleComesBack \/ AppStarts \/ AppHandles
  <2>1. UNCHANGED <<slot, launch, seatThread, performed, mixed, running>>
    BY <1>2 DEF RelayEnds, RefuseNoInit, AppKnown, OthersTakeConsole,
                ConsoleComesBack, AppStarts, AppHandles, launchVars, slotVars, histVars
  <2> QED BY <1>0, <2>1
<1>3. CASE SigTerm
  BY <1>0, <1>3 DEF SigTerm, launchVars, histVars
<1>4. CASE WakeFails
  BY <1>0, <1>4 DEF WakeFails, Receive, TypeOK, seatVars, histVars
<1>5. CASE Submit
  <2>1. Head(port) \in Vts
    BY <1>0, <1>5 DEF Submit, Receive, TypeOK
  <2> QED
    BY <1>0, <1>5, <2>1 DEF Submit, Receive, TypeOK, seatVars, histVars
<1>6. CASE SubmitDone \/ SubmitTimesOut
  BY <1>0, <1>6 DEF SubmitDone, SubmitTimesOut, TypeOK, seatVars, histVars
<1>7. CASE LoopStarts \/ LoopGoesOn \/ PollEnds \/ SeatEnabled \/ SeatDisabled
           \/ AppReplied \/ AppSlow \/ DisableSeat
  <2>1. /\ UNCHANGED <<slot, launch, performed, mixed, running>>
        /\ seatThread'.pc \notin {"switch", "complete"}
    BY <1>0, <1>7 DEF LoopStarts, LoopGoesOn, PollEnds, SeatEnabled, SeatDisabled,
         AppReplied, AppSlow, DisableSeat, Goes, TypeOK, launchVars, slotVars, histVars
  <2> QED BY <1>0, <2>1
<1>8. CASE LoopEnds
  BY <1>0, <1>8 DEF LoopEnds, Goes, TypeOK, launchVars, histVars
<1>9. CASE Pick
  BY <1>0, <1>9 DEF Pick, TypeOK, launchVars, slotVars, histVars
<1>10. CASE SwitchSession
  BY <1>0, <1>10 DEF SwitchSession, TypeOK, launchVars, slotVars
<1>11. CASE SwitchSessionFails
  BY <1>0, <1>11 DEF SwitchSessionFails, TypeOK, launchVars, slotVars, histVars
<1>12. CASE Complete
  BY <1>0, <1>12 DEF Complete, TypeOK, launchVars
<1> QED
  BY <1>1, <1>2, <1>3, <1>4, <1>5, <1>6, <1>7, <1>8, <1>9, <1>10, <1>11, <1>12
     DEF Next, SeatStep
-----------------------------------------------------------------------------
(* app_server. *)
LEMMA LastRead ==
  ASSUME NEW s \in Seq(Signals), s # <<>>
  PROVE  \/ Len(s) = 1 /\ Tail(s) = <<>> /\ s[Len(s)] = Head(s)
         \/ Len(s) > 1 /\ Tail(s) # <<>> /\ Tail(s)[Len(Tail(s))] = s[Len(s)]
<1>0. Len(<<>>) = 0
  BY EmptySeq
<1>1. Len(s) \in Nat /\ Len(s) # 0
  BY EmptySeq
<1>2. CASE Len(s) = 1
  <2>1. Tail(s) \in Seq(Signals) /\ Len(Tail(s)) = 0
    BY <1>2, HeadTailProperties
  <2>2. Tail(s) = <<>>
    BY <2>1, EmptySeq
  <2> QED BY <1>2, <2>2, HeadTailProperties
<1>3. CASE Len(s) > 1
  <2>1. /\ Tail(s) \in Seq(Signals) /\ Len(Tail(s)) = Len(s) - 1
        /\ \A i \in 1 .. Len(s) - 1 : Tail(s)[i] = s[i + 1]
    BY <1>1, HeadTailProperties
  <2>2. Len(Tail(s)) # 0
    BY <1>1, <1>3, <2>1
  <2>3. Tail(s) # <<>>
    BY <1>0, <2>2, Zenon
  <2> QED BY <1>1, <1>3, <2>1, <2>3
<1>4. Len(s) = 1 \/ Len(s) > 1
  <2>1. \A n \in Nat : n # 0 => n = 1 \/ n > 1
    OBVIOUS
  <2> QED BY <1>1, <2>1, Zenon
<1> QED BY <1>2, <1>3, <1>4, Zenon

LEMMA AppNext == ASSUME SeatInv, Next PROVE AppInv'
<1> USE DEF AppInv, LetGo, WillLetGo
<1>0. TypeOK /\ ConsoleInv /\ AppInv
  BY DEF SeatInv
<1>1. CASE \/ \E v \in Vts : Relay(v)
           \/ RelayEnds \/ RefuseNoInit \/ WakeFails \/ Submit \/ SubmitDone
           \/ SubmitTimesOut \/ SigTerm
  <2>1. UNCHANGED <<app, seatThread, console, untold>>
    BY <1>1 DEF Relay, RelayEnds, RefuseNoInit, WakeFails, Submit, SubmitDone,
                SubmitTimesOut, SigTerm, seatVars, histVars
  <2> QED BY <1>0, <2>1
<1>2. CASE \/ LoopStarts \/ LoopGoesOn \/ LoopEnds \/ PollEnds \/ Pick
           \/ SwitchSession \/ SwitchSessionFails \/ Complete
  <2>1. /\ UNCHANGED <<app, untold>>
        /\ seatThread'.pc \notin {"told", "disable"}
        /\ console' = "away" => console = "away"
    BY <1>0, <1>2 DEF LoopStarts, LoopGoesOn, LoopEnds, PollEnds, Pick, SwitchSession,
         SwitchSessionFails, Complete, Leave, Goes, TypeOK, seatVars, histVars
  <2> QED BY <1>0, <2>1
<1>3. CASE AppKnown
  BY <1>0, <1>3 DEF AppKnown, TypeOK, histVars
<1>4. CASE OthersTakeConsole \/ ConsoleComesBack
  BY <1>0, <1>4 DEF OthersTakeConsole, ConsoleComesBack, Leave, TypeOK, histVars
<1>5. CASE AppStarts
  BY <1>0, <1>5 DEF AppStarts, TypeOK, histVars
<1>6. CASE AppReplied \/ AppSlow
  BY <1>0, <1>6 DEF AppReplied, AppSlow, Goes, ConsoleInv, LettingGo, TypeOK, seatVars, histVars
<1>7. CASE DisableSeat
  BY <1>0, <1>7 DEF DisableSeat, Goes, TypeOK, histVars
<1>8. CASE SeatEnabled
  BY <1>0, <1>8 DEF SeatEnabled, Tell, Goes, ConsoleInv, LettingGo, TypeOK, histVars
<1>9. CASE SeatDisabled
  <2>0. ~LettingGo /\ console = "leaving"
    BY <1>0, <1>9, Callbacks DEF SeatDisabled, Tell, Goes, ConsoleInv, LettingGo, TypeOK
  <2>1. UNCHANGED console /\ untold' = ~app.known /\ app'.up = app.up
        /\ app'.known = app.known /\ app'.active = app.active
    BY <1>0, <1>9 DEF SeatDisabled, Tell, TypeOK
  <2>2. seatThread'.pc = IF app.known THEN "told" ELSE "disable"
    BY <1>0, <1>9 DEF SeatDisabled, Goes, TypeOK
  <2>3. CASE app.known
    <3>1. app'.port = Append(app.port, "disable")
      BY <1>0, <1>9, <2>3 DEF SeatDisabled, Tell, TypeOK
    <3>2. app'.port # <<>> /\ app'.port[Len(app'.port)] = "disable"
      BY <1>0, <3>1 DEF TypeOK, Signals
    <3> QED BY <1>0, <2>0, <2>1, <2>2, <2>3, <3>2
  <2>4. CASE ~app.known
    <3>1. UNCHANGED app
      BY <1>9, <2>4 DEF SeatDisabled, Tell
    <3> QED BY <1>0, <2>0, <2>1, <2>2, <2>4, <3>1
  <2> QED BY <2>3, <2>4
<1>10. CASE AppHandles
  <2>1. /\ UNCHANGED <<seatThread, console>>
        /\ app.port # <<>> /\ app.port \in Seq(Signals)
        /\ app'.up = app.up /\ app'.known = app.known
        /\ app'.port = Tail(app.port)
        /\ app'.active <=> Head(app.port) = "enable"
        /\ untold' <=> untold /\ (Head(app.port) = "enable" \/ Len(app.port) > 1)
    BY <1>0, <1>10 DEF AppHandles, TypeOK
  <2>2. CASE Len(app.port) = 1
    <3>1. Tail(app.port) = <<>> /\ app.port[Len(app.port)] = Head(app.port)
      BY <2>1, <2>2, LastRead
    <3>2. Head(app.port) \in {"enable", "disable"}
      BY <2>1 DEF Signals
    <3> QED BY <1>0, <2>1, <2>2, <3>1, <3>2
  <2>3. CASE Len(app.port) > 1
    <3>1. /\ Tail(app.port) # <<>>
          /\ Tail(app.port)[Len(Tail(app.port))] = app.port[Len(app.port)]
      BY <2>1, <2>3
    <3> QED BY <1>0, <2>1, <2>3, <3>1
  <2>4. Len(app.port) = 1 \/ Len(app.port) > 1
    BY <2>1, LastRead
  <2> QED BY <2>2, <2>3, <2>4
<1> QED
  BY <1>1, <1>2, <1>3, <1>4, <1>5, <1>6, <1>7, <1>8, <1>9, <1>10 DEF Next, SeatStep
-----------------------------------------------------------------------------
LEMMA InvStep == SeatInv /\ [Next]_vars => SeatInv'
<1> SUFFICES ASSUME SeatInv, [Next]_vars PROVE SeatInv'
  OBVIOUS
<1>1. CASE Next
  BY <1>1, TypeNext, ConsoleNext, AppNext, SlotNext DEF SeatInv
<1>2. CASE UNCHANGED vars
  BY <1>2 DEF SeatInv, TypeOK, ConsoleInv, AppInv, SlotInv, LettingGo, LetGo,
       WillLetGo, vars, launchVars, slotVars, seatVars, histVars
<1> QED BY <1>1, <1>2

(* The inductive invariant holds in every state. *)
THEOREM SeatInvariant == Spec => []SeatInv
BY InvInit, InvStep, PTL DEF Spec

(* Every variable keeps its type, and performed and slot.vt name real      *)
(* terminals. *)
THEOREM TypeCorrect == Spec => []TypeOK
<1>1. SeatInv => TypeOK
  BY DEF SeatInv
<1> QED BY <1>1, SeatInvariant, PTL

(* While another session has the console app_server does not draw, unless  *)
(* seat_disable_cb() had to give up the seat without its reply.            *)
THEOREM NoDrawing == Spec => []NoDrawingOnForeignVt
<1>1. SeatInv => NoDrawingOnForeignVt
  BY DEF SeatInv, AppInv, LetGo, NoDrawingOnForeignVt
<1> QED BY <1>1, SeatInvariant, PTL

(* The step that answers a request with success finds its switch made. *)
LEMMA OkStep ==
  ASSUME SeatInv, [Next]_vars, NEW v \in Vts, answer[v] # "ok", answer'[v] = "ok"
  PROVE  v \in performed \/ mixed \/ ~running
<1> USE SeatConstants
<1>0. TypeOK /\ SlotInv
  BY DEF SeatInv
<1>1. ASSUME NEW w \in Vts, Relay(w) PROVE FALSE
  BY <1>0, <1>1 DEF Relay, TypeOK
<1>2. ASSUME RefuseNoInit PROVE FALSE
  BY <1>0, <1>2 DEF RefuseNoInit, Receive, Reply, TypeOK
<1>3. ASSUME WakeFails PROVE FALSE
  BY <1>0, <1>3 DEF WakeFails, Receive, Reply, TypeOK
<1>4. ASSUME SubmitTimesOut PROVE FALSE
  BY <1>0, <1>4 DEF SubmitTimesOut, Reply, TypeOK
<1>5. ASSUME UNCHANGED answer PROVE FALSE
  BY <1>5
<1>6. ASSUME ~SubmitDone PROVE FALSE
  <2>1. \/ UNCHANGED answer \/ (\E w \in Vts : Relay(w))
        \/ RefuseNoInit \/ WakeFails \/ SubmitTimesOut
    BY <1>6 DEF Next, SeatStep, RelayEnds, Submit, AppKnown, SigTerm,
         OthersTakeConsole, ConsoleComesBack, AppStarts, AppHandles, LoopStarts,
         LoopGoesOn, LoopEnds, PollEnds, SeatEnabled, SeatDisabled, AppReplied,
         AppSlow, DisableSeat, Pick, SwitchSession, SwitchSessionFails, Complete,
         launchVars, vars
  <2> QED BY <2>1, <1>1, <1>2, <1>3, <1>4, <1>5
<1>7. CASE SubmitDone
  BY <1>0, <1>7 DEF SubmitDone, Reply, SlotInv, TypeOK
<1> QED BY <1>6, <1>7

(* A request is answered with success only after libseat switched to its   *)
(* terminal, but for a stale completion and the release at SIGTERM.        *)
THEOREM OkIsSwitched == Spec => OkMeansSwitched
<1>1. ASSUME SeatInv, [Next]_vars
      PROVE  [\A v \in Vts : answer[v] # "ok" /\ answer'[v] = "ok"
                => v \in performed \/ mixed \/ ~running]_vars
  BY <1>1, OkStep
<1> QED BY <1>1, SeatInvariant, PTL DEF Spec, OkMeansSwitched

-----------------------------------------------------------------------------
(* Whoever waits in the slot has a seat thread that will look into it.     *)
ServedInv ==
  /\ active <=> seatThread.pc \notin {"init", "ended"}
  /\ launch # NoVt => slot.vt = launch /\ (slot.done \/ active)

LEMMA ServedNext == ASSUME SeatInv, ServedInv, [Next]_vars PROVE ServedInv'
<1> USE SeatConstants DEF ServedInv
<1>0. TypeOK /\ SlotInv /\ ServedInv
  BY DEF SeatInv
<1>1. CASE \/ \E v \in Vts : Relay(v)
           \/ RelayEnds \/ RefuseNoInit \/ AppKnown \/ SigTerm
           \/ OthersTakeConsole \/ ConsoleComesBack \/ AppStarts \/ AppHandles
           \/ UNCHANGED vars
  <2>1. UNCHANGED <<slot, launch, seatThread, active>>
    BY <1>1 DEF Relay, RelayEnds, RefuseNoInit, AppKnown, SigTerm,
         OthersTakeConsole, ConsoleComesBack, AppStarts, AppHandles, launchVars,
         slotVars, vars
  <2> QED BY <1>0, <2>1
<1>2. CASE WakeFails \/ Submit
  BY <1>0, <1>2 DEF WakeFails, Submit, Receive, TypeOK, seatVars, histVars
<1>3. CASE SubmitDone \/ SubmitTimesOut
  BY <1>0, <1>3 DEF SubmitDone, SubmitTimesOut, TypeOK, seatVars, histVars
<1>4. CASE LoopStarts \/ LoopEnds
  BY <1>0, <1>4 DEF LoopStarts, LoopEnds, Goes, TypeOK, launchVars
<1>5. CASE LoopGoesOn \/ PollEnds \/ SeatEnabled \/ SeatDisabled \/ AppReplied
           \/ AppSlow \/ DisableSeat
  <2>1. /\ UNCHANGED <<slot, launch, active>>
        /\ seatThread.pc \notin {"init", "ended"}
        /\ seatThread'.pc \notin {"init", "ended"}
    BY <1>0, <1>5 DEF LoopGoesOn, PollEnds, SeatEnabled, SeatDisabled, AppReplied,
         AppSlow, DisableSeat, Goes, TypeOK, launchVars, slotVars
  <2> QED BY <1>0, <2>1
<1>6. CASE Pick
  BY <1>0, <1>6 DEF Pick, TypeOK, launchVars, slotVars
<1>7. CASE SwitchSession \/ SwitchSessionFails
  <2>1. /\ UNCHANGED <<slot, launch, active>>
        /\ seatThread.pc = "switch" /\ seatThread'.pc = "complete"
    <3>1. CASE SwitchSession
      BY <1>0, <3>1 DEF SwitchSession, TypeOK, launchVars, slotVars
    <3>2. CASE SwitchSessionFails
      BY <1>0, <3>2 DEF SwitchSessionFails, TypeOK, launchVars, slotVars
    <3> QED BY <1>7, <3>1, <3>2
  <2> QED BY <1>0, <2>1
<1>8. CASE Complete
  BY <1>0, <1>8 DEF Complete, TypeOK, launchVars
<1> QED
  BY <1>1, <1>2, <1>3, <1>4, <1>5, <1>6, <1>7, <1>8 DEF Next, SeatStep

(* The launch thread of janus_session never waits in submit_switch_vt()    *)
(* for a completion that nobody will write: its request is still in the    *)
(* slot, and the seat thread has not left its loop.                        *)
WaitIsServed ==
  launch # NoVt /\ ~slot.done =>
    slot.pending /\ slot.vt = launch /\ seatThread.pc \notin {"init", "ended"}

(* What SubmitEnds rests on, with every mishap: the end of the loop, too,  *)
(* releases the waiter.                                                    *)
THEOREM SlotIsServed == Spec => []WaitIsServed
<1>1. Init => ServedInv
  BY DEF Init, ServedInv
<1>2. SeatInv /\ ServedInv => WaitIsServed
  BY DEF SeatInv, SlotInv, ServedInv, WaitIsServed
<1> QED BY <1>1, <1>2, ServedNext, SeatInvariant, PTL DEF Spec

-----------------------------------------------------------------------------
(* app_server draws, or will when it has read what it was sent.            *)
WillDraw ==
  IF app.port = <<>> THEN app.active ELSE app.port[Len(app.port)] = "enable"

DrawInv ==
  /\ ~app.known => app.port = <<>> /\ (app.up => app.active)
  /\ console = "ours" /\ app.up => WillDraw \/ events = <<"enable">>

LEMMA DrawNext == ASSUME SeatInv, DrawInv, [Next]_vars PROVE DrawInv'
<1> USE DEF DrawInv, WillDraw
<1>0. TypeOK /\ ConsoleInv /\ AppInv /\ DrawInv
  BY DEF SeatInv
<1>1. ASSUME UNCHANGED app, console' = "ours" => UNCHANGED <<console, events>>
      PROVE  DrawInv'
  BY <1>0, <1>1
<1>2. CASE \/ \E v \in Vts : Relay(v)
           \/ RelayEnds \/ RefuseNoInit \/ WakeFails \/ Submit \/ SubmitDone
           \/ SubmitTimesOut \/ SigTerm \/ UNCHANGED vars
  <2>1. UNCHANGED <<app, console, events>>
    BY <1>2 DEF Relay, RelayEnds, RefuseNoInit, WakeFails, Submit, SubmitDone,
                SubmitTimesOut, SigTerm, seatVars, vars
  <2> QED BY <1>1, <2>1
<1>3. CASE \/ LoopStarts \/ LoopGoesOn \/ LoopEnds \/ PollEnds \/ AppReplied
           \/ AppSlow \/ DisableSeat \/ Pick \/ SwitchSession
           \/ SwitchSessionFails \/ Complete \/ OthersTakeConsole
  <2>1. UNCHANGED app /\ (console' = "ours" => UNCHANGED <<console, events>>)
    BY <1>3 DEF LoopStarts, LoopGoesOn, LoopEnds, PollEnds, AppReplied, AppSlow,
         DisableSeat, Pick, SwitchSession, SwitchSessionFails, Complete,
         OthersTakeConsole, Leave, seatVars
  <2> QED BY <1>1, <2>1
<1>4. CASE ConsoleComesBack
  <2>1. UNCHANGED app /\ events' = <<"enable">>
    BY <1>4 DEF ConsoleComesBack
  <2> QED BY <1>0, <2>1
<1>5. CASE AppKnown
  BY <1>0, <1>5 DEF AppKnown, TypeOK
<1>6. CASE AppStarts
  BY <1>0, <1>6 DEF AppStarts, AppInv, TypeOK
<1>7. CASE SeatEnabled
  <2>1. CASE app.known
    <3>1. app'.port = Append(app.port, "enable") /\ app'.known
      BY <1>0, <1>7, <2>1 DEF SeatEnabled, Tell, TypeOK
    <3>2. app.port \in Seq(Signals) /\ "enable" \in Signals
      BY <1>0 DEF TypeOK, Signals
    <3>3. app'.port # <<>> /\ app'.port[Len(app'.port)] = "enable"
      BY <3>1, <3>2, AppendProperties
    <3> QED BY <3>1, <3>3
  <2>2. CASE ~app.known
    <3>1. UNCHANGED app
      BY <1>7, <2>2 DEF SeatEnabled, Tell
    <3> QED BY <1>0, <2>2, <3>1
  <2> QED BY <2>1, <2>2
<1>8. CASE SeatDisabled
  <2>1. console = "leaving" /\ UNCHANGED console
    BY <1>0, <1>8, Callbacks DEF SeatDisabled, Tell, Goes, ConsoleInv, LettingGo, TypeOK
  <2>2. app'.known = app.known /\ (~app.known => UNCHANGED app)
    BY <1>0, <1>8 DEF SeatDisabled, Tell, TypeOK
  <2> QED BY <1>0, <2>1, <2>2
<1>9. CASE AppHandles
  <2>1. /\ UNCHANGED <<console, events>>
        /\ app.port # <<>> /\ app.port \in Seq(Signals)
        /\ app'.up = app.up /\ app'.known = app.known
        /\ app'.port = Tail(app.port)
        /\ app'.active <=> Head(app.port) = "enable"
    BY <1>0, <1>9 DEF AppHandles, TypeOK
  <2>2. CASE Len(app.port) = 1 /\ Tail(app.port) = <<>>
             /\ app.port[Len(app.port)] = Head(app.port)
    BY <1>0, <2>1, <2>2
  <2>3. CASE Tail(app.port) # <<>>
             /\ Tail(app.port)[Len(Tail(app.port))] = app.port[Len(app.port)]
    BY <1>0, <2>1, <2>3
  <2> QED BY <2>1, <2>2, <2>3, LastRead
<1> QED
  BY <1>2, <1>3, <1>4, <1>5, <1>6, <1>7, <1>8, <1>9 DEF Next, SeatStep

(* With the console in this session's hands, the last that app_server      *)
(* hears is that it may draw: it does already, the signal is the last one  *)
(* in its port, or the callback that will send it waits in libseat.        *)
DisplayIsComing ==
  console = "ours" /\ app.known =>
    \/ app.port = <<>> /\ app.active
    \/ app.port # <<>> /\ app.port[Len(app.port)] = "enable"
    \/ events = <<"enable">>

(* What DisplayComesBack rests on, with every mishap: no quick change of   *)
(* the console leaves app_server with a loss as the last it heard.         *)
THEOREM DisplayIsPromised == Spec => []DisplayIsComing
<1>1. Init => DrawInv
  BY DEF Init, DrawInv, WillDraw
<1>2. SeatInv /\ DrawInv => DisplayIsComing
  BY DEF SeatInv, AppInv, DrawInv, WillDraw, DisplayIsComing
<1> QED BY <1>1, <1>2, DrawNext, SeatInvariant, PTL DEF Spec

(* logind's wish to have the seat back is never lost: the callback waits   *)
(* in the descriptor, or the seat thread is in it, whatever requests and   *)
(* other changes of the console come in between.                           *)
LossIsUnderWay ==
  console = "leaving" =>
    LettingGo \/ events \in {<<"disable">>, <<"enable", "disable">>}

(* What SeatIsGivenUp rests on, with every mishap. *)
THEOREM SeatIsLetGo == Spec => []LossIsUnderWay
<1>1. SeatInv => LossIsUnderWay
  BY DEF SeatInv, ConsoleInv, LossIsUnderWay
<1> QED BY <1>1, SeatInvariant, PTL
=============================================================================
