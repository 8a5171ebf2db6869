------------------------- MODULE SleepCycle_proofs -------------------------
(***************************************************************************)
(* The registrar gives its inhibitor up only in the cycle that asked for   *)
(* the screen lock, and the machine sleeps only after that: proofs for any *)
(* number of sleeps and any mishaps.                                       *)
(***************************************************************************)
EXTENDS SleepCycle, SequenceTheorems, TLAPS

(* Reports are of this cycle or an earlier one; of this one only while the *)
(* looper prepares for a sleep, since a resume begins a cycle too.         *)
OfThisSleep(m) == m.cycle <= cycle /\ (m.cycle = cycle => preparing)
ReportsInv ==
  /\ \A t \in threads \cup timers : OfThisSleep(t)
  /\ \A i \in DOMAIN port : port[i].what \in Reports => OfThisSleep(port[i])
  /\ \A i \in DOMAIN port : port[i].what = "lockDone" => port[i].cycle \in decided

(* What the looper will have heard last when it has read everything. *)
News(m) == m.what \in {"sleep", "resume"}
NoNewsFrom(k) == \A i \in DOMAIN port : i >= k => ~News(port[i])
LastNews(what) ==
  \/ NoNewsFrom(1) /\ (preparing <=> what = "sleep")
  \/ \E i \in DOMAIN port : port[i].what = what /\ NoNewsFrom(i + 1)
Hears(what) ==
  IF signals # <<>> THEN signals[Len(signals)] = what ELSE LastNews(what)
NewsInv == IF logind.phase = "idle" THEN Hears("resume") ELSE Hears("sleep")

(* The announced sleep on its way to the looper, and with it. *)
OnTheBus == signals = <<"sleep">> /\ NoNewsFrom(1)
AtTheLooper ==
  /\ signals = <<>>
  /\ \E i \in DOMAIN port :
       /\ port[i].what = "sleep"
       /\ \A j \in DOMAIN port : j # i => ~News(port[j])
Heard == signals = <<>> /\ NoNewsFrom(1)
GuardInv ==
  logind.phase # "idle" /\ guarded =>
    /\ bridge = "idle"
    /\ \/ (OnTheBus \/ AtTheLooper) /\ ~preparing /\ fd
       \/ Heard /\ preparing /\ (fd \/ cycle \in decided)
    /\ logind.phase = "asleep" => ~fd

SleepInv == TypeOK /\ ReportsInv /\ NewsInv /\ GuardInv

-----------------------------------------------------------------------------
(* The looper's port. *)
LEMMA PortGrows ==
  ASSUME port \in Seq(Messages), NEW m \in Messages, port' = Append(port, m)
  PROVE  /\ port' \in Seq(Messages)
         /\ DOMAIN port = 1 .. Len(port) /\ Len(port) \in Nat
         /\ DOMAIN port' = 1 .. Len(port) + 1
         /\ \A i \in DOMAIN port : port'[i] = port[i]
         /\ port'[Len(port) + 1] = m
BY AppendProperties, LenProperties

LEMMA PortShrinks ==
  ASSUME port \in Seq(Messages), NEW what, Receive(what)
  PROVE  /\ Head(port) \in Messages /\ Head(port) = port[1] /\ port[1].what = what
         /\ 1 \in DOMAIN port /\ DOMAIN port = 1 .. Len(port) /\ Len(port) \in Nat
         /\ port' \in Seq(Messages)
         /\ DOMAIN port' = 1 .. Len(port) - 1
         /\ \A i \in DOMAIN port' : port'[i] = port[i + 1]
<1>1. port # <<>> /\ port' = Tail(port) /\ Head(port).what = what
  BY DEF Receive
<1>2. Len(port) \in Nat \ {0} /\ DOMAIN port = 1 .. Len(port)
  BY <1>1, EmptySeq, LenProperties
<1>3. /\ Head(port) \in Messages /\ Head(port) = port[1]
      /\ Tail(port) \in Seq(Messages) /\ Len(Tail(port)) = Len(port) - 1
      /\ \A i \in 1 .. Len(port) - 1 : Tail(port)[i] = port[i + 1]
  BY <1>1, <1>2, HeadTailProperties
<1>4. DOMAIN Tail(port) = 1 .. Len(Tail(port))
  BY <1>3, LenProperties
<1> QED BY <1>1, <1>2, <1>3, <1>4

LEMMA SignalsGrow ==
  ASSUME signals \in Seq({"sleep", "resume"}), NEW what \in {"sleep", "resume"},
         signals' = Append(signals, what)
  PROVE  /\ signals' \in Seq({"sleep", "resume"})
         /\ signals' # <<>> /\ signals'[Len(signals')] = what
         /\ signals = <<>> => signals' = <<what>>
<1>1. /\ signals' \in Seq({"sleep", "resume"})
      /\ Len(signals') = Len(signals) + 1 /\ Len(signals) \in Nat
      /\ signals'[Len(signals) + 1] = what
  BY AppendProperties
<1>2. Len(<<>>) = 0
  BY EmptySeq
<1>3. signals' # <<>>
  BY <1>1, <1>2
<1>4. ASSUME signals = <<>> PROVE signals' = <<what>>
  BY <1>4
<1> QED BY <1>1, <1>3, <1>4

LEMMA SignalsShrink ==
  ASSUME signals \in Seq({"sleep", "resume"}), signals # <<>>,
         signals' = Tail(signals)
  PROVE  /\ signals' \in Seq({"sleep", "resume"})
         /\ Head(signals) \in {"sleep", "resume"}
         /\ IF signals' = <<>> THEN signals[Len(signals)] = Head(signals)
            ELSE signals'[Len(signals')] = signals[Len(signals)]
         /\ signals = <<"sleep">> => signals' = <<>> /\ Head(signals) = "sleep"
<1>1. /\ signals' \in Seq({"sleep", "resume"})
      /\ Head(signals) \in {"sleep", "resume"} /\ Head(signals) = signals[1]
      /\ Len(signals') = Len(signals) - 1
      /\ \A i \in 1 .. Len(signals) - 1 : signals'[i] = signals[i + 1]
      /\ Len(signals) \in Nat \ {0}
  BY HeadTailProperties, EmptySeq
<1>2. ASSUME signals' = <<>> PROVE Len(signals) = 1
  <2>1. Len(signals') = 0
    BY <1>2, EmptySeq
  <2> QED BY <1>1, <2>1
<1>3. ASSUME signals' # <<>> PROVE Len(signals') \in Nat \ {0}
  BY <1>1, <1>3, EmptySeq
<1>4. ASSUME signals = <<"sleep">> PROVE signals' = <<>> /\ Head(signals) = "sleep"
  BY <1>4
<1> QED BY <1>1, <1>2, <1>3, <1>4
-----------------------------------------------------------------------------
(* Types. *)
LEMMA TypeNext == ASSUME TypeOK, Next PROVE TypeOK'
<1> USE SleepConstants DEF Cycles, looperVars, workVars, bridgeVars
<1> DEFINE Threads == [what : {"notified", "lockDone"}, cycle : Cycles]
           Timers == [what : {"notified", "release"}, cycle : Cycles]
<1>1. ASSUME Announce
      PROVE  /\ logind' \in [phase : {"idle", "announced", "asleep"},
                             sleeps : 0 .. MaxSleeps]
             /\ signals' \in Seq({"sleep", "resume"})
             /\ guarded' \in BOOLEAN
  <2>1. guarded' \in BOOLEAN
    BY <1>1 DEF Announce, Settled, TypeOK
  <2>2. signals' \in Seq({"sleep", "resume"})
    BY <1>1, SignalsGrow DEF Announce, TypeOK
  <2> QED BY <1>1, <2>1, <2>2 DEF Announce, TypeOK
<1>2. CASE OthersSleep
  BY <1>1, <1>2 DEF OthersSleep, TypeOK
<1>3. CASE FallAsleep
  <2>1. guarded' \in BOOLEAN
    BY <1>3 DEF FallAsleep
  <2> QED BY <1>3, <2>1 DEF FallAsleep, TypeOK
<1>4. CASE WakeUp
  <2>1. signals' \in Seq({"sleep", "resume"})
    BY <1>4, SignalsGrow DEF WakeUp, TypeOK
  <2>2. logind' \in [phase : {"idle", "announced", "asleep"}, sleeps : 0 .. MaxSleeps]
    BY <1>4 DEF WakeUp, TypeOK
  <2> QED BY <1>4, <2>1, <2>2 DEF WakeUp, TypeOK
<1>5. CASE PassSignal
  <2>1. signals' \in Seq({"sleep", "resume"}) /\ Head(signals) \in {"sleep", "resume"}
    BY <1>5, SignalsShrink DEF PassSignal, TypeOK
  <2>2. [what |-> Head(signals), cycle |-> 0] \in Messages
    BY <2>1 DEF Messages
  <2>3. port' \in Seq(Messages)
    BY <1>5, <2>2, PortGrows DEF PassSignal, TypeOK
  <2> QED BY <1>5, <2>1, <2>3 DEF PassSignal, TypeOK
<1>6. CASE CheckInhibit
  <2>1. missed' \in BOOLEAN
    BY <1>6 DEF CheckInhibit
  <2> QED BY <1>6, <2>1 DEF CheckInhibit, TypeOK
<1>7. CASE AcquireSleepInhibit \/ AcquireFails \/ SleepRefused
  BY <1>7 DEF AcquireSleepInhibit, AcquireFails, SleepRefused, TypeOK
<1>8. CASE ProcessPendingSleep
  BY <1>1, <1>8 DEF ProcessPendingSleep, TypeOK
<1>9. ASSUME NEW t \in threads, ThreadEnds(t) PROVE TypeOK'
  <2>1. t \in Messages /\ t.cycle \in Cycles
    BY DEF TypeOK, Messages, Reports
  <2>2. port' \in Seq(Messages)
    BY <1>9, <2>1, PortGrows DEF ThreadEnds, TypeOK
  <2>3. threads' \subseteq [what : {"notified", "lockDone"}, cycle : Cycles]
    BY <1>9 DEF ThreadEnds, TypeOK
  <2>4. decided' \subseteq Cycles
    BY <1>9, <2>1 DEF ThreadEnds, TypeOK
  <2>5. UNCHANGED <<logind, signals, bridgeVars, fd, looperVars, timers, guarded, missed>>
    BY <1>9 DEF ThreadEnds
  <2> QED BY <2>2, <2>3, <2>4, <2>5 DEF TypeOK
<1>10. ASSUME NEW t \in timers, TimerFires(t) PROVE TypeOK'
  <2>1. t \in Messages
    BY DEF TypeOK, Messages, Reports
  <2>2. port' \in Seq(Messages)
    BY <1>10, <2>1, PortGrows DEF TimerFires, TypeOK
  <2> QED BY <1>10, <2>2 DEF TimerFires, TypeOK
<1>11. ASSUME NEW which \in {"suspend", "hibernate"}, HandleRequestSleep(which)
       PROVE  TypeOK'
  <2>1. kind' \in [hibernate : BOOLEAN, requested : BOOLEAN, fresh : BOOLEAN]
    BY <1>11 DEF HandleRequestSleep, TypeOK
  <2> QED BY <1>11, <2>1 DEF HandleRequestSleep, TypeOK
<1>12. CASE RequestAges
  <2>1. kind' \in [hibernate : BOOLEAN, requested : BOOLEAN, fresh : BOOLEAN]
    BY <1>12 DEF RequestAges, TypeOK
  <2> QED BY <1>12, <2>1 DEF RequestAges, TypeOK
<1>13. CASE HandlePrepareForSleep
  <2>1. port' \in Seq(Messages)
    BY <1>13, PortShrinks DEF HandlePrepareForSleep, TypeOK
  <2>2. (kind.requested /\ kind.fresh) \in BOOLEAN
    BY DEF TypeOK
  <2>3. kind' \in [hibernate : BOOLEAN, requested : BOOLEAN, fresh : BOOLEAN]
    BY <1>13, <2>2 DEF HandlePrepareForSleep, TypeOK
  <2>4. threads' \subseteq Threads /\ timers' \subseteq Timers
    BY <1>13 DEF HandlePrepareForSleep, TypeOK
  <2> QED BY <1>13, <2>1, <2>3, <2>4 DEF HandlePrepareForSleep, TypeOK
<1>14. CASE HandleResume
  <2>1. port' \in Seq(Messages)
    BY <1>14, PortShrinks DEF HandleResume, TypeOK
  <2>2. cycle' \in Cycles
    BY <1>14 DEF HandleResume, TypeOK
  <2>4. preparing' \in BOOLEAN
    BY <1>14 DEF HandleResume
  <2>3. /\ UNCHANGED <<logind, signals, bridge, pending, fd, closing, kind, notified>>
        /\ UNCHANGED <<threads, timers, decided, guarded, missed>>
    BY <1>14 DEF HandleResume
  <2> QED BY <2>1, <2>2, <2>3, <2>4 DEF TypeOK
<1>15. ASSUME RequestScreenLock
       PROVE  /\ threads' \subseteq Threads /\ decided' \subseteq Cycles
              /\ fd' \in BOOLEAN /\ closing' \in BOOLEAN
  <2>1. [what |-> "lockDone", cycle |-> cycle] \in Threads
    BY DEF TypeOK
  <2>2. threads' \subseteq Threads
    BY <1>15, <2>1 DEF RequestScreenLock, TypeOK
  <2>3. fd' \in BOOLEAN /\ closing' \in BOOLEAN
    BY <1>15 DEF RequestScreenLock, ReleaseSleepInhibit, TypeOK
  <2>4. decided' \subseteq Cycles
    BY <1>15 DEF RequestScreenLock, TypeOK
  <2> QED BY <2>2, <2>3, <2>4
<1>16. CASE HandleSleepNotified
  <2>1. port' \in Seq(Messages)
    BY <1>16, PortShrinks DEF HandleSleepNotified, TypeOK
  <2>2. /\ threads' \subseteq Threads /\ decided' \subseteq Cycles
        /\ fd' \in BOOLEAN /\ closing' \in BOOLEAN
        /\ timers' \subseteq Timers /\ notified' \in BOOLEAN
    <3>1. CASE Current /\ ~notified
      <4>1. timers' \subseteq Timers /\ notified' \in BOOLEAN
        BY <1>16, <3>1 DEF HandleSleepNotified, TypeOK
      <4>2. RequestScreenLock \/ UNCHANGED <<threads, fd, closing, decided>>
        BY <1>16, <3>1 DEF HandleSleepNotified
      <4>3. /\ threads' \subseteq Threads /\ decided' \subseteq Cycles
            /\ fd' \in BOOLEAN /\ closing' \in BOOLEAN
        BY <1>15, <4>2 DEF TypeOK
      <4> QED BY <4>1, <4>3
    <3>2. CASE ~(Current /\ ~notified)
      BY <1>16, <3>2 DEF HandleSleepNotified, TypeOK
    <3> QED BY <3>1, <3>2
  <2> QED BY <1>16, <2>1, <2>2 DEF HandleSleepNotified, TypeOK
<1>17. CASE HandleSleepRelease
  <2>1. port' \in Seq(Messages)
    BY <1>17, PortShrinks DEF HandleSleepRelease, TypeOK
  <2>2. /\ threads' \subseteq Threads /\ decided' \subseteq Cycles
        /\ fd' \in BOOLEAN /\ closing' \in BOOLEAN
    BY <1>15, <1>17 DEF HandleSleepRelease, TypeOK
  <2> QED BY <1>17, <2>1, <2>2 DEF HandleSleepRelease, TypeOK
<1>18. CASE HandleSleepLockDone
  <2>1. port' \in Seq(Messages)
    BY <1>18, PortShrinks DEF HandleSleepLockDone, TypeOK
  <2>2. fd' \in BOOLEAN /\ closing' \in BOOLEAN
    BY <1>18 DEF HandleSleepLockDone, ReleaseSleepInhibit, TypeOK
  <2> QED BY <1>18, <2>1, <2>2 DEF HandleSleepLockDone, TypeOK
<1>19. CASE ReleaseEnds
  <2>1. closing' \in BOOLEAN
    BY <1>19 DEF ReleaseEnds
  <2>2. /\ UNCHANGED <<logind, signals, bridge, pending, fd, port, cycle, kind, notified>>
        /\ UNCHANGED <<preparing, threads, timers, decided, guarded, missed>>
    BY <1>19 DEF ReleaseEnds
  <2> QED BY <2>1, <2>2 DEF TypeOK
<1> QED
  BY <1>2, <1>3, <1>4, <1>5, <1>6, <1>7, <1>8, <1>9, <1>10, <1>11, <1>12, <1>13,
     <1>14, <1>16, <1>17, <1>18, <1>19 DEF Next, BridgeStep, LooperStep
-----------------------------------------------------------------------------
(* The reports. *)
LEMMA ReportsNext == ASSUME TypeOK, ReportsInv, Next PROVE ReportsInv'
<1> USE DEF ReportsInv, OfThisSleep, looperVars, workVars, bridgeVars
<1>0. /\ port \in Seq(Messages) /\ cycle \in Nat
      /\ threads \subseteq Messages /\ timers \subseteq Messages
      /\ \A m \in Messages : m.cycle \in Nat
      /\ \A i \in DOMAIN port : port[i] \in Messages
  <2>1. port \in Seq(Messages) /\ cycle \in Nat
    BY DEF TypeOK, Cycles
  <2>2. threads \subseteq Messages /\ timers \subseteq Messages
    BY DEF TypeOK, Messages, Reports
  <2>3. \A m \in Messages : m.cycle \in Nat
    BY DEF Messages, Cycles
  <2>4. \A i \in DOMAIN port : port[i] \in Messages
    BY <2>1, LenProperties
  <2> QED BY <2>1, <2>2, <2>3, <2>4
<1>1. ASSUME UNCHANGED <<cycle, preparing, threads, timers, port, decided>>
      PROVE  ReportsInv'
  BY <1>1
<1>2. CASE \/ OthersSleep \/ FallAsleep \/ WakeUp \/ CheckInhibit
           \/ AcquireSleepInhibit \/ AcquireFails \/ ProcessPendingSleep
           \/ SleepRefused \/ RequestAges \/ ReleaseEnds
           \/ \E which \in {"suspend", "hibernate"} : HandleRequestSleep(which)
  BY <1>1, <1>2 DEF OthersSleep, FallAsleep, WakeUp, CheckInhibit,
     AcquireSleepInhibit, AcquireFails, ProcessPendingSleep, SleepRefused,
     RequestAges, ReleaseEnds, HandleRequestSleep
<1>3. ASSUME NEW m \in Messages, port' = Append(port, m),
             UNCHANGED <<cycle, preparing>>,
             threads' \subseteq threads, timers' \subseteq timers,
             decided \subseteq decided',
             m.what \in Reports => OfThisSleep(m),
             m.what = "lockDone" => m.cycle \in decided'
      PROVE  ReportsInv'
  BY <1>0, <1>3, PortGrows
<1>4. CASE PassSignal
  <2> DEFINE m == [what |-> Head(signals), cycle |-> 0]
  <2>1. Head(signals) \in {"sleep", "resume"}
    BY <1>4, SignalsShrink DEF PassSignal, TypeOK
  <2>2. m \in Messages /\ m.what \notin Reports
    BY <2>1 DEF Messages, Reports, Cycles
  <2>3. port' = Append(port, m) /\ UNCHANGED <<cycle, preparing, threads, timers, decided>>
    BY <1>4 DEF PassSignal
  <2> HIDE DEF m
  <2> QED BY <1>3, <2>2, <2>3 DEF Reports
<1>5. ASSUME NEW t \in threads, ThreadEnds(t) PROVE ReportsInv'
  BY <1>0, <1>3, <1>5 DEF ThreadEnds
<1>6. ASSUME NEW t \in timers, TimerFires(t) PROVE ReportsInv'
  <2>1. t.what # "lockDone"
    BY DEF TypeOK
  <2> QED BY <1>0, <1>3, <1>6, <2>1 DEF TimerFires
<1>7. CASE HandlePrepareForSleep \/ HandleResume
  <2>1. /\ cycle' = cycle + 1 /\ UNCHANGED decided
        /\ \A t \in threads' \cup timers' :
             t \in threads \cup timers \/ (t.cycle = cycle' /\ preparing')
    BY <1>7 DEF HandlePrepareForSleep, HandleResume
  <2>2. PICK what \in {"sleep", "resume"} : Receive(what)
    BY <1>7 DEF HandlePrepareForSleep, HandleResume
  <2>3. \A t \in threads' \cup timers' : OfThisSleep(t)'
    BY <1>0, <2>1
  <2>4. \A i \in DOMAIN port' : i + 1 \in DOMAIN port /\ port'[i] = port[i + 1]
    BY <1>0, <2>2, PortShrinks
  <2> QED BY <1>0, <2>1, <2>3, <2>4
<1>8. ASSUME NEW what \in Reports, Receive(what), UNCHANGED <<cycle, preparing>>,
             decided \subseteq decided',
             \A t \in threads' \cup timers' :
               t \in threads \cup timers \/ (t.cycle = cycle /\ Current)
      PROVE  ReportsInv'
  <2>1. /\ \A i \in DOMAIN port' : i + 1 \in DOMAIN port /\ port'[i] = port[i + 1]
        /\ 1 \in DOMAIN port /\ port[1] = Head(port) /\ port[1].what = what
    BY <1>0, <1>8, PortShrinks
  <2>2. Current => preparing
    BY <1>8, <2>1 DEF Current
  <2>3. \A t \in threads' \cup timers' : OfThisSleep(t)'
    BY <1>0, <1>8, <2>2
  <2> QED BY <1>8, <2>1, <2>3
<1>9. ASSUME RequestScreenLock
      PROVE  /\ \A t \in threads' : t \in threads \/ t.cycle = cycle
             /\ decided \subseteq decided'
  BY <1>9 DEF RequestScreenLock
<1>10. CASE HandleSleepNotified
  <2>1. Receive("notified") /\ UNCHANGED <<cycle, preparing>>
    BY <1>10 DEF HandleSleepNotified
  <2>2. CASE Current /\ ~notified
    BY <1>8, <1>9, <1>10, <2>1, <2>2 DEF HandleSleepNotified, Reports
  <2>3. CASE ~(Current /\ ~notified)
    BY <1>8, <1>10, <2>1, <2>3 DEF HandleSleepNotified, Reports
  <2> QED BY <2>2, <2>3
<1>11. CASE HandleSleepRelease
  <2>1. Receive("release") /\ UNCHANGED <<cycle, preparing, timers>>
    BY <1>11 DEF HandleSleepRelease
  <2>2. CASE Current
    BY <1>8, <1>9, <1>11, <2>1, <2>2 DEF HandleSleepRelease, Reports
  <2>3. CASE ~Current
    BY <1>8, <1>11, <2>1, <2>3 DEF HandleSleepRelease, Reports
  <2> QED BY <2>2, <2>3
<1>12. CASE HandleSleepLockDone
  BY <1>8, <1>12 DEF HandleSleepLockDone, Reports
<1> QED
  BY <1>2, <1>4, <1>5, <1>6, <1>7, <1>10, <1>11, <1>12 DEF Next, BridgeStep, LooperStep

(* The looper gives the inhibitor up for the cycle whose lock request ended. *)
LEMMA Released ==
  ASSUME TypeOK, ReportsInv, [Next]_vars, fd, ~fd'
  PROVE  /\ preparing /\ cycle \in decided'
         /\ HandleSleepNotified \/ HandleSleepRelease \/ HandleSleepLockDone
<1> USE DEF looperVars, workVars, bridgeVars
<1>1. HandleSleepNotified \/ HandleSleepRelease \/ HandleSleepLockDone
  BY DEF Next, BridgeStep, LooperStep, OthersSleep, FallAsleep, WakeUp, PassSignal,
     CheckInhibit, AcquireSleepInhibit, AcquireFails, ProcessPendingSleep,
     SleepRefused, ThreadEnds, TimerFires, HandleRequestSleep, RequestAges, ReleaseEnds,
     HandlePrepareForSleep, HandleResume, vars
<1>2. PICK what \in Reports : Receive(what)
  BY <1>1 DEF HandleSleepNotified, HandleSleepRelease, HandleSleepLockDone, Reports
<1>3. 1 \in DOMAIN port /\ port[1] = Head(port) /\ port[1].what = what
  BY <1>2, PortShrinks DEF TypeOK
<1>4. Current => preparing
  BY <1>2, <1>3 DEF ReportsInv, OfThisSleep, Current
<1>5. CASE HandleSleepNotified \/ HandleSleepRelease
  BY <1>1, <1>4, <1>5 DEF HandleSleepNotified, HandleSleepRelease, RequestScreenLock
<1>6. CASE HandleSleepLockDone
  <2>1. Current /\ decided' = decided
    BY <1>6 DEF HandleSleepLockDone
  <2>2. Head(port).what = "lockDone"
    BY <1>6 DEF HandleSleepLockDone, Receive
  <2> QED BY <1>1, <1>3, <1>4, <2>1, <2>2 DEF ReportsInv, Current
<1> QED BY <1>1, <1>5, <1>6
-----------------------------------------------------------------------------
(* What the looper hears. *)

(* A report that comes or goes is no news. *)
LEMMA ReportComes ==
  ASSUME TypeOK, NEW m \in Messages, m.what \in Reports, port' = Append(port, m),
         UNCHANGED <<signals, preparing>>
  PROVE  /\ NoNewsFrom(1) <=> NoNewsFrom(1)'
         /\ \A what \in {"sleep", "resume"} :
              (LastNews(what) => LastNews(what)') /\ (Hears(what) => Hears(what)')
         /\ AtTheLooper => AtTheLooper'
<1>1. /\ DOMAIN port = 1 .. Len(port) /\ Len(port) \in Nat
      /\ DOMAIN port' = 1 .. Len(port) + 1
      /\ \A i \in DOMAIN port : port'[i] = port[i]
      /\ port'[Len(port) + 1] = m /\ ~News(m)
  BY PortGrows DEF TypeOK, News, Reports
<1>2. \A k \in Nat : NoNewsFrom(k) => NoNewsFrom(k)'
  BY <1>1 DEF NoNewsFrom, News
<1>3. NoNewsFrom(1)' => NoNewsFrom(1)
  BY <1>1 DEF NoNewsFrom, News
<1>4. AtTheLooper => AtTheLooper'
  BY <1>1 DEF AtTheLooper, News
<1>5. ASSUME NEW what \in {"sleep", "resume"}, LastNews(what) PROVE LastNews(what)'
  <2>1. CASE \E i \in DOMAIN port : port[i].what = what /\ NoNewsFrom(i + 1)
    <3>1. PICK i \in DOMAIN port : port[i].what = what /\ NoNewsFrom(i + 1)
      BY <2>1
    <3>2. i \in DOMAIN port' /\ port'[i].what = what /\ i + 1 \in Nat
      BY <1>1, <3>1
    <3>3. NoNewsFrom(i + 1)'
      BY <1>2, <3>1, <3>2
    <3> QED BY <3>2, <3>3 DEF LastNews
  <2> QED BY <1>2, <1>5, <2>1 DEF LastNews
<1> QED BY <1>2, <1>3, <1>4, <1>5 DEF Hears

LEMMA ReportGoes ==
  ASSUME TypeOK, NEW w \in Reports, Receive(w), UNCHANGED <<signals, preparing>>
  PROVE  /\ NoNewsFrom(1) <=> NoNewsFrom(1)'
         /\ \A what \in {"sleep", "resume"} :
              (LastNews(what) => LastNews(what)') /\ (Hears(what) => Hears(what)')
         /\ AtTheLooper => AtTheLooper'
<1>1. /\ port[1].what = w /\ 1 \in DOMAIN port
      /\ DOMAIN port = 1 .. Len(port) /\ Len(port) \in Nat
      /\ DOMAIN port' = 1 .. Len(port) - 1
      /\ \A i \in DOMAIN port' : port'[i] = port[i + 1]
  BY PortShrinks DEF TypeOK
<1>2. NoNewsFrom(1) => NoNewsFrom(1)'
  BY <1>1 DEF NoNewsFrom, News
<1>3. ASSUME NEW i \in DOMAIN port, News(port[i])
      PROVE  /\ i - 1 \in DOMAIN port' /\ port'[i - 1] = port[i]
             /\ NoNewsFrom(i + 1) => NoNewsFrom(i)'
  <2>1. i # 1
    BY <1>1, <1>3 DEF News, Reports
  <2> QED BY <1>1, <2>1 DEF NoNewsFrom, News
<1>4. ASSUME AtTheLooper PROVE AtTheLooper'
  <2>1. PICK i \in DOMAIN port :
          port[i].what = "sleep" /\ \A j \in DOMAIN port : j # i => ~News(port[j])
    BY <1>4 DEF AtTheLooper
  <2>2. i - 1 \in DOMAIN port' /\ port'[i - 1].what = "sleep" /\ i \in Int
    BY <1>1, <1>3, <2>1 DEF News
  <2>3. \A j \in DOMAIN port' : j # i - 1 => ~News(port'[j])
    BY <1>1, <2>1, <2>2 DEF News
  <2> QED BY <1>4, <2>2, <2>3 DEF AtTheLooper, News
<1>5. ASSUME NEW what \in {"sleep", "resume"}, LastNews(what) PROVE LastNews(what)'
  <2>1. ASSUME NEW i \in DOMAIN port, port[i].what = what, NoNewsFrom(i + 1)
        PROVE  LastNews(what)'
    <3>1. /\ i - 1 \in DOMAIN port' /\ port'[i - 1].what = what
          /\ NoNewsFrom(i)' /\ (i - 1) + 1 = i
      BY <1>1, <1>3, <2>1 DEF News
    <3> QED BY <3>1 DEF LastNews
  <2> QED BY <1>2, <1>5, <2>1 DEF LastNews
<1>6. ASSUME NoNewsFrom(1)', NEW i \in DOMAIN port PROVE ~News(port[i])
  <2>1. i - 1 \notin DOMAIN port' \/ ~News(port'[i - 1])
    BY <1>1, <1>6 DEF NoNewsFrom
  <2> QED BY <1>3, <2>1
<1>7. NoNewsFrom(1)' => NoNewsFrom(1)
  BY <1>6 DEF NoNewsFrom
<1> QED BY <1>2, <1>4, <1>5, <1>7 DEF Hears

(* The looper hears of a sleep or of a resume. *)
LEMMA NewsHeard ==
  ASSUME TypeOK, NEW w \in {"sleep", "resume"}, Receive(w), UNCHANGED signals,
         preparing' <=> w = "sleep"
  PROVE  /\ ~NoNewsFrom(1)
         /\ \A what \in {"sleep", "resume"} :
              (LastNews(what) => LastNews(what)') /\ (Hears(what) => Hears(what)')
         /\ AtTheLooper => w = "sleep" /\ NoNewsFrom(1)'
<1>1. /\ port[1].what = w /\ 1 \in DOMAIN port
      /\ DOMAIN port = 1 .. Len(port) /\ Len(port) \in Nat
      /\ DOMAIN port' = 1 .. Len(port) - 1
      /\ \A i \in DOMAIN port' : port'[i] = port[i + 1]
  BY PortShrinks DEF TypeOK
<1>2. News(port[1]) /\ ~NoNewsFrom(1)
  BY <1>1 DEF NoNewsFrom, News
<1>3. ASSUME AtTheLooper PROVE w = "sleep" /\ NoNewsFrom(1)'
  <2>1. PICK i \in DOMAIN port :
          port[i].what = "sleep" /\ \A j \in DOMAIN port : j # i => ~News(port[j])
    BY <1>3 DEF AtTheLooper
  <2>2. i = 1
    BY <1>1, <1>2, <2>1
  <2> QED BY <1>1, <2>1, <2>2 DEF NoNewsFrom, News
<1>4. ASSUME NEW what \in {"sleep", "resume"}, LastNews(what)
      PROVE  LastNews(what)'
  <2>1. PICK i \in DOMAIN port : port[i].what = what /\ NoNewsFrom(i + 1)
    BY <1>2, <1>4 DEF LastNews
  <2>2. CASE i = 1
    <3>1. NoNewsFrom(1)'
      BY <1>1, <2>1, <2>2 DEF NoNewsFrom, News
    <3>2. preparing' <=> what = "sleep"
      BY <1>1, <2>1, <2>2
    <3> QED BY <3>1, <3>2 DEF LastNews
  <2>3. CASE i # 1
    <3>1. /\ i - 1 \in DOMAIN port' /\ port'[i - 1].what = what
          /\ NoNewsFrom(i)' /\ (i - 1) + 1 = i
      BY <1>1, <2>1, <2>3 DEF NoNewsFrom, News
    <3> QED BY <3>1 DEF LastNews
  <2> QED BY <2>2, <2>3
<1> QED BY <1>2, <1>3, <1>4 DEF Hears

(* The bridge passes a signal on. *)
LEMMA NewsPassed ==
  ASSUME TypeOK, PassSignal
  PROVE  /\ \A what \in {"sleep", "resume"} : Hears(what) => Hears(what)'
         /\ OnTheBus => AtTheLooper' /\ bridge' = "idle"
         /\ signals # <<>>
<1> DEFINE m == [what |-> Head(signals), cycle |-> 0]
<1>1. /\ signals # <<>> /\ signals' = Tail(signals) /\ port' = Append(port, m)
      /\ UNCHANGED preparing
  BY DEF PassSignal, looperVars
<1>2. /\ Head(signals) \in {"sleep", "resume"}
      /\ IF signals' = <<>> THEN signals[Len(signals)] = Head(signals)
         ELSE signals'[Len(signals')] = signals[Len(signals)]
      /\ signals = <<"sleep">> => signals' = <<>> /\ Head(signals) = "sleep"
  BY <1>1, SignalsShrink DEF TypeOK
<1>3. m \in Messages /\ m.what = Head(signals)
  BY <1>2 DEF Messages, Cycles
<1> HIDE DEF m
<1>4. /\ DOMAIN port = 1 .. Len(port) /\ Len(port) \in Nat
      /\ DOMAIN port' = 1 .. Len(port) + 1
      /\ \A i \in DOMAIN port : port'[i] = port[i]
      /\ port'[Len(port) + 1] = m
  BY <1>1, <1>3, PortGrows DEF TypeOK
<1>5. ASSUME NEW what \in {"sleep", "resume"}, Hears(what) PROVE Hears(what)'
  <2>1. signals[Len(signals)] = what
    BY <1>1, <1>5 DEF Hears
  <2>2. CASE signals' = <<>>
    <3>1. port'[Len(port) + 1].what = what
      <4>1. m.what = what
        BY <1>2, <1>3, <2>1, <2>2
      <4> QED BY <1>4, <4>1, Zenon
    <3>3. Len(port) + 1 \in DOMAIN port'
      BY <1>4
    <3> DEFINE k == Len(port) + 1
    <3>4. k \in DOMAIN port' /\ port'[k].what = what
      BY <3>1, <3>3
    <3>5. \A i \in DOMAIN port' : ~(i >= k + 1)
      BY <1>4
    <3> HIDE DEF k
    <3> QED BY <2>2, <3>4, <3>5 DEF Hears, LastNews, NoNewsFrom
  <2>3. CASE signals' # <<>>
    BY <1>2, <2>1, <2>3 DEF Hears
  <2> QED BY <2>2, <2>3
<1>6. ASSUME OnTheBus PROVE AtTheLooper' /\ bridge' = "idle"
  <2>1. signals' = <<>> /\ Head(signals) = "sleep"
    BY <1>2, <1>6 DEF OnTheBus
  <2>2. /\ Len(port) + 1 \in DOMAIN port' /\ port'[Len(port) + 1].what = "sleep"
        /\ \A j \in DOMAIN port' : j # Len(port) + 1 => ~News(port'[j])
    BY <1>3, <1>4, <1>6, <2>1 DEF OnTheBus, NoNewsFrom, News
  <2>3. bridge' = "idle"
    BY <2>1 DEF PassSignal
  <2> QED BY <2>1, <2>2, <2>3 DEF AtTheLooper, News
<1> QED BY <1>1, <1>5, <1>6

LEMMA NewsNext == ASSUME TypeOK, NewsInv, GuardInv, Next PROVE NewsInv'
<1> USE DEF NewsInv, looperVars, workVars, bridgeVars
<1>0. /\ signals \in Seq({"sleep", "resume"}) /\ port \in Seq(Messages)
      /\ threads \subseteq Messages /\ timers \subseteq Messages
      /\ \A t \in threads \cup timers : t.what \in Reports
  BY DEF TypeOK, Messages, Reports
<1>1. ASSUME UNCHANGED logind,
             \A what \in {"sleep", "resume"} : Hears(what) => Hears(what)'
      PROVE  NewsInv'
  BY <1>1
<1>2. ASSUME NEW what \in {"sleep", "resume"}, signals' = Append(signals, what)
      PROVE  Hears(what)'
  BY <1>0, <1>2, SignalsGrow DEF Hears
<1>3. CASE OthersSleep \/ ProcessPendingSleep
  BY <1>2, <1>3 DEF OthersSleep, ProcessPendingSleep, Announce
<1>4. CASE FallAsleep
  <2>1. logind.phase = "announced" /\ logind'.phase = "asleep"
    BY <1>4 DEF FallAsleep, TypeOK
  <2> QED BY <1>4, <2>1 DEF FallAsleep, Hears, LastNews, NoNewsFrom, News
<1>5. CASE WakeUp
  <2>1. logind'.phase = "idle"
    BY <1>5 DEF WakeUp, TypeOK
  <2> QED BY <1>2, <1>5, <2>1 DEF WakeUp
<1>6. CASE PassSignal
  BY <1>1, <1>6, NewsPassed DEF PassSignal
<1>7. CASE \/ CheckInhibit \/ AcquireSleepInhibit \/ AcquireFails \/ SleepRefused
           \/ RequestAges \/ ReleaseEnds
           \/ \E which \in {"suspend", "hibernate"} : HandleRequestSleep(which)
  <2>1. UNCHANGED <<logind, signals, port, preparing>>
    BY <1>7 DEF CheckInhibit, AcquireSleepInhibit, AcquireFails, SleepRefused,
       RequestAges, ReleaseEnds, HandleRequestSleep
  <2> QED BY <2>1 DEF Hears, LastNews, NoNewsFrom, News
<1>8. ASSUME NEW t \in threads, ThreadEnds(t) PROVE NewsInv'
  BY <1>0, <1>1, <1>8, ReportComes DEF ThreadEnds
<1>9. ASSUME NEW t \in timers, TimerFires(t) PROVE NewsInv'
  BY <1>0, <1>1, <1>9, ReportComes DEF TimerFires
<1>10. CASE HandlePrepareForSleep \/ HandleResume
  <2>1. \E w \in {"sleep", "resume"} :
          Receive(w) /\ (preparing' <=> w = "sleep")
    BY <1>10 DEF HandlePrepareForSleep, HandleResume
  <2>2. UNCHANGED <<logind, signals>>
    BY <1>10 DEF HandlePrepareForSleep, HandleResume
  <2> QED BY <1>1, <2>1, <2>2, NewsHeard
<1>11. CASE HandleSleepNotified \/ HandleSleepRelease \/ HandleSleepLockDone
  <2>1. \E w \in Reports : Receive(w)
    BY <1>11 DEF HandleSleepNotified, HandleSleepRelease, HandleSleepLockDone, Reports
  <2>2. UNCHANGED <<logind, signals, preparing>>
    BY <1>11 DEF HandleSleepNotified, HandleSleepRelease, HandleSleepLockDone
  <2> QED BY <1>1, <2>1, <2>2, ReportGoes
<1> QED
  BY <1>3, <1>4, <1>5, <1>6, <1>7, <1>8, <1>9, <1>10, <1>11
     DEF Next, BridgeStep, LooperStep

LEMMA GuardNext ==
  ASSUME TypeOK, ReportsInv, NewsInv, GuardInv, Next PROVE GuardInv'
<1> USE DEF GuardInv, looperVars, workVars, bridgeVars
<1>0. /\ signals \in Seq({"sleep", "resume"}) /\ port \in Seq(Messages)
      /\ threads \subseteq Messages /\ timers \subseteq Messages
      /\ \A t \in threads \cup timers : t.what \in Reports
      /\ \A i \in DOMAIN port : i \in Nat /\ i >= 1
      /\ logind.phase \in {"idle", "announced", "asleep"}
  <2>1. /\ signals \in Seq({"sleep", "resume"}) /\ port \in Seq(Messages)
        /\ logind.phase \in {"idle", "announced", "asleep"}
    BY DEF TypeOK
  <2>2. /\ threads \subseteq Messages /\ timers \subseteq Messages
        /\ \A t \in threads \cup timers : t.what \in Reports
    BY DEF TypeOK, Messages, Reports
  <2>3. DOMAIN port = 1 .. Len(port) /\ Len(port) \in Nat
    BY <2>1, LenProperties
  <2> QED BY <2>1, <2>2, <2>3
<1>1. CASE OthersSleep \/ ProcessPendingSleep
  <2>1. Announce /\ UNCHANGED <<bridge, fd, port, preparing>>
    BY <1>1 DEF OthersSleep, ProcessPendingSleep
  <2>2. CASE ~(fd /\ Settled)
    BY <2>1, <2>2 DEF Announce
  <2>3. CASE fd /\ Settled
    <3>1. signals = <<>> /\ bridge = "idle" /\ NoNewsFrom(1)
      BY <2>3 DEF Settled, NoNewsFrom, News
    <3>2. ~preparing
      <4>1. Hears("resume")
        BY <2>1 DEF Announce, NewsInv
      <4>2. \A i \in DOMAIN port : port[i].what # "resume"
        BY <1>0, <3>1 DEF NoNewsFrom, News
      <4> QED BY <3>1, <4>1, <4>2 DEF Hears, LastNews
    <3>3. signals' = <<"sleep">>
      BY <1>0, <2>1, <3>1, SignalsGrow DEF Announce
    <3>4. OnTheBus' /\ logind'.phase # "asleep"
      BY <2>1, <3>1, <3>3 DEF OnTheBus, NoNewsFrom, News, Announce
    <3> QED BY <2>1, <2>3, <3>1, <3>2, <3>4
  <2> QED BY <2>2, <2>3
<1>2. CASE FallAsleep
  <2>1. logind.phase = "announced" /\ logind'.phase = "asleep"
    BY <1>2 DEF FallAsleep, TypeOK
  <2>2. /\ UNCHANGED <<signals, port, bridge, fd, preparing, cycle, decided>>
        /\ guarded' => guarded /\ ~fd
    BY <1>2 DEF FallAsleep
  <2> QED BY <2>1, <2>2 DEF OnTheBus, AtTheLooper, Heard, NoNewsFrom, News
<1>3. CASE WakeUp
  <2>1. logind'.phase = "idle"
    BY <1>3 DEF WakeUp, TypeOK
  <2> QED BY <2>1
<1>4. ASSUME Awake, UNCHANGED <<logind, guarded>>,
             logind.phase = "announced" /\ guarded =>
               /\ bridge' = "idle"
               /\ \/ (OnTheBus' \/ AtTheLooper') /\ ~preparing' /\ fd'
                  \/ Heard' /\ preparing' /\ (fd' \/ cycle' \in decided')
      PROVE  GuardInv'
  BY <1>0, <1>4 DEF Awake
<1>5. CASE PassSignal
  <2>1. Awake /\ UNCHANGED <<logind, guarded, fd, preparing>>
    BY <1>5 DEF PassSignal
  <2>2. signals # <<>>
    BY <1>5 DEF PassSignal
  <2> QED
    BY <1>4, <1>5, <2>1, <2>2, NewsPassed DEF AtTheLooper, Heard
<1>6. CASE CheckInhibit \/ AcquireSleepInhibit \/ AcquireFails
  <2>1. bridge # "idle" /\ Awake /\ UNCHANGED <<logind, guarded>>
    BY <1>6 DEF CheckInhibit, AcquireSleepInhibit, AcquireFails
  <2> QED BY <1>4, <2>1
<1>7. CASE \/ SleepRefused \/ RequestAges \/ ReleaseEnds
           \/ \E which \in {"suspend", "hibernate"} : HandleRequestSleep(which)
  <2>1. /\ Awake
        /\ UNCHANGED <<logind, guarded, signals, port, bridge, fd, preparing, cycle,
                       decided>>
    BY <1>7 DEF SleepRefused, RequestAges, ReleaseEnds, HandleRequestSleep
  <2> QED BY <1>4, <2>1 DEF OnTheBus, AtTheLooper, Heard, NoNewsFrom, News
<1>8. ASSUME NEW t \in threads \cup timers, ThreadEnds(t) \/ TimerFires(t)
      PROVE  GuardInv'
  <2>1. /\ Awake /\ port' = Append(port, t)
        /\ UNCHANGED <<logind, guarded, signals, bridge, fd, preparing, cycle>>
        /\ decided \subseteq decided'
    BY <1>8 DEF ThreadEnds, TimerFires
  <2>2. /\ NoNewsFrom(1) <=> NoNewsFrom(1)'
        /\ AtTheLooper => AtTheLooper'
    BY <1>0, <2>1, ReportComes
  <2> QED BY <1>4, <2>1, <2>2 DEF OnTheBus, Heard
<1>9. CASE HandlePrepareForSleep \/ HandleResume
  <2>1. PICK w \in {"sleep", "resume"} :
          Receive(w) /\ (preparing' <=> w = "sleep")
    BY <1>9 DEF HandlePrepareForSleep, HandleResume
  <2>2. Awake /\ UNCHANGED <<logind, guarded, signals, bridge, fd>>
    BY <1>9 DEF HandlePrepareForSleep, HandleResume, Receive
  <2>3. /\ ~NoNewsFrom(1)
        /\ AtTheLooper => w = "sleep" /\ NoNewsFrom(1)'
    BY <2>1, <2>2, NewsHeard
  <2>4. ASSUME logind.phase = "announced", guarded
        PROVE  bridge' = "idle" /\ Heard' /\ preparing' /\ fd'
    <3>1. AtTheLooper /\ fd /\ bridge = "idle"
      BY <2>3, <2>4 DEF OnTheBus, Heard
    <3> QED BY <2>1, <2>2, <2>3, <3>1 DEF AtTheLooper, Heard
  <2> QED BY <1>4, <2>2, <2>4
<1>10. CASE HandleSleepNotified \/ HandleSleepRelease \/ HandleSleepLockDone
  <2>1. PICK w \in Reports : Receive(w)
    BY <1>10 DEF HandleSleepNotified, HandleSleepRelease, HandleSleepLockDone, Reports
  <2>2. Awake /\ UNCHANGED <<logind, guarded, signals, bridge, preparing, cycle>>
    BY <1>10 DEF HandleSleepNotified, HandleSleepRelease, HandleSleepLockDone, Receive
  <2>3. decided \subseteq decided'
    BY <1>10 DEF HandleSleepNotified, HandleSleepRelease, HandleSleepLockDone,
       RequestScreenLock
  <2>4. fd /\ ~fd' => preparing /\ cycle \in decided'
    BY Released
  <2>5. (NoNewsFrom(1) => NoNewsFrom(1)') /\ (AtTheLooper => AtTheLooper')
    BY <2>1, <2>2, ReportGoes
  <2> QED BY <1>4, <2>2, <2>3, <2>4, <2>5 DEF OnTheBus, Heard
<1> QED
  BY <1>1, <1>2, <1>3, <1>5, <1>6, <1>7, <1>8, <1>9, <1>10
     DEF Next, BridgeStep, LooperStep
-----------------------------------------------------------------------------
(* The inhibitor after the resume. *)

(* What is left to do before the looper gives the inhibitor up. *)
Decides(m) == m.what \in {"release", "lockDone"} /\ m.cycle = cycle
NoneLeft ==
  /\ \A m \in threads \cup timers : ~Decides(m)
  /\ \A i \in DOMAIN port : ~Decides(port[i])
Spent == notified /\ NoneLeft

(* A cycle decides once: one timer, thread or report of it at a time. *)
OneLeft ==
  /\ notified \/ NoneLeft
  /\ \A t \in threads, u \in timers : ~(Decides(t) /\ Decides(u))
  /\ \A t \in threads \cup timers, i \in DOMAIN port :
       ~(Decides(t) /\ Decides(port[i]))
  /\ \A i, j \in DOMAIN port : Decides(port[i]) /\ Decides(port[j]) => i = j

(* Nothing on its way to the looper makes it close the descriptor. *)
NoSleepComes == \A i \in DOMAIN port : port[i].what # "sleep"
Harmless == NoSleepComes /\ (preparing => Spent)

(* A guarded sleep has lost its inhibitor for good; the bridge finds that  *)
(* out after the resume and takes the next one; until the next sleep the   *)
(* looper leaves that alone.                                               *)
HeldInv ==
  /\ guarded /\ ~fd /\ logind.phase # "idle" => Spent
  /\ guarded /\ logind.phase = "idle" /\ (signals # <<>> \/ bridge = "check") =>
       /\ \/ signals = <<"resume">> /\ bridge = "idle"
          \/ signals = <<>> /\ bridge = "check"
       /\ Harmless
  /\ ~missed /\ logind.phase = "idle" /\ signals = <<>> /\ bridge # "check" =>
       Harmless /\ (fd \/ bridge = "acquire")

LEMMA Appended ==
  ASSUME port \in Seq(Messages), NEW m \in Messages, port' = Append(port, m)
  PROVE  \A i \in DOMAIN port' :
           \/ i \in DOMAIN port /\ port'[i] = port[i]
           \/ i = Len(port) + 1 /\ i \notin DOMAIN port /\ port'[i] = m
BY PortGrows

LEMMA Taken ==
  ASSUME port \in Seq(Messages), NEW what, Receive(what)
  PROVE  /\ 1 \in DOMAIN port /\ Head(port) = port[1] /\ port[1].what = what
         /\ \A i \in DOMAIN port' :
              /\ i \in Int /\ i + 1 \in DOMAIN port /\ i + 1 # 1
              /\ port'[i] = port[i + 1]
BY PortShrinks

(* The steps that touch no work of the cycle. *)
LEMMA Idles ==
  ASSUME \/ OthersSleep \/ FallAsleep \/ WakeUp \/ CheckInhibit
         \/ AcquireSleepInhibit \/ AcquireFails \/ ProcessPendingSleep
         \/ SleepRefused \/ RequestAges \/ ReleaseEnds
         \/ \E which \in {"suspend", "hibernate"} : HandleRequestSleep(which)
  PROVE  UNCHANGED <<port, cycle, notified, preparing, workVars>>
BY DEF OthersSleep, FallAsleep, WakeUp, CheckInhibit, AcquireSleepInhibit,
   AcquireFails, ProcessPendingSleep, SleepRefused, RequestAges, ReleaseEnds,
   HandleRequestSleep, looperVars, workVars, bridgeVars

(* A new cycle finds nothing of its own. *)
LEMMA NewCycle ==
  ASSUME TypeOK, ReportsInv, HandlePrepareForSleep \/ HandleResume
  PROVE  NoneLeft'
<1>1. PICK what \in {"sleep", "resume"} : Receive(what)
  BY DEF HandlePrepareForSleep, HandleResume
<1>2. /\ cycle' = cycle + 1 /\ cycle \in Nat
      /\ \A t \in threads' \cup timers' :
           t \in threads \cup timers \/ t.what = "notified"
  BY DEF HandlePrepareForSleep, HandleResume, workVars, TypeOK, Cycles
<1>3. /\ port \in Seq(Messages) /\ \A i \in DOMAIN port : port[i] \in Messages
      /\ threads \cup timers \subseteq Messages
      /\ \A m \in Messages : m.cycle \in Nat
  <2>1. port \in Seq(Messages) /\ threads \cup timers \subseteq Messages
    BY DEF TypeOK, Messages, Reports
  <2>2. \A i \in DOMAIN port : port[i] \in Messages
    BY <2>1, LenProperties
  <2> QED BY <2>1, <2>2 DEF Messages, Cycles
<1>4. ASSUME NEW t \in threads' \cup timers' PROVE ~Decides(t)'
  BY <1>2, <1>3, <1>4 DEF Decides, ReportsInv, OfThisSleep
<1>5. ASSUME NEW i \in DOMAIN port' PROVE ~Decides(port[i])'
  <2>1. i + 1 \in DOMAIN port /\ port'[i] = port[i + 1]
    BY <1>1, <1>3, <1>5, Taken
  <2>2. port[i + 1].what \in Reports => port[i + 1].cycle <= cycle
    BY <2>1 DEF ReportsInv, OfThisSleep
  <2> QED BY <1>2, <1>3, <2>1, <2>2 DEF Decides, Reports
<1> QED BY <1>4, <1>5 DEF NoneLeft

(* A report or a signal reaches the looper. *)
LEMMA LeftArrives ==
  ASSUME TypeOK, OneLeft, NEW m \in Messages, port' = Append(port, m),
         UNCHANGED <<cycle, notified>>,
         threads' \subseteq threads, timers' \subseteq timers,
         Decides(m) => m \in (threads \cup timers) \ (threads' \cup timers')
  PROVE  OneLeft' /\ (NoneLeft => NoneLeft')
<1> USE DEF Decides
<1>1. \A i \in DOMAIN port' :
        \/ i \in DOMAIN port /\ port'[i] = port[i]
        \/ i = Len(port) + 1 /\ i \notin DOMAIN port /\ port'[i] = m
  BY Appended DEF TypeOK
<1>2. NoneLeft => NoneLeft'
  BY <1>1 DEF NoneLeft
<1>3. \A t \in threads', u \in timers' : ~(Decides(t)' /\ Decides(u)')
  BY DEF OneLeft
<1>4. ASSUME NEW t \in threads' \cup timers', NEW i \in DOMAIN port'
      PROVE  ~(Decides(t)' /\ Decides(port[i])')
  <2>1. CASE i \in DOMAIN port /\ port'[i] = port[i]
    BY <1>4, <2>1 DEF OneLeft
  <2>2. CASE port'[i] = m
    <3>1. ASSUME Decides(t), Decides(m) PROVE FALSE
      <4>1. m \in threads \/ m \in timers
        BY <3>1
      <4>2. t # m /\ t \in threads \cup timers
        BY <1>4, <3>1
      <4>3. (t \in threads /\ m \in threads) \/ (t \in timers /\ m \in timers)
        BY <3>1, <4>1, <4>2 DEF OneLeft
      <4>4. /\ threads \subseteq [what : {"notified", "lockDone"}, cycle : Cycles]
            /\ timers \subseteq [what : {"notified", "release"}, cycle : Cycles]
        BY DEF TypeOK
      <4>5. t = m
        BY <3>1, <4>3, <4>4
      <4> QED BY <4>2, <4>5
    <3> QED BY <2>2, <3>1
  <2> QED BY <1>1, <2>1, <2>2
<1>5. ASSUME NEW i \in DOMAIN port', NEW j \in DOMAIN port',
             Decides(port[i])', Decides(port[j])'
      PROVE  i = j
  <2>1. CASE i \in DOMAIN port /\ j \in DOMAIN port
    BY <1>1, <1>5, <2>1 DEF OneLeft
  <2>2. CASE i \notin DOMAIN port /\ j \notin DOMAIN port
    BY <1>1, <2>2
  <2>3. ASSUME NEW k \in DOMAIN port, port'[k] = port[k], Decides(port[k]), Decides(m)
        PROVE  FALSE
    BY <2>3 DEF OneLeft
  <2> QED BY <1>1, <1>5, <2>1, <2>2, <2>3
<1>6. notified' \/ NoneLeft'
  BY <1>2 DEF OneLeft
<1> QED BY <1>2, <1>3, <1>4, <1>5, <1>6 DEF OneLeft

(* The looper reads a report; the one that closes was the last. *)
LEMMA LeftHandled ==
  ASSUME TypeOK, OneLeft,
         HandleSleepNotified \/ HandleSleepRelease \/ HandleSleepLockDone
  PROVE  /\ OneLeft'
         /\ Spent => Spent' /\ UNCHANGED fd
         /\ fd /\ ~fd' => Spent'
<1> USE DEF Decides, workVars
<1> DEFINE WorkLeft == \E m \in threads \cup timers : Decides(m)
           RestLeft == \E i \in DOMAIN port' : Decides(port'[i])
<1>1. PICK what \in Reports : Receive(what)
  BY DEF HandleSleepNotified, HandleSleepRelease, HandleSleepLockDone, Reports
<1>2. /\ 1 \in DOMAIN port /\ Head(port) = port[1] /\ port[1].what = what
      /\ \A i \in DOMAIN port' :
           /\ i \in Int /\ i + 1 \in DOMAIN port /\ i + 1 # 1
           /\ port'[i] = port[i + 1]
  BY <1>1, Taken DEF TypeOK
<1>3. UNCHANGED cycle /\ (notified => notified')
  BY DEF HandleSleepNotified, HandleSleepRelease, HandleSleepLockDone, looperVars, TypeOK
<1>4. NoneLeft \/ Decides(Head(port)) => ~WorkLeft /\ ~RestLeft
  BY <1>2 DEF NoneLeft, OneLeft
<1>5. ASSUME UNCHANGED workVars PROVE OneLeft'
  <2>1. \A i, j \in DOMAIN port' :
          Decides(port'[i]) /\ Decides(port'[j]) => i = j
    BY <1>2 DEF OneLeft
  <2>2. \A t \in threads \cup timers, i \in DOMAIN port' :
          ~(Decides(t) /\ Decides(port'[i]))
    BY <1>2 DEF OneLeft
  <2>3. NoneLeft => NoneLeft'
    BY <1>3, <1>4, <1>5 DEF NoneLeft
  <2> QED BY <1>3, <1>5, <2>1, <2>2, <2>3 DEF OneLeft
<1>6. ASSUME ~WorkLeft, ~RestLeft, notified', NEW m,
             \/ m.what = "lockDone" /\ threads' = threads \cup {m} /\ timers' = timers
             \/ m.what = "release" /\ threads' = threads /\ timers' = timers \cup {m}
      PROVE  OneLeft'
  BY <1>3, <1>6 DEF OneLeft
<1>7. ASSUME ~WorkLeft, ~RestLeft, notified', UNCHANGED workVars PROVE Spent'
  BY <1>3, <1>7 DEF Spent, NoneLeft
<1>8. ASSUME RequestScreenLock, ~WorkLeft, ~RestLeft, notified', UNCHANGED timers
      PROVE  OneLeft' /\ (~fd' => ~fd \/ Spent')
  <2>1. CASE UNCHANGED workVars
    BY <1>5, <1>7, <1>8, <2>1
  <2>2. CASE /\ threads' = threads \cup {[what |-> "lockDone", cycle |-> cycle]}
             /\ UNCHANGED fd
    BY <1>6, <1>8, <2>2
  <2> QED BY <1>8, <2>1, <2>2 DEF RequestScreenLock
<1>9. CASE HandleSleepNotified /\ Current /\ ~notified
  <2>1. notified' /\ ~WorkLeft /\ ~RestLeft
    BY <1>4, <1>9 DEF HandleSleepNotified, OneLeft
  <2>2. CASE kind.hibernate
    BY <1>8, <1>9, <2>1, <2>2 DEF HandleSleepNotified, Spent
  <2>3. CASE ~kind.hibernate
    BY <1>6, <1>9, <2>1, <2>3 DEF HandleSleepNotified, Spent
  <2> QED BY <2>2, <2>3
<1>10. CASE HandleSleepRelease /\ Current
  <2>1. Decides(Head(port))
    BY <1>10 DEF HandleSleepRelease, Receive, Current
  <2>2. ~NoneLeft /\ notified /\ notified'
    BY <1>2, <1>3, <2>1 DEF NoneLeft, OneLeft
  <2>3. ~WorkLeft /\ ~RestLeft /\ RequestScreenLock /\ UNCHANGED timers
    BY <1>4, <1>10, <2>1 DEF HandleSleepRelease
  <2> QED BY <1>8, <2>2, <2>3 DEF Spent
<1>11. CASE HandleSleepLockDone /\ Current
  <2>1. Decides(Head(port)) /\ UNCHANGED workVars
    BY <1>11 DEF HandleSleepLockDone, Receive, Current
  <2>2. ~NoneLeft /\ notified /\ notified'
    BY <1>2, <1>3, <2>1 DEF NoneLeft, OneLeft
  <2> QED BY <1>4, <1>5, <1>7, <2>1, <2>2 DEF Spent
<1>12. ASSUME UNCHANGED <<workVars, fd>> PROVE OneLeft' /\ (Spent => Spent')
  <2>1. NoneLeft => NoneLeft'
    BY <1>3, <1>4, <1>12 DEF NoneLeft
  <2> QED BY <1>3, <1>5, <1>12, <2>1 DEF Spent
<1>13. CASE \/ HandleSleepNotified /\ ~(Current /\ ~notified)
            \/ HandleSleepRelease /\ ~Current
            \/ HandleSleepLockDone /\ ~Current
  <2>1. UNCHANGED <<workVars, fd>>
    BY <1>13 DEF HandleSleepNotified, HandleSleepRelease, HandleSleepLockDone, TypeOK
  <2> QED BY <1>12, <2>1
<1> QED BY <1>9, <1>10, <1>11, <1>13

LEMMA LeftNext ==
  ASSUME TypeOK, ReportsInv, OneLeft, Next
  PROVE  /\ OneLeft'
         /\ Spent /\ ~HandlePrepareForSleep => Spent'
         /\ fd /\ ~fd' => Spent'
<1> USE DEF looperVars, workVars, bridgeVars
<1>0. /\ threads \subseteq Messages /\ timers \subseteq Messages
      /\ port \in Seq(Messages)
  BY DEF TypeOK, Messages, Reports
<1>1. CASE \/ OthersSleep \/ FallAsleep \/ WakeUp \/ CheckInhibit
           \/ AcquireSleepInhibit \/ AcquireFails \/ ProcessPendingSleep
           \/ SleepRefused \/ RequestAges \/ ReleaseEnds
           \/ \E which \in {"suspend", "hibernate"} : HandleRequestSleep(which)
  <2>1. UNCHANGED <<port, cycle, notified, threads, timers>>
    BY <1>1, Idles
  <2>2. fd => fd'
    BY <1>1 DEF OthersSleep, FallAsleep, WakeUp, CheckInhibit,
       AcquireSleepInhibit, AcquireFails, ProcessPendingSleep, SleepRefused,
       RequestAges, ReleaseEnds, HandleRequestSleep
  <2> QED BY <2>1, <2>2 DEF OneLeft, Spent, NoneLeft, Decides
<1>2. ASSUME NEW m \in Messages, port' = Append(port, m),
             UNCHANGED <<cycle, notified, fd>>,
             threads' \subseteq threads, timers' \subseteq timers,
             Decides(m) => m \in (threads \cup timers) \ (threads' \cup timers')
      PROVE  OneLeft' /\ (Spent => Spent') /\ UNCHANGED fd
  BY <1>2, LeftArrives DEF Spent
<1>3. CASE PassSignal
  <2> DEFINE m == [what |-> Head(signals), cycle |-> 0]
  <2>1. Head(signals) \in {"sleep", "resume"}
    BY <1>3, SignalsShrink DEF PassSignal, TypeOK
  <2>2. m \in Messages /\ m.what \notin Reports
    BY <2>1 DEF Messages, Reports, Cycles
  <2>3. m \notin threads /\ m \notin timers /\ ~Decides(m)
    BY <2>2 DEF TypeOK, Reports, Decides
  <2>4. port' = Append(port, m) /\ UNCHANGED <<cycle, notified, fd, threads, timers>>
    BY <1>3 DEF PassSignal
  <2> HIDE DEF m
  <2> QED BY <1>2, <2>2, <2>3, <2>4
<1>4. ASSUME NEW t \in threads, ThreadEnds(t)
      PROVE  OneLeft' /\ (Spent => Spent') /\ UNCHANGED fd
  <2>1. Decides(t) => t \notin timers
    BY DEF OneLeft
  <2> QED BY <1>0, <1>2, <1>4, <2>1 DEF ThreadEnds
<1>5. ASSUME NEW t \in timers, TimerFires(t)
      PROVE  OneLeft' /\ (Spent => Spent') /\ UNCHANGED fd
  <2>1. Decides(t) => t \notin threads
    BY DEF OneLeft
  <2> QED BY <1>0, <1>2, <1>5, <2>1 DEF TimerFires
<1>6. CASE HandlePrepareForSleep \/ HandleResume
  <2>1. NoneLeft'
    BY <1>6, NewCycle
  <2>2. OneLeft'
    BY <2>1 DEF OneLeft, NoneLeft
  <2>3. UNCHANGED fd /\ (HandleResume => UNCHANGED notified)
    BY <1>6 DEF HandlePrepareForSleep, HandleResume
  <2> QED BY <1>6, <2>1, <2>2, <2>3 DEF Spent
<1>7. CASE HandleSleepNotified \/ HandleSleepRelease \/ HandleSleepLockDone
  BY <1>7, LeftHandled
<1> QED
  BY <1>1, <1>3, <1>4, <1>5, <1>6, <1>7 DEF Next, BridgeStep, LooperStep

(* No sleep reaches the looper by its reading. *)
LEMMA NoSleepStays ==
  ASSUME TypeOK, NoSleepComes, Next, ~PassSignal
  PROVE  NoSleepComes' /\ ~HandlePrepareForSleep
<1> USE DEF NoSleepComes
<1>1. ASSUME NEW what, Receive(what) PROVE NoSleepComes' /\ what # "sleep"
  BY <1>1, Taken DEF TypeOK
<1>2. ASSUME NEW t \in threads \cup timers, port' = Append(port, t) PROVE NoSleepComes'
  <2>1. t \in Messages /\ t.what # "sleep"
    BY DEF TypeOK, Messages, Reports
  <2> QED BY <1>2, <2>1, Appended DEF TypeOK
<1>3. ASSUME \/ OthersSleep \/ FallAsleep \/ WakeUp \/ CheckInhibit
             \/ AcquireSleepInhibit \/ AcquireFails \/ ProcessPendingSleep
             \/ SleepRefused \/ RequestAges \/ ReleaseEnds
             \/ \E which \in {"suspend", "hibernate"} : HandleRequestSleep(which)
      PROVE  NoSleepComes'
  <2>1. UNCHANGED port
    BY <1>3, Idles
  <2> QED BY <2>1
<1>4. ASSUME NEW t \in threads \cup timers, ThreadEnds(t) \/ TimerFires(t)
      PROVE  NoSleepComes'
  BY <1>2, <1>4 DEF ThreadEnds, TimerFires
<1>5. ASSUME LooperStep, ~ReleaseEnds PROVE NoSleepComes'
  <2>1. PICK what : Receive(what)
    BY <1>5 DEF LooperStep, HandlePrepareForSleep, HandleResume, HandleSleepNotified,
       HandleSleepRelease, HandleSleepLockDone
  <2> QED BY <1>1, <2>1
<1>6. ~HandlePrepareForSleep
  BY <1>1 DEF HandlePrepareForSleep
<1>7. NoSleepComes'
  BY <1>3, <1>4, <1>5 DEF Next, BridgeStep
<1> QED BY <1>6, <1>7

(* A signal that is passed on is the resume, if that was the only one. *)
LEMMA ResumePassed ==
  ASSUME TypeOK, PassSignal, NoSleepComes, signals = <<"resume">>
  PROVE  NoSleepComes' /\ signals' = <<>> /\ bridge' = "check"
<1> DEFINE m == [what |-> "resume", cycle |-> 0]
<1>1. m \in Messages /\ m.what # "sleep"
  BY DEF Messages, Cycles
<1>2. port' = Append(port, m) /\ signals' = <<>> /\ bridge' = "check"
  BY DEF PassSignal
<1> HIDE DEF m
<1> QED BY <1>1, <1>2, Appended DEF TypeOK, NoSleepComes

LEMMA HarmlessStays ==
  ASSUME TypeOK, ReportsInv, OneLeft, Harmless, Next, ~PassSignal
  PROVE  Harmless'
<1>1. NoSleepComes' /\ ~HandlePrepareForSleep
  BY NoSleepStays DEF Harmless
<1>2. preparing' => preparing
  BY <1>1, Idles DEF Next, BridgeStep, LooperStep, ThreadEnds, TimerFires, HandleResume,
     HandleSleepNotified, HandleSleepRelease, HandleSleepLockDone, looperVars, TypeOK
<1>3. Spent => Spent'
  BY <1>1, LeftNext
<1> QED BY <1>1, <1>2, <1>3 DEF Harmless

(* The looper closes no descriptor that is not its own to close. *)
LEMMA HarmlessHolds ==
  ASSUME TypeOK, ReportsInv, OneLeft, Harmless, Next, fd
  PROVE  fd'
<1> SUFFICES ASSUME ~fd' PROVE FALSE
  BY DEF TypeOK
<1>1. preparing /\ (HandleSleepNotified \/ HandleSleepRelease \/ HandleSleepLockDone)
  BY Released
<1>2. Spent
  BY <1>1 DEF Harmless
<1> QED BY <1>1, <1>2, LeftHandled

LEMMA HeldNext ==
  ASSUME SleepInv, OneLeft, HeldInv, Next PROVE HeldInv'
<1> USE DEF HeldInv, looperVars, workVars, bridgeVars
<1>0. TypeOK /\ ReportsInv /\ NewsInv /\ GuardInv
  BY DEF SleepInv
<1>1. /\ signals \in Seq({"sleep", "resume"})
      /\ logind.phase \in {"idle", "announced", "asleep"}
      /\ fd \in BOOLEAN /\ guarded \in BOOLEAN /\ missed \in BOOLEAN
  BY <1>0 DEF TypeOK
<1>2. ASSUME guarded', ~fd', logind'.phase # "idle" PROVE Spent'
  <2>1. CASE OthersSleep \/ ProcessPendingSleep
    BY <1>1, <1>2, <2>1 DEF OthersSleep, ProcessPendingSleep, Announce
  <2>2. CASE FallAsleep
    <3>1. guarded /\ ~fd /\ logind.phase # "idle"
      BY <1>2, <2>2 DEF FallAsleep
    <3> QED BY <1>0, <2>2, <3>1, LeftNext
         DEF HandlePrepareForSleep, FallAsleep, Receive, TypeOK
  <2>3. CASE WakeUp
    BY <1>0, <1>2, <2>3 DEF WakeUp, TypeOK
  <2>4. CASE ~(OthersSleep \/ ProcessPendingSleep \/ FallAsleep \/ WakeUp)
    <3>1. guarded /\ logind.phase # "idle" /\ Awake
      BY <1>2, <2>4 DEF Next, BridgeStep, LooperStep, PassSignal, CheckInhibit,
         AcquireSleepInhibit, AcquireFails, SleepRefused, ThreadEnds, TimerFires,
         HandleRequestSleep, RequestAges, ReleaseEnds, HandlePrepareForSleep, HandleResume,
         HandleSleepNotified, HandleSleepRelease, HandleSleepLockDone, Receive
    <3>2. CASE fd
      BY <1>0, <1>2, <3>2, LeftNext
    <3>3. CASE ~fd
      <4>1. Spent /\ NoNewsFrom(1) /\ port \in Seq(Messages)
        BY <1>0, <3>1, <3>3 DEF GuardInv, Heard, TypeOK
      <4>2. ~HandlePrepareForSleep
        BY <4>1, Taken DEF HandlePrepareForSleep, NoNewsFrom, News
      <4> QED BY <1>0, <4>1, <4>2, LeftNext
    <3> QED BY <1>1, <3>2, <3>3
  <2> QED BY <2>1, <2>2, <2>3, <2>4
<1>3. ASSUME guarded', logind'.phase = "idle", signals' # <<>> \/ bridge' = "check"
      PROVE  /\ \/ signals' = <<"resume">> /\ bridge' = "idle"
                \/ signals' = <<>> /\ bridge' = "check"
             /\ Harmless'
  <2>1. CASE OthersSleep \/ ProcessPendingSleep \/ FallAsleep
    <3>1. logind'.phase # "idle"
      BY <1>0, <2>1 DEF OthersSleep, ProcessPendingSleep, FallAsleep, Announce, TypeOK
    <3> QED BY <1>3, <3>1
  <2>2. CASE WakeUp
    <3>1. /\ logind.phase = "asleep" /\ guarded
          /\ UNCHANGED <<bridge, fd, port, preparing, threads, timers, cycle, notified>>
          /\ signals' = Append(signals, "resume")
      BY <1>3, <2>2 DEF WakeUp
    <3>2. bridge = "idle" /\ signals = <<>> /\ NoNewsFrom(1) /\ ~fd
      BY <1>0, <3>1 DEF GuardInv, OnTheBus, AtTheLooper, Heard
    <3>3. Spent /\ ~HandlePrepareForSleep
      BY <3>1, <3>2 DEF HandlePrepareForSleep, Receive, Awake
    <3>4. Spent'
      BY <1>0, <3>3, LeftNext
    <3>5. NoSleepComes'
      <4>1. \A i \in DOMAIN port : i \in Nat /\ i >= 1
        BY <1>0, LenProperties DEF TypeOK
      <4> QED BY <3>1, <3>2, <4>1 DEF NoSleepComes, NoNewsFrom, News
    <3>6. signals' = <<"resume">>
      BY <1>1, <3>1, <3>2, SignalsGrow
    <3> QED BY <3>1, <3>2, <3>4, <3>5, <3>6 DEF Harmless
  <2>3. CASE PassSignal
    <3>1. guarded /\ logind.phase = "idle" /\ signals # <<>> /\ bridge = "idle"
          /\ UNCHANGED <<cycle, preparing, notified, threads, timers>>
      BY <1>3, <2>3 DEF PassSignal
    <3>2. signals = <<"resume">> /\ Harmless
      BY <3>1
    <3>3. NoSleepComes' /\ signals' = <<>> /\ bridge' = "check"
      BY <1>0, <2>3, <3>2, ResumePassed DEF Harmless
    <3>4. Spent => Spent'
      BY <1>0, <2>3, <3>1, LeftNext DEF HandlePrepareForSleep, PassSignal
    <3> QED BY <3>1, <3>2, <3>3, <3>4 DEF Harmless
  <2>4. CASE CheckInhibit \/ AcquireSleepInhibit \/ AcquireFails
    <3>1. guarded /\ logind.phase = "idle" /\ UNCHANGED signals /\ bridge' # "check"
          /\ bridge # "idle"
      BY <1>3, <2>4 DEF CheckInhibit, AcquireSleepInhibit, AcquireFails
    <3> QED BY <1>3, <2>4, <3>1 DEF CheckInhibit
  <2>5. CASE ~(\/ OthersSleep \/ ProcessPendingSleep \/ FallAsleep \/ WakeUp
               \/ PassSignal \/ CheckInhibit \/ AcquireSleepInhibit \/ AcquireFails)
    <3>1. UNCHANGED <<guarded, logind, signals, bridge>>
      BY <2>5 DEF Next, BridgeStep, LooperStep, SleepRefused, ThreadEnds, TimerFires,
         HandleRequestSleep, RequestAges, ReleaseEnds, HandlePrepareForSleep, HandleResume,
         HandleSleepNotified, HandleSleepRelease, HandleSleepLockDone
    <3> QED BY <1>0, <1>3, <2>5, <3>1, HarmlessStays
  <2> QED BY <2>1, <2>2, <2>3, <2>4, <2>5
<1>4. ASSUME ~missed', logind'.phase = "idle", signals' = <<>>, bridge' # "check"
      PROVE  Harmless' /\ (fd' \/ bridge' = "acquire")
  <2>1. CASE OthersSleep \/ ProcessPendingSleep \/ FallAsleep
    <3>1. logind'.phase # "idle"
      BY <1>0, <2>1 DEF OthersSleep, ProcessPendingSleep, FallAsleep, Announce, TypeOK
    <3> QED BY <1>4, <3>1
  <2>2. CASE WakeUp
    BY <1>1, <1>4, <2>2, SignalsGrow DEF WakeUp
  <2>3. CASE PassSignal
    <3>1. Hears("resume") /\ signals # <<>>
      BY <1>0, <1>4, <2>3 DEF PassSignal, NewsInv
    <3>2. signals[Len(signals)] = "resume"
      BY <3>1 DEF Hears
    <3>3. signals[Len(signals)] = Head(signals)
      BY <1>1, <1>4, <2>3, <3>1, SignalsShrink DEF PassSignal
    <3> QED BY <1>4, <2>3, <3>2, <3>3 DEF PassSignal
  <2>4. CASE CheckInhibit
    <3>1. /\ guarded /\ ~fd /\ bridge = "check" /\ bridge' = "acquire"
          /\ logind.phase = "idle"
      BY <1>1, <1>4, <2>4 DEF CheckInhibit
    <3>2. Harmless /\ ~PassSignal
      BY <3>1 DEF PassSignal
    <3> QED BY <1>0, <3>1, <3>2, HarmlessStays
  <2>5. CASE ~(\/ OthersSleep \/ ProcessPendingSleep \/ FallAsleep \/ WakeUp
               \/ PassSignal \/ CheckInhibit)
    <3>1. UNCHANGED <<logind, signals>> /\ (~missed' => ~missed)
          /\ (UNCHANGED bridge \/ (AcquireSleepInhibit /\ fd') \/ AcquireFails)
      BY <2>5 DEF Next, BridgeStep, LooperStep, SleepRefused, ThreadEnds, TimerFires,
         HandleRequestSleep, RequestAges, ReleaseEnds, HandlePrepareForSleep, HandleResume,
         HandleSleepNotified, HandleSleepRelease, HandleSleepLockDone,
         AcquireSleepInhibit, AcquireFails
    <3>2. ~AcquireFails
      BY <1>4 DEF AcquireFails
    <3>3. bridge # "check"
      BY <1>4, <3>1, <3>2 DEF AcquireSleepInhibit
    <3>4. Harmless /\ (fd \/ bridge = "acquire")
      BY <1>4, <3>1, <3>3
    <3>5. Harmless'
      BY <1>0, <2>5, <3>4, HarmlessStays
    <3>6. fd => fd'
      BY <1>0, <3>4, HarmlessHolds
    <3> QED BY <3>1, <3>2, <3>4, <3>5, <3>6
  <2> QED BY <2>1, <2>2, <2>3, <2>4, <2>5
<1> QED BY <1>2, <1>3, <1>4
-----------------------------------------------------------------------------
LEMMA InvInit == Init => SleepInv
<1> SUFFICES ASSUME Init PROVE SleepInv
  OBVIOUS
<1>1. TypeOK
  <2>1. signals \in Seq({"sleep", "resume"}) /\ port \in Seq(Messages)
    BY DEF Init
  <2>2. fd \in BOOLEAN
    BY DEF Init
  <2>3. missed \in BOOLEAN
    BY <2>2 DEF Init
  <2>4. logind \in [phase : {"idle", "announced", "asleep"}, sleeps : 0 .. MaxSleeps]
    BY SleepConstants DEF Init
  <2>5. kind \in [hibernate : BOOLEAN, requested : BOOLEAN, fresh : BOOLEAN]
    BY DEF Init
  <2>6. /\ bridge \in {"idle", "check", "acquire"}
        /\ pending \in {"none", "suspend", "hibernate"}
        /\ cycle \in Cycles
    BY DEF Init, Cycles
  <2>7. /\ notified \in BOOLEAN /\ preparing \in BOOLEAN /\ guarded \in BOOLEAN
        /\ closing \in BOOLEAN
    BY DEF Init
  <2>8. threads = {} /\ timers = {} /\ decided = {}
    BY DEF Init
  <2> QED BY <2>1, <2>2, <2>3, <2>4, <2>5, <2>6, <2>7, <2>8 DEF TypeOK
<1>2. DOMAIN port = {}
  BY EmptySeq, LenProperties DEF Init
<1>3. ReportsInv
  BY <1>2 DEF Init, ReportsInv
<1>4. NewsInv /\ GuardInv
  BY <1>2 DEF Init, NewsInv, GuardInv, Hears, LastNews, NoNewsFrom
<1> QED BY <1>1, <1>3, <1>4 DEF SleepInv

LEMMA InvStep == SleepInv /\ [Next]_vars => SleepInv'
<1> SUFFICES ASSUME SleepInv, [Next]_vars PROVE SleepInv'
  OBVIOUS
<1>1. CASE Next
  BY <1>1, TypeNext, ReportsNext, NewsNext, GuardNext DEF SleepInv
<1>2. CASE UNCHANGED vars
  BY <1>2 DEF SleepInv, TypeOK, ReportsInv, OfThisSleep, NewsInv, Hears, LastNews,
     NoNewsFrom, News, GuardInv, OnTheBus, AtTheLooper, Heard, vars, looperVars, workVars,
     bridgeVars
<1> QED BY <1>1, <1>2

(* The inductive invariant holds in every state. *)
THEOREM SleepInvariant == Spec => []SleepInv
BY InvInit, InvStep, PTL DEF Spec

(* Every variable keeps its type, whatever the threads report and when. *)
THEOREM TypeCorrect == Spec => []TypeOK
<1>1. SleepInv => TypeOK
  BY DEF SleepInv
<1> QED BY <1>1, SleepInvariant, PTL

(* A sleep that found the registrar ready and for which logind waited      *)
(* begins only after the lock request of this very cycle has ended.        *)
THEOREM LockBeforeSleep == Spec => []LockDecidedBeforeSleep
<1>1. SleepInv => LockDecidedBeforeSleep
  BY DEF SleepInv, GuardInv, LockDecidedBeforeSleep
<1> QED BY <1>1, SleepInvariant, PTL

(* No late report, timer or answer of another cycle makes the looper close *)
(* the inhibitor.                                                          *)
THEOREM NoForeignRelease == Spec => ReleasedOnlyInItsCycle
<1>1. ASSUME SleepInv, [Next]_vars
      PROVE  [fd /\ ~fd' => preparing /\ cycle \in decided']_vars
  BY <1>1, Released DEF SleepInv
<1> QED BY <1>1, SleepInvariant, PTL DEF Spec, ReleasedOnlyInItsCycle

(* After a resume the registrar has the inhibitor again: no late report    *)
(* of the last cycle closes what the bridge has just taken, unless logind  *)
(* refused it or did not wait for that cycle.                              *)
THEOREM HeldAfterResume == Spec => []HeldForNextSleep
<1>1. Init => OneLeft /\ HeldInv
  <2> SUFFICES ASSUME Init PROVE OneLeft /\ HeldInv
    OBVIOUS
  <2>1. DOMAIN port = {}
    BY EmptySeq, LenProperties DEF Init
  <2>2. NoneLeft /\ NoSleepComes /\ threads = {} /\ timers = {}
    BY <2>1 DEF NoneLeft, NoSleepComes, Init
  <2> QED
    BY <2>1, <2>2 DEF Init, OneLeft, HeldInv, Harmless
<1>2. SleepInv /\ OneLeft /\ HeldInv /\ [Next]_vars => (OneLeft /\ HeldInv)'
  <2> SUFFICES ASSUME SleepInv, OneLeft, HeldInv, [Next]_vars
               PROVE  (OneLeft /\ HeldInv)'
    OBVIOUS
  <2>1. CASE Next
    BY <2>1, LeftNext, HeldNext DEF SleepInv
  <2>2. CASE UNCHANGED vars
    BY <2>2 DEF OneLeft, NoneLeft, HeldInv, Harmless, NoSleepComes, Spent, Decides,
       vars, looperVars, workVars, bridgeVars
  <2> QED BY <2>1, <2>2
<1>3. HeldInv => HeldForNextSleep
  BY DEF HeldInv, HeldForNextSleep, Settled
<1> QED BY <1>1, <1>2, <1>3, SleepInvariant, PTL DEF Spec

-----------------------------------------------------------------------------
(* What the looper waits for in a cycle: a notifier, a lock thread or a    *)
(* timer will report it, or it is in the port.                             *)
Due(what) ==
  LET report == [what |-> what, cycle |-> cycle]
  IN \/ report \in threads \cup timers
     \/ \E i \in DOMAIN port : port[i] = report
NextDue == IF notified THEN Due("release") \/ Due("lockDone") ELSE Due("notified")

(* Nothing is to do for a sleep only when it has lost its inhibitor.  The  *)
(* bridge takes one back only after it has passed on the resume.           *)
DueInv ==
  /\ bridge # "idle" => LastNews("resume")
  /\ preparing /\ fd /\ NoNewsFrom(1) => NextDue

LEMMA DueStays ==
  ASSUME TypeOK, NEW what \in Reports, Due(what), UNCHANGED cycle,
         \/ /\ threads \subseteq threads' /\ timers \subseteq timers'
            /\ \/ UNCHANGED port
               \/ \E w : /\ Receive(w)
                         /\ port[1].what # what \/ port[1].cycle # cycle
         \/ \E t \in threads \cup timers :
              /\ threads' \cup timers' \cup {t} = threads \cup timers \cup {t}
              /\ port' = Append(port, t)
  PROVE  Due(what)'
<1> DEFINE report == [what |-> what, cycle |-> cycle]
<1>1. report.what = what /\ report.cycle = cycle /\ report' = report
  OBVIOUS
<1>2. Due(what) <=> \/ report \in threads \cup timers
                    \/ \E i \in DOMAIN port : port[i] = report
  BY DEF Due
<1>3. Due(what)' <=> \/ report \in threads' \cup timers'
                     \/ \E i \in DOMAIN port' : port'[i] = report
  BY DEF Due
<1> HIDE DEF report
<1>4. CASE threads \subseteq threads' /\ timers \subseteq timers' /\ UNCHANGED port
  BY <1>2, <1>3, <1>4
<1>5. ASSUME NEW w, Receive(w), port[1].what # what \/ port[1].cycle # cycle,
             threads \subseteq threads', timers \subseteq timers'
      PROVE  Due(what)'
  <2>1. ASSUME NEW i \in DOMAIN port, port[i] = report
        PROVE  i - 1 \in DOMAIN port' /\ port'[i - 1] = report
    <3>1. i # 1
      BY <1>1, <1>5, <2>1
    <3>2. /\ DOMAIN port = 1 .. Len(port) /\ Len(port) \in Nat
          /\ DOMAIN port' = 1 .. Len(port) - 1
          /\ \A j \in DOMAIN port' : port'[j] = port[j + 1]
      BY <1>5, PortShrinks DEF TypeOK
    <3>3. i \in 1 .. Len(port)
      BY <3>2, Zenon
    <3>4. i - 1 \in 1 .. Len(port) - 1 /\ (i - 1) + 1 = i
      <4>1. \A n \in Nat : \A k \in 1 .. n : k # 1 =>
              k - 1 \in 1 .. n - 1 /\ (k - 1) + 1 = k
        OBVIOUS
      <4> QED BY <3>1, <3>2, <3>3, <4>1, Zenon
    <3> QED BY <2>1, <3>2, <3>4
  <2> QED BY <1>2, <1>3, <1>5, <2>1
<1>6. ASSUME NEW t \in threads \cup timers,
             threads' \cup timers' \cup {t} = threads \cup timers \cup {t},
             port' = Append(port, t)
      PROVE  Due(what)'
  <2>1. t \in Messages
    BY DEF TypeOK, Messages, Reports
  <2>2. /\ DOMAIN port = 1 .. Len(port) /\ Len(port) \in Nat
        /\ DOMAIN port' = 1 .. Len(port) + 1
        /\ \A i \in DOMAIN port : port'[i] = port[i]
        /\ port'[Len(port) + 1] = t
    BY <1>6, <2>1, PortGrows DEF TypeOK
  <2>3. Len(port) + 1 \in DOMAIN port'
    BY <2>2
  <2>4. CASE report = t
    BY <1>3, <2>2, <2>3, <2>4
  <2>5. CASE report # t /\ report \in threads \cup timers
    BY <1>3, <1>6, <2>5
  <2>6. ASSUME NEW i \in DOMAIN port, port[i] = report
        PROVE  i \in DOMAIN port' /\ port'[i] = report
    BY <2>2, <2>6
  <2> QED BY <1>2, <1>3, <2>4, <2>5, <2>6
<1> QED BY <1>4, <1>5, <1>6

(* The looper reads a report: it passes the cycle on, or it was no news.   *)
LEMMA DueHandled ==
  ASSUME TypeOK, NextDue, fd',
         HandleSleepNotified \/ HandleSleepRelease \/ HandleSleepLockDone
  PROVE  NextDue'
<1> USE DEF workVars, looperVars
<1>1. PICK w \in Reports : Receive(w)
  BY DEF HandleSleepNotified, HandleSleepRelease, HandleSleepLockDone, Reports
<1>2. Head(port) = port[1] /\ port[1].what = w
  BY <1>1, Taken DEF TypeOK
<1>3. /\ UNCHANGED cycle /\ (notified => notified')
      /\ threads \subseteq threads' /\ timers \subseteq timers'
  BY DEF HandleSleepNotified, HandleSleepRelease, HandleSleepLockDone,
     RequestScreenLock, TypeOK
<1>4. ASSUME NEW what \in Reports, Due(what), ~(w = what /\ Current) PROVE Due(what)'
  <2>1. port[1].what # what \/ port[1].cycle # cycle
    BY <1>2, <1>4 DEF Current
  <2> QED BY <1>1, <1>3, <1>4, <2>1, DueStays
<1>5. RequestScreenLock => Due("lockDone")'
  BY <1>3 DEF RequestScreenLock, ReleaseSleepInhibit, Due
<1>6. CASE w = "notified" /\ Current /\ ~notified
  <2>1. HandleSleepNotified /\ notified'
    BY <1>1, <1>2, <1>6 DEF HandleSleepNotified, HandleSleepRelease,
       HandleSleepLockDone, Receive
  <2>2. CASE kind.hibernate
    BY <1>5, <1>6, <2>1, <2>2 DEF HandleSleepNotified, NextDue
  <2>3. CASE ~kind.hibernate
    <3>1. [what |-> "release", cycle |-> cycle] \in timers'
      BY <1>6, <2>1, <2>3 DEF HandleSleepNotified
    <3> QED BY <1>3, <2>1, <3>1 DEF NextDue, Due
  <2> QED BY <2>2, <2>3
<1>7. CASE ~(w = "notified" /\ Current /\ ~notified) /\ ~notified
  <2>1. UNCHANGED notified
    BY <1>1, <1>2, <1>7 DEF HandleSleepNotified, HandleSleepRelease,
       HandleSleepLockDone, Receive
  <2>2. "notified" \in Reports
    BY DEF Reports
  <2> QED BY <1>4, <1>7, <2>1, <2>2 DEF NextDue
<1>8. CASE notified
  <2>1. notified' /\ {"release", "lockDone"} \subseteq Reports
    BY <1>3, <1>8 DEF Reports
  <2>2. CASE w = "release" /\ Current
    BY <1>1, <1>2, <1>5, <2>1, <2>2 DEF HandleSleepNotified, HandleSleepRelease,
       HandleSleepLockDone, Receive, NextDue
  <2>3. ~(w = "lockDone" /\ Current)
    BY <1>1, <1>2 DEF HandleSleepNotified, HandleSleepRelease, HandleSleepLockDone,
       ReleaseSleepInhibit, Receive
  <2> QED BY <1>4, <1>8, <2>1, <2>2, <2>3 DEF NextDue
<1> QED BY <1>6, <1>7, <1>8

LEMMA DueNext == ASSUME SleepInv, DueInv, Next PROVE DueInv'
<1> USE DEF DueInv, looperVars, workVars, bridgeVars
<1>0. /\ TypeOK /\ NewsInv
      /\ threads \subseteq Messages /\ timers \subseteq Messages
      /\ \A t \in threads \cup timers : t.what \in Reports
  BY DEF SleepInv, TypeOK, Messages, Reports
<1>1. CASE \/ OthersSleep \/ FallAsleep \/ WakeUp \/ CheckInhibit
           \/ AcquireSleepInhibit \/ AcquireFails \/ ProcessPendingSleep
           \/ SleepRefused \/ RequestAges \/ ReleaseEnds
           \/ \E which \in {"suspend", "hibernate"} : HandleRequestSleep(which)
  <2>1. UNCHANGED <<port, cycle, notified, preparing, threads, timers>>
    BY <1>1, Idles
  <2>2. bridge' # "idle" => bridge # "idle"
    BY <1>1 DEF OthersSleep, FallAsleep, WakeUp, CheckInhibit, AcquireSleepInhibit,
       AcquireFails, ProcessPendingSleep, SleepRefused, RequestAges, ReleaseEnds, HandleRequestSleep
  <2>3. fd' => fd \/ bridge = "acquire"
    BY <1>1 DEF OthersSleep, FallAsleep, WakeUp, CheckInhibit, AcquireSleepInhibit,
       AcquireFails, ProcessPendingSleep, SleepRefused, RequestAges, ReleaseEnds, HandleRequestSleep
  <2>4. bridge = "acquire" => ~(preparing /\ NoNewsFrom(1))
    <3>1. ASSUME NEW i \in DOMAIN port, port[i].what = "resume" PROVE ~NoNewsFrom(1)
      <4>1. i >= 1
        BY <1>0, LenProperties DEF TypeOK
      <4> QED BY <3>1, <4>1 DEF NoNewsFrom, News
    <3> QED BY <3>1 DEF LastNews
  <2> QED BY <2>1, <2>2, <2>3, <2>4 DEF LastNews, NoNewsFrom, News, NextDue, Due
<1>2. CASE PassSignal
  <2> DEFINE m == [what |-> Head(signals), cycle |-> 0]
  <2>1. Head(signals) \in {"sleep", "resume"}
    BY <1>0, <1>2, SignalsShrink DEF PassSignal, TypeOK
  <2>2. m \in Messages /\ m.what = Head(signals)
    BY <2>1 DEF Messages, Cycles
  <2>3. port' = Append(port, m) /\ (bridge' # "idle" => m.what = "resume")
    BY <1>2 DEF PassSignal
  <2> HIDE DEF m
  <2> DEFINE k == Len(port) + 1
  <2>4. /\ k \in DOMAIN port' /\ k >= 1 /\ port'[k] = m
        /\ \A i \in DOMAIN port' : ~(i >= k + 1)
    BY <1>0, <2>2, <2>3, PortGrows DEF TypeOK
  <2> HIDE DEF k
  <2>5. ~NoNewsFrom(1)'
    BY <2>1, <2>2, <2>4 DEF NoNewsFrom, News
  <2>6. bridge' # "idle" => LastNews("resume")'
    BY <2>3, <2>4 DEF LastNews, NoNewsFrom
  <2> QED BY <2>5, <2>6
<1>3. ASSUME NEW t \in threads \cup timers, ThreadEnds(t) \/ TimerFires(t)
      PROVE  DueInv'
  <2>1. /\ port' = Append(port, t) /\ t \in Messages /\ t.what \in Reports
        /\ threads' \cup timers' \cup {t} = threads \cup timers \cup {t}
        /\ UNCHANGED <<signals, bridge, fd, cycle, notified, preparing>>
    BY <1>0, <1>3 DEF ThreadEnds, TimerFires
  <2>2. /\ NoNewsFrom(1)' => NoNewsFrom(1)
        /\ LastNews("resume") => LastNews("resume")'
    BY <1>0, <2>1, ReportComes
  <2>3. \A what \in Reports : Due(what) => Due(what)'
    BY <1>0, <2>1, DueStays
  <2>4. NextDue => NextDue'
    BY <2>1, <2>3 DEF NextDue, Reports
  <2> QED BY <2>1, <2>2, <2>4
<1>4. CASE HandlePrepareForSleep \/ HandleResume
  <2>1. \E w \in {"sleep", "resume"} : Receive(w) /\ (preparing' <=> w = "sleep")
    BY <1>4 DEF HandlePrepareForSleep, HandleResume
  <2>2. UNCHANGED <<signals, bridge>>
    BY <1>4 DEF HandlePrepareForSleep, HandleResume
  <2>3. LastNews("resume") => LastNews("resume")'
    BY <1>0, <2>1, <2>2, NewsHeard
  <2>4. CASE HandlePrepareForSleep
    <3>1. [what |-> "notified", cycle |-> cycle'] \in timers' /\ ~notified'
      BY <2>4 DEF HandlePrepareForSleep
    <3>2. NextDue'
      BY <3>1 DEF NextDue, Due
    <3> QED BY <2>2, <2>3, <3>2
  <2>5. CASE HandleResume
    <3>1. ~preparing'
      BY <2>5 DEF HandleResume
    <3> QED BY <2>2, <2>3, <3>1
  <2> QED BY <1>4, <2>4, <2>5
<1>5. CASE HandleSleepNotified \/ HandleSleepRelease \/ HandleSleepLockDone
  <2>1. \E w \in Reports : Receive(w)
    BY <1>5 DEF HandleSleepNotified, HandleSleepRelease, HandleSleepLockDone, Reports
  <2>2. UNCHANGED <<signals, bridge, preparing>> /\ (fd' => fd)
    BY <1>5 DEF HandleSleepNotified, HandleSleepRelease, HandleSleepLockDone,
       RequestScreenLock, ReleaseSleepInhibit
  <2>3. /\ NoNewsFrom(1)' => NoNewsFrom(1)
        /\ LastNews("resume") => LastNews("resume")'
    BY <1>0, <2>1, <2>2, ReportGoes
  <2>4. NextDue /\ fd' => NextDue'
    BY <1>0, <1>5, DueHandled
  <2> QED BY <2>2, <2>3, <2>4
<1> QED
  BY <1>1, <1>2, <1>3, <1>4, <1>5 DEF Next, BridgeStep, LooperStep

(* A sleep that logind holds back for the registrar is on its way to the   *)
(* looper, or what the looper waits for will come: the applications'       *)
(* answer or the backstop, the delay, the answer about the lock.           *)
SleepIsUnderWay ==
  logind.phase # "idle" /\ fd =>
    \/ signals # <<>> /\ signals[Len(signals)] = "sleep"
    \/ \E i \in DOMAIN port : port[i].what = "sleep"
    \/ NextDue

(* What SleepGoesOn rests on, with every mishap: no report that is late,   *)
(* lost or taken for another makes the registrar forget its inhibitor.     *)
THEOREM NoSleepIsForgotten == Spec => []SleepIsUnderWay
<1>1. Init => DueInv
  BY DEF Init, DueInv
<1>2. SleepInv /\ DueInv /\ [Next]_vars => DueInv'
  <2> SUFFICES ASSUME SleepInv, DueInv, [Next]_vars PROVE DueInv'
    OBVIOUS
  <2>1. CASE UNCHANGED vars
    BY <2>1 DEF DueInv, LastNews, NoNewsFrom, News, NextDue, Due, vars, looperVars,
       workVars, bridgeVars
  <2> QED BY <2>1, DueNext
<1>3. SleepInv /\ DueInv => SleepIsUnderWay
  BY DEF SleepInv, NewsInv, Hears, LastNews, DueInv, SleepIsUnderWay
<1> QED BY <1>1, <1>2, <1>3, SleepInvariant, PTL DEF Spec
=============================================================================
