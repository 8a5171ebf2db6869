------------------------------ MODULE SleepCycle ------------------------------
(***************************************************************************)
(* A sleep as the registrar sees it.  It holds a delay inhibitor of logind *)
(* (a descriptor, fSleepFd), tells the applications, has janus lock the    *)
(* screen and then gives the inhibitor up (servers/registrar/              *)
(* Registrar.cpp); the bridge thread passes logind's signals on and takes  *)
(* the inhibitor again after a resume (servers/registrar/LogindBridge.cpp).*)
(*                                                                         *)
(* The looper of the registrar, the bridge thread, one notifier and one    *)
(* lock thread for each cycle, and the timer thread run side by side;      *)
(* nothing runs while the machine sleeps.  The windows that the registrar  *)
(* shows are left out, and so is what the applications do with the news.   *)
(* logind is external: it announces a sleep, waits for the inhibitor, not  *)
(* for ever, sleeps, and announces the resume.                             *)
(***************************************************************************)
EXTENDS Naturals, SequencesExt

CONSTANTS
  MaxSleeps,  \* bound: the sleeps that logind announces
  Events      \* the mishaps that an instance considers

ASSUME SleepConstants ==
  /\ MaxSleeps \in Nat
  /\ Events \subseteq {"delayExpires", "noThread", "inhibitFails", "refused"}

VARIABLES
  logind,     \* what logind is doing, and the sleeps it has announced
  signals,    \* PrepareForSleep signals on the bus
  bridge,     \* place of the bridge thread
  pending,    \* fPendingSleep
  fd,         \* the descriptor of fSleepFd is open: logind sees the inhibitor
  closing,    \* the looper has closed it, and fSleepFd still names it
  port,       \* messages that wait for the looper of the registrar
  cycle,      \* fSleepCycle
  kind,       \* fSleepHibernate, fSleepRequestHibernate, and whether
              \* fSleepRequestTime is younger than kSleepRequestValidity
  notified,   \* fSleepNotified
  threads,    \* notifiers and lock threads that run
  timers,     \* events of the queue of the timer thread
  preparing,  \* history: the looper last heard of a sleep, not of a resume
  decided,    \* history: the cycles whose lock request has ended
  guarded,    \* history: the announced sleep found the registrar ready
  missed      \* history: no inhibitor is promised since the last resume

bridgeVars == <<bridge, pending>>
looperVars == <<cycle, kind, notified, preparing, closing>>
workVars == <<threads, timers>>
vars == <<logind, signals, bridgeVars, fd, port, looperVars, workVars, decided,
          guarded, missed>>

Cycles == Nat
Reports == {"notified", "release", "lockDone"}
Messages == [what : Reports \cup {"sleep", "resume"}, cycle : Cycles]

TypeOK ==
  /\ logind \in [phase : {"idle", "announced", "asleep"}, sleeps : 0 .. MaxSleeps]
  /\ signals \in Seq({"sleep", "resume"})
  /\ bridge \in {"idle", "check", "acquire"}
  /\ pending \in {"none", "suspend", "hibernate"}
  /\ fd \in BOOLEAN /\ closing \in BOOLEAN
  /\ port \in Seq(Messages)
  /\ cycle \in Cycles
  /\ kind \in [hibernate : BOOLEAN, requested : BOOLEAN, fresh : BOOLEAN]
  /\ notified \in BOOLEAN
  /\ threads \subseteq [what : {"notified", "lockDone"}, cycle : Cycles]
  /\ timers \subseteq [what : {"notified", "release"}, cycle : Cycles]
  /\ preparing \in BOOLEAN
  /\ decided \subseteq Cycles
  /\ guarded \in BOOLEAN /\ missed \in BOOLEAN

(* Start() goes on without the inhibitor if it cannot have it. *)
Init ==
  /\ logind = [phase |-> "idle", sleeps |-> 0]
  /\ signals = <<>> /\ bridge = "idle" /\ pending = "none"
  /\ fd \in IF "inhibitFails" \in Events THEN BOOLEAN ELSE {TRUE}
  /\ port = <<>>
  /\ cycle = 0
  /\ kind = [hibernate |-> FALSE, requested |-> FALSE, fresh |-> FALSE]
  /\ notified = FALSE
  /\ threads = {} /\ timers = {}
  /\ preparing = FALSE /\ decided = {} /\ guarded = FALSE
  /\ closing = FALSE
  /\ missed = ~fd

Awake == logind.phase # "asleep"

-----------------------------------------------------------------------------
(* logind. *)

(* No news of an earlier sleep is on its way to the looper. *)
Settled ==
  /\ signals = <<>> /\ bridge = "idle"
  /\ \A i \in DOMAIN port : port[i].what \notin {"sleep", "resume"}

Announce ==
  /\ logind.phase = "idle" /\ logind.sleeps < MaxSleeps
  /\ logind' = [phase |-> "announced", sleeps |-> logind.sleeps + 1]
  /\ signals' = Append(signals, "sleep")
  /\ guarded' = (fd /\ Settled)

(* The lid, the idle timer, systemctl. *)
OthersSleep ==
  /\ Announce
  /\ UNCHANGED <<bridgeVars, fd, port, looperVars, workVars, decided, missed>>

(* Without inhibitor, or after InhibitDelayMaxSec. *)
FallAsleep ==
  /\ logind.phase = "announced"
  /\ fd => "delayExpires" \in Events
  /\ logind' = [logind EXCEPT !.phase = "asleep"]
  /\ guarded' = (guarded /\ ~fd)
  /\ UNCHANGED <<signals, bridgeVars, fd, port, looperVars, workVars, decided,
                 missed>>

WakeUp ==
  /\ logind.phase = "asleep"
  /\ logind' = [logind EXCEPT !.phase = "idle"]
  /\ signals' = Append(signals, "resume")
  /\ UNCHANGED <<bridgeVars, fd, port, looperVars, workVars, decided, guarded,
                 missed>>

-----------------------------------------------------------------------------
(* The bridge thread, _ThreadLoop(). *)

PassSignal ==
  /\ Awake
  /\ bridge = "idle" /\ signals # <<>>
  /\ signals' = Tail(signals)
  /\ port' = Append(port, [what |-> Head(signals), cycle |-> 0])
  /\ bridge' = IF Head(signals) = "resume" THEN "check" ELSE "idle"
  /\ UNCHANGED <<logind, pending, fd, looperVars, workVars, decided, guarded, missed>>

(* fSleepFd is read with no lock held: the looper may close it next, or    *)
(* have closed it.                                                         *)
CheckInhibit ==
  /\ Awake
  /\ bridge = "check"
  /\ bridge' = IF fd \/ closing THEN "idle" ELSE "acquire"
  /\ missed' = (fd \/ closing \/ ~guarded)
  /\ UNCHANGED <<logind, signals, pending, fd, port, looperVars, workVars, decided,
                 guarded>>

AcquireSleepInhibit ==
  /\ Awake
  /\ bridge = "acquire"
  /\ bridge' = "idle"
  /\ fd' = TRUE
  /\ UNCHANGED <<logind, signals, pending, port, looperVars, workVars, decided,
                 guarded, missed>>

(* logind gives no inhibitor for a sleep that is under way. *)
AcquireFails ==
  /\ Awake
  /\ bridge = "acquire"
  /\ logind.phase = "announced" \/ "inhibitFails" \in Events
  /\ bridge' = "idle"
  /\ missed' = TRUE
  /\ UNCHANGED <<logind, signals, pending, fd, port, looperVars, workVars, decided,
                 guarded>>

(* _ProcessPendingSleep(): logind accepts, or not. *)
ProcessPendingSleep ==
  /\ Awake
  /\ bridge = "idle" /\ pending # "none"
  /\ Announce
  /\ pending' = "none"
  /\ UNCHANGED <<bridge, fd, port, looperVars, workVars, decided, missed>>

SleepRefused ==
  /\ Awake
  /\ "refused" \in Events \/ logind.phase = "announced" \/ logind.sleeps = MaxSleeps
  /\ bridge = "idle" /\ pending # "none"
  /\ pending' = "none"
  /\ UNCHANGED <<logind, signals, bridge, fd, port, looperVars, workVars, decided,
                 guarded, missed>>

-----------------------------------------------------------------------------
(* The other threads report to the looper. *)

(* notify_apps(): every application has answered or is out of time;        *)
(* sleep_lock_thread(): janus has answered, or is out of time, or is gone. *)
ThreadEnds(t) ==
  /\ Awake
  /\ t \in threads
  /\ threads' = threads \ {t}
  /\ port' = Append(port, t)
  /\ decided' = IF t.what = "lockDone" THEN decided \cup {t.cycle} ELSE decided
  /\ UNCHANGED <<logind, signals, bridgeVars, fd, looperVars, timers, guarded,
                 missed>>

TimerFires(t) ==
  /\ Awake
  /\ t \in timers
  /\ timers' = timers \ {t}
  /\ port' = Append(port, t)
  /\ UNCHANGED <<logind, signals, bridgeVars, fd, looperVars, threads, decided,
                 guarded, missed>>

-----------------------------------------------------------------------------
(* The looper of the registrar. *)

(* _HandleRequestSleep() and LogindBridge::_RequestSleep(). *)
HandleRequestSleep(which) ==
  /\ Awake /\ ~closing
  /\ pending' = which
  /\ kind' = [kind EXCEPT !.requested = (which = "hibernate"), !.fresh = TRUE]
  /\ UNCHANGED <<logind, signals, bridge, fd, closing, port, cycle, notified,
                 preparing, workVars, decided, guarded, missed>>

(* kSleepRequestValidity has passed. *)
RequestAges ==
  /\ Awake
  /\ kind.fresh
  /\ kind' = [kind EXCEPT !.fresh = FALSE]
  /\ UNCHANGED <<logind, signals, bridgeVars, fd, closing, port, cycle, notified,
                 preparing, workVars, decided, guarded, missed>>

Receive(what) ==
  /\ Awake /\ ~closing
  /\ port # <<>> /\ Head(port).what = what
  /\ port' = Tail(port)

(* ReleaseSleepInhibit() as far as close(), and its assignment to fSleepFd; *)
(* the machine may fall asleep in between.                                 *)
ReleaseSleepInhibit == fd' = FALSE /\ closing' = fd

ReleaseEnds ==
  /\ Awake
  /\ closing
  /\ closing' = FALSE
  /\ UNCHANGED <<logind, signals, bridgeVars, fd, port, cycle, kind, notified,
                 preparing, workVars, decided, guarded, missed>>

(* _NotifySleep() may find no thread; the backstop then reports alone. *)
HandlePrepareForSleep ==
  /\ Receive("sleep")
  /\ cycle' = cycle + 1
  /\ preparing' = TRUE
  /\ kind' = [kind EXCEPT !.hibernate = kind.requested /\ kind.fresh, !.fresh = FALSE]
  /\ notified' = FALSE
  /\ LET report == [what |-> "notified", cycle |-> cycle + 1]
     IN /\ threads' \in {threads \cup {report}}
                        \cup (IF "noThread" \in Events THEN {threads} ELSE {})
        /\ timers' = timers \cup {report}
  /\ UNCHANGED <<logind, signals, bridgeVars, fd, closing, decided, guarded, missed>>

(* Mutant: a resume does not begin a cycle. *)
HandleResumeSameCycle ==
  /\ Receive("resume")
  /\ preparing' = FALSE
  /\ UNCHANGED <<logind, signals, bridgeVars, fd, closing, cycle, kind, notified,
                 workVars, decided, guarded, missed>>

HandleResume ==
  /\ Receive("resume")
  /\ cycle' = cycle + 1
  /\ preparing' = FALSE
  /\ UNCHANGED <<logind, signals, bridgeVars, fd, closing, kind, notified, workVars,
                 decided, guarded, missed>>

Current == Head(port).cycle = cycle

(* Mutant: an unlucky thread creation is only logged. *)
RequestScreenLockOrKeep ==
  \/ /\ threads' = threads \cup {[what |-> "lockDone", cycle |-> cycle]}
     /\ UNCHANGED <<fd, closing, decided>>
  \/ /\ "noThread" \in Events
     /\ UNCHANGED <<threads, fd, closing, decided>>

(* _RequestScreenLockForSleep(); with no thread for it, the inhibitor is   *)
(* given up at once.                                                       *)
RequestScreenLock ==
  \/ /\ threads' = threads \cup {[what |-> "lockDone", cycle |-> cycle]}
     /\ UNCHANGED <<fd, closing, decided>>
  \/ /\ "noThread" \in Events
     /\ ReleaseSleepInhibit
     /\ decided' = decided \cup {cycle}
     /\ UNCHANGED threads

(* Mutant: every report counts. *)
HandleEveryNotice ==
  /\ Receive("notified")
  /\ IF Current
     THEN /\ notified' = TRUE
          /\ IF kind.hibernate
             THEN RequestScreenLock /\ UNCHANGED timers
             ELSE /\ timers' = timers \cup {[what |-> "release", cycle |-> cycle]}
                  /\ UNCHANGED <<threads, fd, closing, decided>>
     ELSE UNCHANGED <<notified, workVars, fd, closing, decided>>
  /\ UNCHANGED <<logind, signals, bridgeVars, cycle, kind, preparing, guarded,
                 missed>>

(* The notifier and the backstop both report; the first counts. *)
HandleSleepNotified ==
  /\ Receive("notified")
  /\ IF Current /\ ~notified
     THEN /\ notified' = TRUE
          /\ IF kind.hibernate
             THEN RequestScreenLock /\ UNCHANGED timers
             ELSE /\ timers' = timers \cup {[what |-> "release", cycle |-> cycle]}
                  /\ UNCHANGED <<threads, fd, closing, decided>>
     ELSE UNCHANGED <<notified, workVars, fd, closing, decided>>
  /\ UNCHANGED <<logind, signals, bridgeVars, cycle, kind, preparing, guarded,
                 missed>>

HandleSleepRelease ==
  /\ Receive("release")
  /\ IF Current THEN RequestScreenLock ELSE UNCHANGED <<threads, fd, closing, decided>>
  /\ UNCHANGED <<logind, signals, bridgeVars, cycle, kind, notified, preparing, timers,
                 guarded, missed>>

(* Mutant: an answer of any cycle counts. *)
HandleAnyLockDone ==
  /\ Receive("lockDone")
  /\ ReleaseSleepInhibit
  /\ UNCHANGED <<logind, signals, bridgeVars, cycle, kind, notified, preparing,
                 workVars, decided, guarded, missed>>

HandleSleepLockDone ==
  /\ Receive("lockDone")
  /\ IF Current THEN ReleaseSleepInhibit ELSE UNCHANGED <<fd, closing>>
  /\ UNCHANGED <<logind, signals, bridgeVars, cycle, kind, notified, preparing,
                 workVars, decided, guarded, missed>>

LooperStep ==
  \/ HandlePrepareForSleep \/ HandleResume
  \/ HandleSleepNotified \/ HandleSleepRelease \/ HandleSleepLockDone
  \/ ReleaseEnds

BridgeStep ==
  \/ PassSignal
  \/ CheckInhibit \/ AcquireSleepInhibit \/ AcquireFails
  \/ ProcessPendingSleep \/ SleepRefused

Next ==
  \/ OthersSleep \/ FallAsleep \/ WakeUp
  \/ BridgeStep
  \/ \E t \in threads : ThreadEnds(t)
  \/ \E t \in timers : TimerFires(t)
  \/ \E which \in {"suspend", "hibernate"} : HandleRequestSleep(which)
  \/ RequestAges
  \/ LooperStep

Spec == Init /\ [][Next]_vars

(* Threads run, timers fire, and a machine that sleeps wakes up.  Nothing  *)
(* makes logind's delay expire, and nobody has to ask for a sleep.         *)
FairSpec ==
  /\ Spec
  /\ WF_vars(WakeUp)
  /\ WF_vars(PassSignal) /\ WF_vars(CheckInhibit)
  /\ WF_vars(LooperStep)
  /\ WF_vars(\E t \in threads : ThreadEnds(t))
  /\ WF_vars(\E t \in timers : TimerFires(t))

-----------------------------------------------------------------------------
(* The machine sleeps only after janus was asked to lock the screen for    *)
(* this very sleep and has answered, failed or could not be asked.  That   *)
(* is promised when the registrar had the inhibitor and the last resume    *)
(* behind it when logind announced the sleep, and logind did wait.         *)
LockDecidedBeforeSleep ==
  logind.phase = "asleep" /\ guarded => preparing /\ cycle \in decided

(* The looper gives the inhibitor up only for the sleep it prepares and    *)
(* only after the lock request of this cycle: reports of an earlier cycle, *)
(* or of one that was called off, leave it alone.                          *)
ReleasedOnlyInItsCycle ==
  [][fd /\ ~fd' => preparing /\ cycle \in decided']_vars

(* After a resume the registrar has the inhibitor for the next sleep,      *)
(* unless logind refused it or had not waited for the last cycle: the      *)
(* looper may then close, for that cycle, the descriptor that the bridge   *)
(* found open or has just taken again; or when the bridge found the number *)
(* of a descriptor that the looper had closed.                             *)
HeldForNextSleep ==
  logind.phase = "idle" /\ Settled => fd \/ missed

(* logind never has to wait out its delay: an announced sleep loses its    *)
(* inhibitor, also if the notifier or the lock thread cannot run.          *)
SleepGoesOn == (logind.phase = "announced") ~> (logind.phase # "announced" \/ ~fd)
=============================================================================
