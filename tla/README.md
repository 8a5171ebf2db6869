# A TLA+ model of Vitruvian's session layer

Vitruvian runs Haiku's userland on Linux. Most of it descends from Haiku; what
is its own is the layer that turns a Linux machine into a BeOS-like desktop:
`janus`, the root supervisor that owns logins, the screen lock and the registry
of servers; `janus_session`, one per login, that owns the seat; the parts of
app_server and of the registrar that talk to them; and `libroot2`, the runtime
on top of the nexus kernel module. This directory models that layer in TLA+,
checks it with TLC, and proves its safety properties with TLAPS.

Paths below are relative to the repository. Every definition that models code
has its source lines in `PROJECT.json` under `map`.

## 1. Inventory

### The parts and how they meet

| Part | State | Operations | Meets |
|---|---|---|---|
| `janus` session manager (`servers/janus/janus.cpp`) | `sSession`, `sAuthenticatedUser`, `sShuttingDown`, `sShutdownInFlight`, one detached thread per session change | AUTH, LOGIN_OK, LOGOUT, HELLO, shutdown handover, SIGTERM, PrepareForShutdown | greeter, registrar, janus_session over the launch daemon port; `kill`/`waitpid` |
| `janus` screen lock (same file) | `sScreenLocked`, `sUnlockAppPid`, rate limit | LOCK_SESSION, UNLOCK_AUTH, LOCKER_DIED | AppServer (a message with a 2 s timeout), the locker it forks |
| `janus` registry (same file) | `sApps`, `sPending`, the restart threads of mount_server | LAUNCH_JOB, GET_LAUNCH_DATA, REGISTER, UNREGISTER, reaping, purge | servers (pipe, exit), janus_session (messages), four threads under `sAppsLock` |
| AppServer's lock broker (`servers/app/AppServer.cpp`) | `fLockRequest`, `fLockPending` | lock/unlock, completion | janus, every Desktop |
| Desktop lock (`servers/app/Desktop.cpp`) | `fScreenLocked`, `fUnlockTeam`, `fLockHiddenWindows`, `fFocusList` | apply an order, show/hide/minimise/remove a window | AppServer, window threads, janus |
| `MultiLocker` (`servers/app/MultiLocker.cpp`) | counters, writer, two condition variables | read and write lock, unlock, nested | every window thread of app_server |
| Locker and greeter (`apps/vitruvian-login`) | its process and window | prompt, quit | janus, Desktop |
| `janus_session` (`servers/janus_session`) | the seat, the seat request slot, its own `sApps`/`sPending` | switch VT, launch, reap, register, teardown | janus, libseat, the session's servers |
| Registrar's sleep path (`servers/registrar/Registrar.cpp`, `LogindBridge.cpp`) | inhibitor fds, `fSleepCycle`, timers | PrepareForSleep, lock done, timeout | logind, janus, app_server |
| Registrar's roster, message runners, shutdown dance | team tables, event queue | register, launch, broadcast, quit | every application |
| App Kit, Support Kit | loopers, queues, tokens | post, lock, quit | every application |
| `libroot2` (`system/libroot2`) | wrappers of ports, semaphores, threads, areas; `init_once` | the BeOS calls | nexus kernel module (a submodule that is not in the tree) |
| app_server's drawing, input_server, media, kits, apps, translators, build | - | - | - |

### What is hard here

- *Interleavings.* janus is one process with a launch daemon thread, a main
  thread that reaps, a thread per session change, one per restart of
  mount_server, and one that watches logind. Locks protect single reads and
  writes of `sSession` and `sApps`, not the sequences around them.
- *Timeouts.* janus waits two seconds for AppServer; what it asked for still
  happens afterwards.
- *Order.* HELLO, REGISTER, UNREGISTER, LOCKER_DIED and the Desktops'
  completions are sent without waiting, from different threads.
- *Stale references.* Indexes into a table that is compacted, pids that name a
  process about to exit, a control port of an earlier session.
- *Tests before locks.* Window threads of app_server test the state of the screen
  and of their window before they take the lock under which they act.
- *Failure.* Any process can die at any point; a janus_session can hang while it
  is torn down; forks and semaphores can fail.

### What correctness means

- Session manager: each desktop opened on one password check of its user; one
  session at a time on the seat; `sSession` describes one process; a switch
  always ends.
- Screen lock: janus and every Desktop agree whenever nothing is under way; a
  success is a success everywhere; a locked screen always has a prompt, or one
  is coming.
- Registry: a live, ready server is found; one row per server; every launch is
  answered.
- Seat: a request is answered with success only after its switch; nobody draws
  on another session's terminal; the seat is given up and the display comes back.
- Sleep: the machine sleeps behind a decided lock; an inhibitor is given up only
  in its own cycle, held for the next sleep, and delays no sleep for ever.
- Desktop: nothing but the prompt shows on a locked screen; after the unlock
  every window is as its client asked; a lost prompt is reported.
- `MultiLocker`: a writer is alone, no wake-up is lost.
- `init_once`: once, nobody early, nothing left behind, everybody returns.

The hazards behind these properties, with the line where each bites, are in
`PROJECT.json` under `hazards`.

## 2. Modules

| Module | Models |
|---|---|
| `InitOnce` | `__init_once()` of libroot2: the control word, the semaphores, one step per atomic operation |
| `JanusSession` | the session manager: the launch daemon thread, the transition threads, the main thread, and the janus_session processes with the messages they send |
| `LoginService` | abstract: what the session manager promises of the desktops it opens; `JanusSession` implements it |
| `ScreenLock` | janus, AppServer, the Desktops and the lockers, composed, with the messages between them |
| `LockService` | abstract: what the screen lock promises when app_server answers; `ScreenLock` implements it |
| `DesktopLock` | abstract: the lock of one Desktop between janus and the lockers' windows; `ScreenLock` and `LockedDesktop` both implement it |
| `LaunchRegistry` | the registry: launch daemon, reaper, restart threads, purge, and the servers |
| `SeatSwitch` | a VT switch: janus's relay, the launch and seat threads of janus_session, libseat's callbacks, app_server |
| `SleepCycle` | a sleep: logind's signals, the bridge thread, the registrar's looper with its notifiers, lock threads and timers |
| `LockedDesktop` | one Desktop and the threads of its windows under the screen lock |
| `MultiLocker` | app_server's reader/writer lock, counters, waits and wake-ups |
| `*_proofs` | the theorems about each detailed module |
| `MC*` | the same, with the symmetry sets TLC uses |

`ScreenLock` treats a Desktop's reaction to an order as one step;
`LockedDesktop` opens that step up, with the windows and their threads, and
treats a section under `fWindowLock` as one step; `MultiLocker` is the lock
those sections rest on. `DesktopLock` joins the first two: what `LockedDesktop`
takes for granted of janus and its lockers (`OnlyLocker`: whoever is named by an
order or opens its window is the only locker whose window is there to stay) is a
guard of `DesktopLock`, and `ScreenLock` has to meet it. `LaunchRegistry` and
`SeatSwitch` hold the two halves of janus_session: its servers and its seat.

The `CONSTANT Events` names what an instance lets happen besides the normal
course; a configuration or a theorem that leaves an event out says that its
properties are claimed without it.

### InitOnce

`pc[t]` is where thread `t` is between two atomic operations, `control` the
word, `value[t]` and `own[t]` the locals `value` and `semaphore`, `sems` the
semaphores that exist. `create_sem()` returns any id that is free, so ids are
reused, and may fail at any time. A thread may call again after it returned.

### JanusSession

| State | Code |
|---|---|
| `session` | `sSession` (home and gid follow the user and are left out) |
| `auth` | `sAuthenticatedUser`; its 30 s expiry is a choice to refuse any LOGIN_OK |
| `port` | messages waiting at `sLaunchPort` |
| `daemon`, `main`, `trans[t]` | the three kinds of threads between two critical sections |
| `shuttingDown`, `shutdownInFlight` | the flags of those names |
| `proc`, `ident`, `hello` | the janus_session processes: alive, told to stop, or dead; the user each was forked for; its HELLO |
| `passwords`, `proof`, `overlapped` | history |

`terminate_and_wait_session()` is three steps: SIGTERM, the process's own end
or SIGKILL after five seconds, and the return. A dead process is also reaped by
the main thread; both ways the wait ends. A change of the session that finds no
thread left is dropped, as when `pthread_create()` fails.

### ScreenLock

One session whose user has a password. `Ask` is `send_to_app_server()` up to
its wait, `Answered` and `Unanswered` its return, so that janus is blocked in
between as the code is. `typist` is the locker that waits for the reply to
its UNLOCK_AUTH and quits on success; no other does. The Desktops are there from
the start: one that `AS_GET_DESKTOP` creates for another user while the screen is
locked is left out. `appPort` and `desktop[d].port` are the two queues an
order goes through; a completion goes back through `appPort` and, as in the
code, does not say which order it completes. A late reply finds no receiver.
`answer` belongs to the request janus waits for. Events: `timeout` (two seconds
pass), `notSent`, `portFull`, `launchFails`, `crash` (a locker dies with its
window up on a locked Desktop), `earlyCrash` (before), `earlyWindow` (the locker
opens its window before the lock arrives; without it, when its lock is applied or
no order is on its way), `quickRelock` (a lock while the last
locker is still quitting).

### LaunchRegistry

`apps` is the whole array, the rows behind `count` included, because
`purge_session_apps()` leaves them and `sPending` keeps indexes. A server's port
is named after its pid, and pids are given in order: which is new makes no
difference. The port and the pipe of a server are gone when it is.
`newest` is what janus last heard to be ready, whether its row was entered or the
table was full; `unanswered` the launches that wait for their answer, those that
found no row or no pending slot included.
mount_server stands for the system's servers, the registrar for the session's.
Events: `slowServer` (ten seconds pass), `hastyDeath` (a server dies before its
row is written), `stubborn` (mount_server survives SIGTERM for two seconds),
`newLogin` (a purge), `overlap` (a registrar registers while the last one's
restart of mount_server is under way).

### SeatSwitch

A request is named after its terminal, and each has at most one on its way.

| State | Code |
|---|---|
| `janus`, `port` | `handle_switch_vt()` and its two seconds; requests at the session's launch port |
| `launch`, `slot` | the launch thread in `submit_switch_vt()`; `sSeatReqVt`, `sSeatReqPending`, `sSeatReqDone`, `sSeatReqResult` |
| `seatThread`, `active`, `running` | the place of the seat thread in its loop and its locals; `sDaemonLoopActive`, `sRunning` |
| `console`, `events` | who has the console, as far as this seat matters, and the callbacks in libseat's descriptor |
| `app` | what the session's `sApps` knows of app_server, its port, `fSessionActive` |
| `answer` | what the launch thread answered last |
| `performed`, `mixed`, `untold` | history |

Events: `slowSeat` (five seconds pass in the slot), `slowApp` (app_server does
not answer the loss of the session in its two seconds), `switchFails`,
`wakeFails`, `sigterm`, `noSeat`, `lateSeat` (the session starts without the
console: `init_seat()` does not wait for it longer than a second). `untold` is
then set from the start: nobody tells the app_server that starts on another's
terminal that it must not draw (`janus_session.cpp:990`).

### SleepCycle

`fd` is whether `fSleepFd` is open, as logind sees it: the looper closes it, the
bridge thread tests and sets it, in separate steps, as the code does without a
lock. `closing` is the step of `ReleaseSleepInhibit()` between `close()` and the
assignment, in which the bridge still reads the old number. `cycle` is
`fSleepCycle`; `threads` and `timers` are the notifiers, lock threads and queued
timer events, each with the cycle it was made for; `port` holds their reports
and logind's news in order. The machine sleeps when the inhibitor is gone, or
(`delayExpires`) in spite of it, and nothing runs then. Other events: `noThread`
(a notifier or lock thread cannot be started), `inhibitFails` (logind refuses
the inhibitor), `refused` (it refuses the sleep).

### LockedDesktop

`window[w]` is what the Desktop and the ServerWindow know of a window, `held` is
`fLockHiddenWindows`, `focusList` the windows linked into `fFocusList`.
`thread[w]` is the place of the window's thread: a test (`Show`, `Hide`, `Die`,
`WasUnlock`) and the section under the lock (`ShowWindow`, `HideWindow`,
`QuitHide`, `RemoveWindow`) are two actions, and the Desktop thread may lock or
unlock in between. A window that closes is hidden first, by `_PrepareQuit()`,
with `HideWindow()`'s test and section (`Die`, `QuitHide`), once more when its
client was killed (`QuitAgain`), and removed then. `broken` records that a
window was linked or unlinked twice, after which the list is not followed any
more. Two history variables name the exceptions: `raced`, the windows whose
thread was in between when the screen was locked or unlocked, and `disturbed`,
those whose client asked for something while it was locked. A disturbed window
goes back to normal when its client asks again after the unlock, a raced one is
excepted until it is gone.

### MultiLocker

A call runs from taking the mutex to its return or its wait, so a call is one
action, and each return from `wait()`, spurious ones included, is another.
`inside[t]` counts the locks that thread `t` was granted. Threads keep to what
`MultiLocker.h` asks: no nested read locks, no upgrade, and a writer's outermost
lock is its last.

## 3. What is checked

All passing runs finish; none needs a state constraint.

| Run | Instance | Shows |
|---|---|---|
| `init_once` | 3 threads, 3 semaphores at most | once, nobody early, no semaphore left, every call returns |
| `janus_session` | greeter, a live and a normal user, 3 processes, 2 threads, 1 message waiting, 1 password | `OnePasswordPerSession`, `SessionCoherent` under overlapping changes; `JanusSession` implements `LoginService`: a desktop is opened for what paid for it, once, and alone unless changes overlapped |
| `janus_session_live` | 1 thread; crashes, failing forks, PrepareForShutdown, shutdown handover, SIGTERM | a change that started is recorded; one janus_session at a time when main, daemon and transition do not overlap |
| `janus_session_race` | as `janus_session` | *violated*: overlapping changes leave two janus_sessions |
| `screen_lock` | 2 Desktops, 3 lockers that crash | agreement, complete answers, lost lockers reported; `ScreenLock` implements `LockService`, so no request stays open; a prompt comes back |
| `screen_lock_timeouts` | the same with timeouts, unsent requests, failing launches, quick relock | a success seen by janus takes effect; the session's Desktop is a `DesktopLock`: lockers take turns |
| `launch_registry` | 6 pids, 3 rows, 2 pending launches, slow, hasty and stubborn servers | ready servers are found, no second row |
| `launch_registry_live` | 4 pids, 2 rows and 1 pending launch, so that the tables get full; slow servers, new logins, overlapping restarts | the registrar of the login is found unless the table had no room for it; every launch is answered, with full tables too |
| `seat_switch` | 2 terminals, 2 requests waiting, 1 unread signal; every event | `OkMeansSwitched`, `NoDrawingOnForeignVt`; waits end, the seat is given up, the display comes back |
| `sleep_cycle` | 2 sleeps; every event | `LockDecidedBeforeSleep`, `ReleasedOnlyInItsCycle`, `HeldForNextSleep`; no sleep is delayed for ever |
| `locked_desktop` | 2 windows, 2 lockers | the five invariants and the report of a lost prompt |
| `multi_locker` | 4 threads, nesting to depth 2 | `WriterIsAlone`, `CountersAreTrue`, `NoLostWakeUp`; whoever waits gets in once nobody asks any more |

### Bounds

Two transition threads suffice for two changes to overlap; three janus_session
pids give an old session and two rivals. One verified password is enough for a
second use of it; two passwords would only add states in which each is used
once. `PortSize = 1` still lets a message wait while the daemon is in a handler
and threads step; order between two waiting messages is what `PortSize = 2` of
the registry is for. Two Desktops are what "once all have" needs; a third would
behave as the second. Requests are numbered from a small set and a number is
reused once nothing refers to it. Six pids allow three registrars and their
mount_servers: a server, its replacement, the late notice of the first, and one
more. Two terminals give a request that was given up and the next one that meets
its completion. Two sleeps give a cycle whose reports come late and the cycle
they come into. A second window on a Desktop is one that the first one's race
must not touch; a second locker replaces the first. Four threads give two
readers and two writers, or three readers that overlap and a writer. The proofs
show that the safety properties do not depend on these bounds.

### Deadlock

`CHECK_DEADLOCK` is on for `init_once`, `sleep_cycle` and `multi_locker`. In the
others the system may really stop: pids and passwords run out, janus and
janus_session may exit, a broken focus list is not followed. There liveness is
stated instead, where something has to happen.

### Fairness

- `InitOnce`: each thread inside the function runs.
- `JanusSession`: the kernel runs the transition threads; nothing is assumed of a
  janus_session, which may hang for ever.
- `ScreenLock`: loopers and threads that have something to do run, and windows of
  dead or quitting clients are removed; strong fairness only for `LockerDied`,
  because the launch port is a queue in which the report waits while other
  messages are handled.
- `LaunchRegistry`: the daemon loop calls `check_pending_launches()` after every
  message and every 50 ms, so resolving a launch is strongly fair.
- `SeatSwitch`: the seat thread runs, the waiter sees its condition, app_server
  reads its port; dispatching libseat's callbacks is strongly fair, because the
  loop polls the descriptor each time round and the callbacks wait in it. A
  timeout is never assumed to come.
- `SleepCycle`: the bridge, the looper, the started threads and the timers run
  while the machine is awake, and it wakes up. logind is not assumed to do
  anything else.
- `MultiLocker`: a woken thread takes the mutex, and who holds a lock gives it
  up. Nobody is assumed to ask for one.
- `LockedDesktop` promises no liveness.

### Known weaknesses of the code

The violation run is a disagreement between the code and its own comment;
`PROJECT.json` quotes it under `findings`. Its passing counterpart says that the
code keeps its word as long as changes of the session do not overlap.

The following came up while modelling. They are hazards, and the properties name
them as exceptions or are claimed without the event that leads to them. Two of
them, the old completion that answers a new request and the full port, sit badly
with the comments "Each Desktop applies it on its own thread and answers; reply
once all have" (`AppServer.cpp:204`) and "Reply to the original requester once
all of them have" (`AppServer.cpp:247`): a request is then answered before all
have. Without `timeout` and `portFull` the comments hold, which is what
`RepliesOnceAllHave` says.

- A lock order that timed out in janus is applied later: the Desktop is locked,
  its locker was stopped, and janus takes the screen for unlocked
  (`janus.cpp:867`; event `timeout`).
- A Desktop's completion does not name its request, so an old one can answer a
  new request (`AppServer.cpp:254`; event `timeout`).
- A Desktop whose port stays full is left out of a request, which is answered
  `B_OK` for the others (`AppServer.cpp:226`; event `portFull`).
- When a lock order times out its locker is killed; if the next locker opens its
  window before its own order arrives, the Desktop is told of the dead one while
  the live one has its window (`Desktop.cpp:2988`; events `timeout` and
  `earlyWindow` together).
- A lock that follows an unlock at once keeps the locker that is quitting, whose
  window can go before the Desktop is locked again (`janus.cpp:735`; event
  `quickRelock`).
- A locker that dies before its window opens, or whose window opens before the
  order to exempt it arrives, is not reported; a report whose launch or request
  fails is not tried again (`janus.cpp:986`; events `earlyCrash`, `earlyWindow`,
  `launchFails`, `notSent`).
- A purge moves a row that a waiting launch still knows by its index: the port of
  mount_server is refused as stale or written behind the end of the table
  (`janus.cpp:1560`; event `newLogin`).
- Two registrars in short succession give mount_server two rows, and the dead
  one hides the live one (`janus.cpp:445`; event `overlap`). Such rows can fill
  the table, and a registrar then gets none (`janus.cpp:283`; `NoRoom`).
- A session that starts without the console starts its app_server all the same,
  which draws until it is told (`janus_session.cpp:990`; event `lateSeat`).
- A HELLO handled before the transition thread has published the new pid is
  ignored, or its port is wiped when the pid is published; it is never sent again
  (`janus.cpp:334`).
- The completion of a switch that was given up releases the next request with
  its own result (`janus_session.cpp:340`; history `mixed`).
- After a cycle that logind did not wait for, the looper can close the
  descriptor that the bridge has just taken again, or the bridge can find the
  number of one that is just closed and take none (`LogindBridge.cpp:478`;
  history `missed`).
- A window whose thread tested before the lock can be shown over a locked
  screen (`Desktop.cpp:1548`), or unlinked twice (`Desktop.cpp:1590`; history
  `raced`). What clients ask while the screen is locked is lost
  (`Desktop.cpp:1405`, `1652`; history `disturbed`).
- Readers that overlap keep a writer out for ever (`MultiLocker.cpp:131`), and a
  writer that gives up its outermost lock before an inner one lets others in
  (`MultiLocker.cpp:203`).

## 4. What is proved

TLAPS checks these for every value of the constants, under the named assumptions
of the modules and, where a line says so, with fewer events. The `TypeCorrect`
theorems take the place of type invariants in the runs: that of the registry,
whose indexes outlive the rows they name, says that no row beyond its arrays is
used.

| Module | Theorems | Inductive invariant |
|---|---|---|
| `InitOnce_proofs` | `TypeCorrect`, `ReturnsAfterInit`, `RunsOnce`, `SemaphoresAreDeleted` | `OnceInv` |
| | `WaitersAreServed` | and `StartedInv` |
| `JanusSession_proofs` | `TypeCorrect`, `SessionStaysCoherent`, `OnePasswordOneSession`, `OneSession`, `Refinement` | `CoherenceInv`, `PasswordInv`, `OverlapInv`, `ConfiguredInv` |
| `ScreenLock_proofs` | `TypeCorrect` | itself |
| | `StatesAgree`, `ReplyAfterAll`, `NoRequestIsLost`, `ServiceSteps` while app_server answers (no `timeout`, `portFull`) | `RequestInv` |
| | `LastSuccessHolds` without `portFull` | `OrderInv` |
| | `LockerLossIsReported` with `crash` only | `LockerInv` |
| | `OneLocker` | `OnlyUp` |
| | `OrdersTakeTurns` without `earlyWindow`, or while app_server answers | and `TurnInv`, or `RequestInv`; `LockersNamed` |
| `LaunchRegistry_proofs` | `TypeCorrect` | itself |
| | `SessionIsFound`, unless the table has no room | `SessionInv` |
| | `OneRowEach` without `overlap` | `TurnsKept` |
| | `ReadyIsFound` within one login, without `overlap`, with room for two rows | `RegistryInv` |
| `SeatSwitch_proofs` | `TypeCorrect`, `NoDrawing`, `OkIsSwitched`, `SeatIsLetGo` | `SeatInv` |
| | `SlotIsServed`; `DisplayIsPromised` | and `ServedInv`; `DrawInv` |
| `SleepCycle_proofs` | `TypeCorrect`, `LockBeforeSleep`, `NoForeignRelease` | `SleepInv` |
| | `HeldAfterResume`; `NoSleepIsForgotten` | and `HeldInv`; `DueInv` |
| `LockedDesktop_proofs` | `TypeCorrect`, `LockedMeansHidden`, `UnlockShowsLiveWindows`, `FocusListSurvives`, `LockLeavesNoTrace`, `LockerShows`, `LossIsReported`, `DesktopIsLock` | `DesktopInv` |
| `MultiLocker_proofs` | `TypeCorrect`, `MutualExclusion`, `Counted`, `WakeUpsArrive` | `LockInv` |

Each proof has a step per action; what a helper returns or a handler does to a
table is a lemma of its own. The invariants add to the properties what the next
step relies on:

- `OnceInv` ties the control word to where threads can be, says that the
  semaphore in it exists, and that no two threads own the same one. A thread
  about to return must be known to have seen `INITIALIZED` or a semaphore that
  was deleted. `StartedInv`: as long as nothing is published, some thread will.
- `CoherenceInv` says of a thread what it is about to publish: the pid it holds
  was forked for the user it holds. `PasswordInv`: a verified password is in at
  most one place, `auth`, a thread that has not forked, or a session.
  `OverlapInv`: unless changes overlapped, one thread at a time stops or starts
  a janus_session, and every live one is the recorded one or in that thread's
  hands. `ConfiguredInv`: the session that the configuration pays for is asked
  for once, so the abstract service opens it once.
- `RequestInv` follows the one open request: at AppServer, with the Desktops
  (then what is pending there is the Desktops that have not applied it and the
  completions on their way), answered, or never sent, in which case nothing has
  changed. `OrderInv`, for when requests time out, says only that what janus
  asked for last is behind all other orders in whatever queue it is in, or
  applied. `LockerInv` follows the locker: it runs, or its window has still to
  be removed, or janus is being told. `OnlyUp`: whoever is alive is the locker
  that janus knows. `TurnInv` is for when orders outlive their requests: behind
  an order that names the locker that is up none names another, in either queue
  or across the two, and once the Desktop knows that locker or has its window
  none is left at all. A locker's pid is new when it is launched, so its turn
  starts with the order that follows.
- The registry's invariants come in layers. `FitsInv`: rows, launches and
  messages name servers of their kind. `SessionInv`: the registrar has one row,
  and when janus has heard that it is ready the row has its pid and port, or
  there was no room for one; this outlives logins, because a purge leaves no
  registrar. `TurnsKept`: one registrar at a time is between its report and the
  launch of its mount_server, and by then the old one's row is free.
  `RegistryInv` says the same of mount_server as of the registrar; it needs that
  a waiting launch remembers the row of its server (`SlotsInv`), which a purge
  makes false.
- `SeatInv` ties the console to the callbacks on their way (`ConsoleInv`), says
  that app_server has let go or will by what it was last sent (`AppInv`), and
  whose result the slot holds (`SlotInv`). `ServedInv`: whoever waits in the
  slot has a seat thread in its loop; `DrawInv`: the last that app_server hears
  agrees with who has the console.
- `SleepInv`: reports are of this cycle or an earlier one (`ReportsInv`), the
  looper's last news will be logind's (`NewsInv`), and a guarded sleep is on the
  bus, at the looper, or being prepared (`GuardInv`). `HeldInv`: a cycle decides
  once (`OneLeft`), so when it has closed the descriptor nothing is left of it
  that could close the next one. `DueInv`: while the descriptor is open, what
  the looper waits for is running, in the timer queue, or in its port; the
  bridge opens one only behind a resume.
- `DesktopInv` is stated for one window, because a window thread disturbs only
  what is said of its own; only the Desktop thread touches all of them, and it
  notes in `raced` whom it met in between.
- `LockInv` adds that waiting threads hold nothing and that a reader reads once.

The refinements. `JanusSession` implements `LoginService` with each
janus_session's stage, its user and what paid for it. `ScreenLock` and
`LockedDesktop` both implement `DesktopLock`, which has the lock, the team and,
of every locker, whether its window is open or about to go: the one with the
session's Desktop at the end of two queues (`OrdersTakeTurns`), the other with
the threads of its windows (`DesktopIsLock`). These state no fairness and are
proved completely; all but the last are checked by a run as well. `ScreenLock`
also implements `LockService` with what janus recorded, what its handler asks
for, and each Desktop's lock; its initial state and steps are proved
(`ServiceSteps`), its fairness is checked by TLC.

Liveness is out of the prover's reach. Where the danger is that somebody waits
and nobody is left to end the wait, the theorem is the state property the
liveness rests on, and TLC checks the rest: `WaitersAreServed` for `CallsReturn`,
`NoRequestIsLost` for the open request in `IsLockService`, `LockerLossIsReported`
for `PromptComesBack`, `SlotIsServed`, `SeatIsLetGo` and `DisplayIsPromised` for
`SubmitEnds`, `SeatIsGivenUp` and `DisplayComesBack`, `NoSleepIsForgotten` for
`SleepGoesOn`, `WakeUpsArrive` for `WaitersGetIn`. `TransitionsFinish` and
`LaunchesAreAnswered` have none: there a deadline of the waiting thread itself
ends the wait.

What is not proved, and why:

- Liveness, fairness and `ENABLED`: every property above that speaks of an end.
- What does not hold. Every safety property of a passing run is proved, with at
  least the events of its run; with others some are false, and TLC has the
  counterexamples. `ReadyServerIsFound` fails for mount_server across logins,
  because a purge moves rows under a launch that waits, and like `NoRowShadows`
  with `overlap`; `LockStatesAgree` and `RepliesOnceAllHave` fail with a request
  that times out or a Desktop left out of it, `SuccessTakesEffect` with the
  latter; each event but `crash` breaks `GoneLockerIsReported`; `IsDesktopLock`
  fails with `timeout` and `earlyWindow` together.

## 5. What is not modelled

- PAM, libseat, DRM, D-Bus and the kernel: external; their outcomes are choices.
- The nexus kernel module: its source is not in the tree.
- Reuse of pids. `stop_unlock_app()` and the restart thread kill by pid; the
  windows in which a pid could be reused are listed as hazards.
- The rate limit of UNLOCK_AUTH, which can only refuse.
- The lock across logins: `sScreenLocked` is not reset when the session changes.
- `sShutdownInFlight` after a cancelled shutdown: no text says what should be.
- Focus, stacking, workspaces and drawing in the Desktop; the order in which
  janus_session starts the session's servers.
- Components inherited from Haiku, drawing, input, kits, applications, build:
  see `components` in `PROJECT.json`. They are nearly all of the tree's lines and
  are left aside because what decides who gets a desktop, whether a locked screen
  is locked and whether servers are found does not pass through them.

## 6. What could come next

1. `ScreenLock` composed with `JanusSession`, for what a session change leaves
   behind.
2. `TRoster`'s launch and pre-registration: an application registers once, under
   the signature it was started with, and a launch that fails is forgotten.
3. `BLooper`: locking through tokens while a looper quits.
