----------------------- MODULE LaunchRegistry_proofs -----------------------
(***************************************************************************)
(* Across logins, whatever is reported and in whichever order: a session's *)
(* server that janus heard is ready is found.  As long as a registrar does *)
(* not come before mount_server was started again for the last one, no     *)
(* signature has two rows; and within one login mount_server is found as   *)
(* well.  For any number of servers, rows, launches and restart threads.   *)
(***************************************************************************)
EXTENDS LaunchRegistry, WellFoundedInduction, SequenceTheorems, TLAPS

OneLogin == "newLogin" \notin Events
NoOverlap == "overlap" \notin Events
RoomForBoth == MaxApps > 1

(* Every pid in a table or a message is that of a server of its kind. *)
IsA(p, s) == p \in Pids /\ server[p].sig = s /\ server[p].state # "unborn"
Gone(p) == server[p].state \in {"dead", "reaped"}
RowsInv ==
  \A i \in 1 .. count :
    /\ apps[i].sig \in Signatures
    /\ apps[i].pid # NoPid => IsA(apps[i].pid, apps[i].sig)
    /\ apps[i].port \in {NoPid, apps[i].pid}
LaunchesInv ==
  /\ \A i \in Slots : pending[i].active =>
       pending[i].row \in Rows /\ IsA(pending[i].pid, System)
  /\ daemon.pc = "record" => IsA(daemon.pid, System)
  /\ daemon.pc = "reply" => daemon.slot \in Slots
  /\ reaping # NoPid => IsA(reaping, System) /\ Gone(reaping)
  /\ \A t \in Restarters :
       restart[t].pc \in {"wait", "invalidate"} => IsA(restart[t].old, System)
MessagesInv ==
  /\ \A k \in DOMAIN port :
       /\ port[k].what = "register" => IsA(port[k].pid, Session)
       /\ port[k].what = "unregister" => IsA(port[k].pid, Session) /\ Gone(port[k].pid)
  /\ report # NoPid => IsA(report, Session)
  /\ \A p \in Pids : server[p].sig = Session => server[p].wrote

FitsInv == TypeOK /\ RowsInv /\ LaunchesInv /\ MessagesInv

(* The row of the server that janus last heard is ready. *)
Entered(s) ==
  \E i \in 1 .. count :
    apps[i].sig = s /\ apps[i].pid = newest[s] /\ apps[i].port = newest[s]
HeardInv(s) ==
  /\ newest[s] # NoPid => IsA(newest[s], s) /\ server[newest[s]].wrote
  /\ PortExists(newest[s]) => Entered(s) \/ NoRoom(s)
OneRow(s) == \A i, j \in 1 .. count : apps[i].sig = s /\ apps[j].sig = s => i = j

(* A registrar takes the row of the last one, even while that one lives, a *)
(* purge leaves none, and what the launch of a mount_server fills in, be   *)
(* it behind the table, is not a registrar's.                              *)
SessionInv == FitsInv /\ OneRow(Session) /\ HeardInv(Session)

(* One registrar at a time is on its way from its report to the launch of  *)
(* its mount_server, ...                                                   *)
Coming(k) == port[k].what \in {"register", "launch"}
TurnsInv ==
  /\ report # NoPid =>
       /\ \A k \in DOMAIN port : ~Coming(k)
       /\ \A t \in Restarters : restart[t].pc = "none"
       /\ daemon.pc # "record"
  /\ \A k \in DOMAIN port : Coming(k) =>
       /\ \A j \in DOMAIN port : Coming(j) => j = k
       /\ \A t \in Restarters : restart[t].pc = "none"
       /\ daemon.pc # "record"
  /\ \A t \in Restarters : restart[t].pc # "none" =>
       /\ \A u \in Restarters : restart[u].pc # "none" => u = t
       /\ daemon.pc # "record"

(* ... and by then the row of the old one is free. *)
AllCleared == \A i \in 1 .. count : apps[i].sig = System => apps[i].pid = NoPid
ClearedBut(p) ==
  \A i \in 1 .. count : apps[i].sig = System => apps[i].pid \in {NoPid, p}
ClearedInv ==
  /\ daemon.pc = "record" => AllCleared
  /\ \A k \in DOMAIN port : port[k].what = "launch" => AllCleared
  /\ \A t \in Restarters :
       /\ restart[t].pc = "launch" => AllCleared
       /\ restart[t].pc \in {"wait", "invalidate"} => ClearedBut(restart[t].old)

TurnsKept == FitsInv /\ NoRowShadows /\ TurnsInv /\ ClearedInv

(* Rows are moved by a purge only: till then a launch that waits for its   *)
(* server remembers the row of that server.                                *)
SlotsInv == \A i \in Slots : pending[i].active => pending[i].row \in 1 .. count
RegistryInv == TurnsKept /\ SlotsInv /\ HeardInv(System) /\ HeardInv(Session)

-----------------------------------------------------------------------------
(* The least row, and what is taken from and put into the port. *)
LEMMA FirstIsIn ==
  ASSUME NEW S \in SUBSET Nat, S # {} PROVE First(S) \in S
<1> DEFINE R == OpToRel(<, Nat)
<1>1. \A x, y \in Nat : y < x => <<y, x>> \in R
  BY DEF OpToRel
<1>2. IsWellFoundedOn(R, Nat)
  BY NatLessThanWellFounded
<1> HIDE DEF R
<1>3. PICK i \in S : \A j \in S : ~(<<j, i>> \in R)
  BY <1>2, WFMin
<1>4. \A j \in S : ~(j < i)
  BY <1>1, <1>3
<1>5. \E x \in S : \A y \in S : x <= y
  BY <1>3, <1>4
<1> QED BY <1>5 DEF First

LEMMA PortTaken ==
  ASSUME TypeOK, port # <<>>, port' = Tail(port)
  PROVE  /\ Head(port) = port[1] /\ 1 \in DOMAIN port /\ Head(port) \in Messages
         /\ port' \in Seq(Messages) /\ Len(port') <= PortSize
         /\ \A k \in DOMAIN port' : k \in Nat \ {0} /\ k + 1 \in DOMAIN port
                                    /\ port'[k] = port[k + 1]
<1>1. /\ Len(port) \in Nat /\ Len(port) # 0 /\ DOMAIN port = 1 .. Len(port)
      /\ Head(port) = port[1] /\ Head(port) \in Messages
      /\ port' \in Seq(Messages)
      /\ Len(port') = Len(port) - 1 /\ DOMAIN port' = 1 .. Len(port')
      /\ \A i \in 1 .. Len(port') : port'[i] = port[i + 1]
  BY HeadTailProperties, EmptySeq, LenProperties DEF TypeOK
<1>2. Len(port') <= PortSize
  BY <1>1, RegistryConstants DEF TypeOK
<1> QED BY <1>1, <1>2

LEMMA PortSent ==
  ASSUME TypeOK, NEW m \in Messages, Send(m)
  PROVE  /\ port' \in Seq(Messages) /\ Len(port') <= PortSize
         /\ \A k \in DOMAIN port' : \/ port'[k] = m /\ k \notin DOMAIN port
                                    \/ k \in DOMAIN port /\ port'[k] = port[k]
         /\ \A k, j \in DOMAIN port' : k \notin DOMAIN port /\ j \notin DOMAIN port
                                         => k = j
<1>1. /\ Len(port) \in Nat /\ DOMAIN port = 1 .. Len(port)
      /\ port' \in Seq(Messages) /\ Len(port') = Len(port) + 1
      /\ DOMAIN port' = 1 .. Len(port')
      /\ \A k \in 1 .. Len(port) : port'[k] = port[k]
      /\ port'[Len(port) + 1] = m
  BY AppendProperties, LenProperties DEF Send, TypeOK
<1>2. Len(port') <= PortSize
  BY <1>1, RegistryConstants DEF Send
<1> QED BY <1>1, <1>2

-----------------------------------------------------------------------------
(* The rows that handlers choose. *)
LEMMA RowsAreRows ==
  ASSUME TypeOK, NEW s
  PROVE  /\ Find(s) = 0 => RowsOf(s) = {}
         /\ Find(s) # 0 => Find(s) \in 1 .. count /\ apps[Find(s)].sig = s
         /\ 1 .. count \subseteq Rows
<1>1. RowsOf(s) \in SUBSET Nat /\ RowsOf(s) \subseteq 1 .. count /\ 0 \notin RowsOf(s)
  BY DEF RowsOf, TypeOK
<1>2. RowsOf(s) # {} => First(RowsOf(s)) \in RowsOf(s)
  BY <1>1, FirstIsIn
<1>3. 1 .. count \subseteq Rows
  BY RegistryConstants DEF TypeOK, Rows
<1> QED BY <1>1, <1>2, <1>3 DEF Find, RowsOf

(* handle_launch_job()'s row is a free one of mount_server's, or new.      *)
LEMMA LaunchRowIs ==
  ASSUME TypeOK, LaunchRow # 0
  PROVE  /\ LaunchRow \in Rows /\ Grown(LaunchRow) \in 0 .. MaxApps
         /\ \/ /\ LaunchRow \in 1 .. count /\ Grown(LaunchRow) = count
               /\ apps[LaunchRow].sig = System /\ apps[LaunchRow].pid = NoPid
            \/ /\ LaunchRow = count + 1 /\ Grown(LaunchRow) = count + 1
               /\ \A i \in RowsOf(System) : apps[i].pid # NoPid
<1> DEFINE free == {i \in RowsOf(System) : apps[i].pid = NoPid}
<1>1. free \in SUBSET Nat /\ free \subseteq 1 .. count
  BY DEF RowsOf, TypeOK
<1>2. free # {} => First(free) \in free
  BY <1>1, FirstIsIn
<1>3. LaunchRow = IF free # {} THEN First(free)
                  ELSE IF count < MaxApps THEN count + 1 ELSE 0
  BY DEF LaunchRow
<1> HIDE DEF free
<1>4. CASE free # {}
  <2>1. LaunchRow \in free
    BY <1>2, <1>3, <1>4
  <2> QED BY <1>1, <2>1, RegistryConstants DEF free, RowsOf, Grown, Rows, TypeOK
<1>5. CASE free = {}
  <2>1. LaunchRow = count + 1 /\ count < MaxApps
    BY <1>3, <1>5
  <2>2. \A i \in RowsOf(System) : apps[i].pid # NoPid
    BY <1>5 DEF free
  <2> QED BY <2>1, <2>2, RegistryConstants DEF Grown, Rows, TypeOK
<1> QED BY <1>4, <1>5

(* handle_register_app()'s is the registrar's row, or new.                 *)
LEMMA RegisterRowIs ==
  ASSUME TypeOK, RegisterRow # 0
  PROVE  /\ RegisterRow \in Rows /\ Grown(RegisterRow) \in 0 .. MaxApps
         /\ \/ /\ RegisterRow \in 1 .. count /\ Grown(RegisterRow) = count
               /\ apps[RegisterRow].sig = Session
            \/ /\ RegisterRow = count + 1 /\ Grown(RegisterRow) = count + 1
               /\ RowsOf(Session) = {}
<1>1. CASE Find(Session) # 0
  <2>1. RegisterRow = Find(Session)
    BY <1>1 DEF RegisterRow
  <2> QED BY <1>1, <2>1, RowsAreRows, RegistryConstants DEF Grown, TypeOK
<1>2. CASE Find(Session) = 0
  <2>1. RegisterRow = count + 1 /\ count < MaxApps
    BY <1>2 DEF RegisterRow
  <2> QED BY <1>2, <2>1, RowsAreRows, RegistryConstants DEF Grown, Rows, TypeOK
<1> QED BY <1>1, <1>2

-----------------------------------------------------------------------------
(* What steps do to the table. *)
Clears(r) ==
  r \in 1 .. count /\ count' = count /\ apps' = [apps EXCEPT ![r] = Cleared(@)]
Enters(r, s, p, q) ==
  /\ r \in Rows /\ count' = Grown(r)
  /\ apps' = [apps EXCEPT ![r] = [sig |-> s, pid |-> p, port |-> q]]

LEMMA InvalidateAppIs ==
  ASSUME TypeOK, NEW p, InvalidateApp(p), UNCHANGED count
  PROVE  \/ /\ UNCHANGED <<apps, count>>
            /\ \A i \in 1 .. count : apps[i].pid # p
         \/ \E r \in 1 .. count : apps[r].pid = p /\ Clears(r)
<1> DEFINE mine == {i \in 1 .. count : apps[i].pid = p}
<1>1. mine \in SUBSET Nat
  BY DEF TypeOK
<1>2. mine # {} => First(mine) \in mine
  BY <1>1, FirstIsIn
<1>3. apps' = IF mine = {} THEN apps
              ELSE [apps EXCEPT ![First(mine)] = Cleared(@)]
  BY DEF InvalidateApp
<1>4. CASE mine = {}
  BY <1>3, <1>4
<1>5. CASE mine # {}
  <2>1. /\ First(mine) \in 1 .. count /\ apps[First(mine)].pid = p
        /\ apps' = [apps EXCEPT ![First(mine)] = Cleared(@)]
    BY <1>2, <1>3, <1>5
  <2> HIDE DEF mine
  <2> QED BY <2>1 DEF Clears
<1> QED BY <1>4, <1>5

LEMMA UnregisterAppIs ==
  ASSUME TypeOK, UnregisterApp
  PROVE  \/ UNCHANGED <<apps, count>>
         \/ \E r \in 1 .. count : apps[r].pid = Head(port).pid /\ Clears(r)
<1>1. /\ apps' = IF Find(Session) # 0 /\ apps[Find(Session)].pid = Head(port).pid
                   THEN [apps EXCEPT ![Find(Session)] = Cleared(@)] ELSE apps
      /\ count' = count
  BY DEF UnregisterApp
<1>2. Find(Session) # 0 => Find(Session) \in 1 .. count
  BY RowsAreRows
<1> QED BY <1>1, <1>2 DEF Clears

LEMMA GetLaunchDataIs ==
  ASSUME TypeOK, NEW s, GetLaunchData(s)
  PROVE  \E r \in 1 .. count :
           apps[r].port # NoPid /\ ~PortExists(apps[r].port) /\ Clears(r)
<1>1. /\ Find(s) # 0 /\ apps[Find(s)].port # NoPid /\ ~PortExists(apps[Find(s)].port)
      /\ apps' = [apps EXCEPT ![Find(s)] = Cleared(@)]
      /\ count' = count
  BY DEF GetLaunchData
<1>2. Find(s) \in 1 .. count
  BY <1>1, RowsAreRows
<1> QED BY <1>1, <1>2 DEF Clears

LEMMA RecordLaunchIs ==
  ASSUME TypeOK, RecordLaunch
  PROVE  \/ UNCHANGED <<apps, count, pending>>
         \/ /\ LaunchRow # 0 /\ Enters(LaunchRow, System, daemon.pid, NoPid)
            /\ \/ UNCHANGED pending
               \/ \E i \in Slots :
                    pending' = [pending EXCEPT ![i] =
                      [active |-> TRUE, row |-> LaunchRow, pid |-> daemon.pid]]
<1>1. FreeSlots # {} => First(FreeSlots) \in Slots
  <2>1. FreeSlots \in SUBSET Nat
    BY RegistryConstants DEF Slots, FreeSlots
  <2>2. FreeSlots \subseteq Slots
    BY DEF FreeSlots
  <2> QED BY <2>1, <2>2, FirstIsIn
<1>2. CASE LaunchRow = 0
  BY <1>2 DEF RecordLaunch
<1>3. CASE LaunchRow # 0
  <2>1. /\ apps' = [apps EXCEPT ![LaunchRow] = [sig |-> System, pid |-> daemon.pid,
                                               port |-> NoPid]]
        /\ count' = Grown(LaunchRow)
        /\ pending' = IF FreeSlots = {} THEN pending
                      ELSE [pending EXCEPT ![First(FreeSlots)] =
                              [active |-> TRUE, row |-> LaunchRow, pid |-> daemon.pid]]
    BY <1>3 DEF RecordLaunch
  <2>2. UNCHANGED pending \/ \E i \in Slots :
                    pending' = [pending EXCEPT ![i] =
                      [active |-> TRUE, row |-> LaunchRow, pid |-> daemon.pid]]
    BY <1>1, <2>1
  <2> QED BY <1>3, <2>1, <2>2, LaunchRowIs DEF Enters
<1> QED BY <1>2, <1>3

LEMMA RegisterAppIs ==
  ASSUME TypeOK, RegisterApp
  PROVE  /\ newest' = [newest EXCEPT ![Session] = Head(port).pid]
         /\ \/ UNCHANGED <<apps, count>> /\ NoRoom(Session)
            \/ /\ RegisterRow # 0
               /\ Enters(RegisterRow, Session, Head(port).pid, Head(port).pid)
<1>1. CASE RegisterRow = 0
  <2>1. ~(count < MaxApps) /\ Find(Session) = 0
    BY <1>1, RowsAreRows DEF RegisterRow, TypeOK
  <2>2. NoRoom(Session)
    BY <2>1, RowsAreRows, RegistryConstants DEF NoRoom, TypeOK
  <2> QED BY <1>1, <2>2 DEF RegisterApp
<1>2. CASE RegisterRow # 0
  BY <1>2, RegisterRowIs DEF RegisterApp, Enters
<1> QED BY <1>1, <1>2

(* purge_session_apps() moves mount_server's rows, in their order. *)
Moves(keep, kept) ==
  /\ kept \in [1 .. keep -> 1 .. count]
  /\ \A i, j \in 1 .. keep : i < j => kept[i] < kept[j]
  /\ \A i \in 1 .. keep : apps'[i] = apps[kept[i]] /\ apps'[i].sig = System

LEMMA PurgeIs ==
  ASSUME TypeOK, PurgeSessionApps
  PROVE  count' \in 0 .. count /\ \E kept : Moves(count', kept)
<1>1. PICK keep \in 0 .. count : \E kept \in [1 .. keep -> Stays] :
        /\ \A i, j \in 1 .. keep : i < j => kept[i] < kept[j]
        /\ count' = keep
        /\ apps' = [i \in Rows |-> IF i <= keep THEN apps[kept[i]] ELSE apps[i]]
  BY DEF PurgeSessionApps
<1>2. PICK kept \in [1 .. keep -> Stays] :
        /\ \A i, j \in 1 .. keep : i < j => kept[i] < kept[j]
        /\ count' = keep
        /\ apps' = [i \in Rows |-> IF i <= keep THEN apps[kept[i]] ELSE apps[i]]
  BY <1>1
<1>3. 1 .. keep \subseteq Rows /\ \A i \in 1 .. keep : i <= keep
  BY RegistryConstants DEF Rows, TypeOK
<1>4. \A i \in 1 .. keep : kept[i] \in Stays /\ apps'[i] = apps[kept[i]]
  BY <1>2, <1>3
<1>5. Stays \subseteq 1 .. count /\ \A r \in Stays : apps[r].sig = System
  BY DEF Stays
<1>6. kept \in [1 .. keep -> 1 .. count]
  BY <1>2, <1>5
<1>7. \A i \in 1 .. keep : apps'[i] = apps[kept[i]] /\ apps'[i].sig = System
  BY <1>4, <1>5
<1>8. Moves(keep, kept)
  BY <1>2, <1>6, <1>7 DEF Moves
<1> QED BY <1>2, <1>8

-----------------------------------------------------------------------------
(* Types. *)
RowTypes == [sig : Signatures \cup {"none"}, pid : Pids \cup {NoPid},
             port : Pids \cup {NoPid}]
LaunchTypes == [active : BOOLEAN, row : 0 .. MaxApps, pid : Pids \cup {NoPid}]
DaemonTypes == [pc : {"idle", "record", "reply"}, pid : Pids \cup {NoPid},
                slot : 0 .. MaxPending]
RestartTypes == [pc : {"none", "start", "wait", "invalidate", "launch"},
                 old : Pids \cup {NoPid}]
ServerTypes == [sig : Signatures \cup {"none"}, wrote : BOOLEAN,
                state : {"unborn", "up", "dead", "reaped"}]

LEMMA TypesAre ==
  TypeOK <=>
    /\ apps \in [Rows -> RowTypes] /\ count \in 0 .. MaxApps
    /\ pending \in [Slots -> LaunchTypes] /\ daemon \in DaemonTypes
    /\ port \in Seq(Messages) /\ Len(port) <= PortSize
    /\ reaping \in Pids \cup {NoPid}
    /\ restart \in [Restarters -> RestartTypes]
    /\ server \in [Pids -> ServerTypes]
    /\ report \in Pids \cup {NoPid}
    /\ newest \in [Signatures -> Pids \cup {NoPid}]
    /\ unanswered \subseteq Pids
BY DEF TypeOK, RowTypes, LaunchTypes, DaemonTypes, RestartTypes, ServerTypes

LEMMA TypeInit == Init => TypeOK
<1> SUFFICES ASSUME Init PROVE TypeOK
  OBVIOUS
<1>1. /\ apps \in [Rows -> RowTypes] /\ count \in 0 .. MaxApps
      /\ pending \in [Slots -> LaunchTypes] /\ daemon \in DaemonTypes
  BY RegistryConstants DEF Init, RowTypes, LaunchTypes, DaemonTypes, EmptyRow, NoLaunch,
     IdleDaemon
<1>2. port \in Seq(Messages) /\ Len(port) <= PortSize
  BY RegistryConstants, EmptySeq DEF Init
<1>3. /\ restart \in [Restarters -> RestartTypes] /\ server \in [Pids -> ServerTypes]
      /\ newest \in [Signatures -> Pids \cup {NoPid}]
      /\ reaping \in Pids \cup {NoPid} /\ report \in Pids \cup {NoPid}
      /\ unanswered \subseteq Pids
  BY DEF Init, RestartTypes, ServerTypes, IdleRestart
<1> QED BY <1>1, <1>2, <1>3, TypesAre

LEMMA TypeClears ==
  ASSUME TypeOK, NEW r, Clears(r)
  PROVE  apps' \in [Rows -> RowTypes] /\ count' \in 0 .. MaxApps
BY TypesAre DEF Clears, Cleared, RowTypes

LEMMA TypeEnters ==
  ASSUME TypeOK, NEW r, NEW s \in Signatures, NEW p \in Pids \cup {NoPid},
         NEW q \in Pids \cup {NoPid}, Enters(r, s, p, q), Grown(r) \in 0 .. MaxApps
  PROVE  apps' \in [Rows -> RowTypes] /\ count' \in 0 .. MaxApps
BY TypesAre DEF Enters, RowTypes

LEMMA TypesAfter ==
  ASSUME apps' \in [Rows -> RowTypes], count' \in 0 .. MaxApps,
         pending' \in [Slots -> LaunchTypes], daemon' \in DaemonTypes,
         port' \in Seq(Messages), Len(port') <= PortSize,
         reaping' \in Pids \cup {NoPid},
         restart' \in [Restarters -> RestartTypes],
         server' \in [Pids -> ServerTypes],
         report' \in Pids \cup {NoPid},
         newest' \in [Signatures -> Pids \cup {NoPid}],
         unanswered' \subseteq Pids
  PROVE  TypeOK'
BY DEF TypeOK, RowTypes, LaunchTypes, DaemonTypes, RestartTypes, ServerTypes

LEMMA TypeDaemon ==
  ASSUME TypeOK, DaemonStep PROVE TypeOK'
<1>0. /\ apps \in [Rows -> RowTypes] /\ count \in 0 .. MaxApps
      /\ pending \in [Slots -> LaunchTypes] /\ daemon \in DaemonTypes
      /\ port \in Seq(Messages) /\ Len(port) <= PortSize
      /\ restart \in [Restarters -> RestartTypes] /\ server \in [Pids -> ServerTypes]
      /\ newest \in [Signatures -> Pids \cup {NoPid}] /\ IdleDaemon \in DaemonTypes
      /\ unanswered \subseteq Pids
  BY TypesAre, RegistryConstants DEF IdleDaemon, DaemonTypes
<1>1. CASE LaunchJob
  <2>1. port' \in Seq(Messages) /\ Len(port') <= PortSize
    BY <1>1, PortTaken DEF LaunchJob, Receive
  <2>2. PICK p \in Pids :
          /\ server' = [server EXCEPT ![p] = [sig |-> System, wrote |-> FALSE,
                                             state |-> "up"]]
          /\ daemon' = [IdleDaemon EXCEPT !.pc = "record", !.pid = p]
          /\ unanswered' = unanswered \cup {p}
    BY <1>1 DEF LaunchJob, Born
  <2>3. server' \in [Pids -> ServerTypes] /\ unanswered' \subseteq Pids
    BY <1>0, <2>2 DEF ServerTypes, Signatures
  <2>4. daemon' \in DaemonTypes
    BY <1>0, <2>2 DEF DaemonTypes
  <2> QED BY <1>0, <1>1, <2>1, <2>3, <2>4, TypesAre, TypesAfter DEF LaunchJob
<1>2. CASE RecordLaunch
  <2>1. UNCHANGED <<port, reaping, restart, server, report, newest>>
        /\ daemon' \in DaemonTypes /\ unanswered' \subseteq Pids
    BY <1>0, <1>2 DEF RecordLaunch
  <2>2. CASE UNCHANGED <<apps, count, pending>>
    BY <2>1, <2>2, TypesAre, TypesAfter
  <2>3. CASE /\ LaunchRow # 0 /\ Enters(LaunchRow, System, daemon.pid, NoPid)
             /\ \/ UNCHANGED pending
                \/ \E i \in Slots :
                     pending' = [pending EXCEPT ![i] =
                       [active |-> TRUE, row |-> LaunchRow, pid |-> daemon.pid]]
    <3>1. daemon.pid \in Pids \cup {NoPid}
      BY <1>0 DEF DaemonTypes
    <3>2. LaunchRow \in Rows /\ Grown(LaunchRow) \in 0 .. MaxApps
      BY <2>3, LaunchRowIs
    <3>3. apps' \in [Rows -> RowTypes] /\ count' \in 0 .. MaxApps
      BY <2>3, <3>1, <3>2, TypeEnters DEF Signatures
    <3>4. [active |-> TRUE, row |-> LaunchRow, pid |-> daemon.pid] \in LaunchTypes
      BY <3>1, <3>2, RegistryConstants DEF LaunchTypes, Rows
    <3>5. pending' \in [Slots -> LaunchTypes]
      BY <1>0, <2>3, <3>4
    <3> QED BY <2>1, <3>3, <3>5, TypesAre, TypesAfter
  <2> QED BY <1>2, <2>2, <2>3, RecordLaunchIs
<1>3. CASE ReplyLaunch
  <2>1. /\ pending' \in [Slots -> LaunchTypes] /\ daemon' \in DaemonTypes
        /\ unanswered' \subseteq Pids
    <3>1. NoLaunch \in LaunchTypes
      BY RegistryConstants DEF NoLaunch, LaunchTypes
    <3> QED BY <1>0, <1>3, <3>1 DEF ReplyLaunch
  <2> QED BY <1>3, <2>1, TypesAre, TypesAfter DEF ReplyLaunch
<1>4. CASE RegisterApp
  <2>1. /\ port' \in Seq(Messages) /\ Len(port') <= PortSize
        /\ Head(port) \in Messages /\ Head(port).what = "register"
    BY <1>4, PortTaken DEF RegisterApp, Receive
  <2>2. Head(port).pid \in Pids
    BY <2>1 DEF Messages
  <2>3. restart' \in [Restarters -> RestartTypes]
    <3>1. \/ UNCHANGED restart
          \/ \E t \in Restarters : restart' = [restart EXCEPT ![t].pc = "start"]
      BY <1>4 DEF RegisterApp
    <3>2. ASSUME NEW t \in Restarters, restart' = [restart EXCEPT ![t].pc = "start"]
          PROVE  restart' \in [Restarters -> RestartTypes]
      <4>1. [restart[t] EXCEPT !.pc = "start"] \in RestartTypes
        BY <1>0 DEF RestartTypes
      <4> QED BY <1>0, <3>2, <4>1
    <3> QED BY <1>0, <3>1, <3>2
  <2>4. /\ apps' \in [Rows -> RowTypes] /\ count' \in 0 .. MaxApps
        /\ newest' \in [Signatures -> Pids \cup {NoPid}]
    <3>1. newest' \in [Signatures -> Pids \cup {NoPid}]
      BY <1>0, <1>4, <2>2 DEF RegisterApp
    <3>2. CASE UNCHANGED <<apps, count>>
      BY <1>0, <3>1, <3>2
    <3>3. CASE /\ RegisterRow # 0
               /\ Enters(RegisterRow, Session, Head(port).pid, Head(port).pid)
      <4>1. apps' \in [Rows -> RowTypes] /\ count' \in 0 .. MaxApps
        BY <2>2, <3>3, RegisterRowIs, TypeEnters DEF Signatures
      <4> QED BY <3>1, <4>1
    <3> QED BY <1>4, <3>2, <3>3, RegisterAppIs
  <2> QED BY <1>4, <2>1, <2>3, <2>4, TypesAre, TypesAfter DEF RegisterApp
<1>5. CASE UnregisterApp
  <2>1. port' \in Seq(Messages) /\ Len(port') <= PortSize
    BY <1>5, PortTaken DEF UnregisterApp, Receive
  <2>2. apps' \in [Rows -> RowTypes] /\ count' \in 0 .. MaxApps
    BY <1>0, <1>5, UnregisterAppIs, TypeClears
  <2> QED BY <1>5, <2>1, <2>2, TypesAre, TypesAfter DEF UnregisterApp
<1>6. ASSUME NEW i \in Slots, ResolveLaunch(i) PROVE TypeOK'
  <2>1. /\ pending[i].pid \in Pids \cup {NoPid} /\ i \in 0 .. MaxPending
        /\ pending[i].row \in 0 .. MaxApps
    BY <1>0, RegistryConstants DEF LaunchTypes, Slots
  <2>2. daemon' \in DaemonTypes
    BY <1>6, <2>1 DEF ResolveLaunch, DaemonTypes
  <2>3. /\ apps' \in [Rows -> RowTypes]
        /\ newest' \in [Signatures -> Pids \cup {NoPid}]
    <3>1. \/ UNCHANGED <<apps, newest>>
          \/ /\ apps' = [apps EXCEPT ![pending[i].row].port = pending[i].pid]
             /\ newest' = [newest EXCEPT ![System] = pending[i].pid]
      BY <1>6 DEF ResolveLaunch
    <3>2. ASSUME NEW r, NEW q \in Pids \cup {NoPid}
          PROVE  [apps EXCEPT ![r].port = q] \in [Rows -> RowTypes]
      <4> DEFINE row == [apps[r] EXCEPT !.port = q]
      <4>1. r \in Rows => row \in RowTypes
        BY <1>0 DEF RowTypes
      <4>2. [apps EXCEPT ![r].port = q] = [apps EXCEPT ![r] = row]
        BY <1>0
      <4> HIDE DEF row
      <4>3. [apps EXCEPT ![r] = row] \in [Rows -> RowTypes]
        BY <1>0, <4>1
      <4> QED BY <4>2, <4>3
    <3> DEFINE filled == [apps EXCEPT ![pending[i].row].port = pending[i].pid]
    <3>3. filled \in [Rows -> RowTypes]
      BY <2>1, <3>2
    <3>4. [newest EXCEPT ![System] = pending[i].pid] \in [Signatures -> Pids \cup {NoPid}]
      BY <1>0, <2>1
    <3>5. \/ UNCHANGED <<apps, newest>>
          \/ apps' = filled /\ newest' = [newest EXCEPT ![System] = pending[i].pid]
      BY <3>1
    <3> HIDE DEF filled
    <3> QED BY <1>0, <3>3, <3>4, <3>5
  <2> QED BY <1>6, <2>2, <2>3, TypesAre, TypesAfter DEF ResolveLaunch
<1>7. ASSUME NEW s \in Signatures, GetLaunchData(s) PROVE TypeOK'
  <2>1. apps' \in [Rows -> RowTypes]
    BY <1>7, GetLaunchDataIs, TypeClears
  <2> QED BY <1>7, <2>1, TypesAre, TypesAfter DEF GetLaunchData
<1> QED BY <1>1, <1>2, <1>3, <1>4, <1>5, <1>6, <1>7 DEF DaemonStep

LEMMA TypeOthers ==
  ASSUME TypeOK,
         \/ ReapInvalidate \/ SendRegister
         \/ \E t \in Restarters : RestartStep(t)
         \/ \E p \in Pids : Reap(p) \/ ServerReady(p) \/ ServerDies(p) \/ SessionStep(p)
  PROVE  TypeOK'
<1>0. /\ apps \in [Rows -> RowTypes] /\ count \in 0 .. MaxApps
      /\ restart \in [Restarters -> RestartTypes] /\ server \in [Pids -> ServerTypes]
      /\ newest \in [Signatures -> Pids \cup {NoPid}] /\ IdleRestart \in RestartTypes
      /\ report \in Pids \cup {NoPid}
  BY TypesAre, TypesAfter DEF IdleRestart, RestartTypes
<1>1. CASE ReapInvalidate
  <2>1. apps' \in [Rows -> RowTypes]
    BY <1>0, <1>1, InvalidateAppIs, TypeClears DEF ReapInvalidate
  <2> QED BY <1>1, <2>1, TypesAre, TypesAfter DEF ReapInvalidate
<1>2. CASE SendRegister
  <2>1. [what |-> "register", pid |-> report] \in Messages
    BY <1>0, <1>2 DEF SendRegister, Messages
  <2>2. port' \in Seq(Messages) /\ Len(port') <= PortSize
    BY <1>2, <2>1, PortSent DEF SendRegister
  <2> QED BY <1>2, <2>2, TypesAre, TypesAfter DEF SendRegister
<1>3. ASSUME NEW t \in Restarters, RestartStart(t) PROVE TypeOK'
  <2>1. Find(System) # 0 => apps[Find(System)].pid \in Pids \cup {NoPid}
    BY <1>0, RowsAreRows DEF RowTypes
  <2>2. restart' \in [Restarters -> RestartTypes]
    BY <1>0, <1>3, <2>1 DEF RestartStart, RestartTypes
  <2> QED BY <1>3, <2>2, TypesAre, TypesAfter DEF RestartStart
<1>4. ASSUME NEW t \in Restarters, RestartWait(t) PROVE TypeOK'
  <2>1. restart' \in [Restarters -> RestartTypes]
    BY <1>0, <1>4 DEF RestartWait, RestartTypes
  <2>2. server' \in [Pids -> ServerTypes]
    <3>1. \A p \in Pids : [server[p] EXCEPT !.state = "reaped"] \in ServerTypes
      BY <1>0 DEF ServerTypes
    <3>2. server' = [server EXCEPT ![restart[t].old].state = "reaped"]
          \/ UNCHANGED server
      BY <1>4 DEF RestartWait
    <3> QED BY <1>0, <3>1, <3>2
  <2> QED BY <1>4, <2>1, <2>2, TypesAre, TypesAfter DEF RestartWait
<1>5. ASSUME NEW t \in Restarters, RestartInvalidate(t) PROVE TypeOK'
  <2>1. InvalidateApp(restart[t].old) /\ UNCHANGED count
    BY <1>5 DEF RestartInvalidate
  <2>2. apps' \in [Rows -> RowTypes]
    BY <1>0, <2>1, InvalidateAppIs, TypeClears
  <2>3. restart' \in [Restarters -> RestartTypes]
    BY <1>0, <1>5 DEF RestartInvalidate, RestartTypes
  <2>4. newest' \in [Signatures -> Pids \cup {NoPid}]
    BY <1>0, <1>5 DEF RestartInvalidate
  <2> QED BY <1>5, <2>2, <2>3, <2>4, TypesAre, TypesAfter DEF RestartInvalidate
<1>6. ASSUME NEW t \in Restarters, RestartLaunch(t) PROVE TypeOK'
  <2>1. [what |-> "launch"] \in Messages
    BY DEF Messages
  <2>2. port' \in Seq(Messages) /\ Len(port') <= PortSize
    BY <1>6, <2>1, PortSent DEF RestartLaunch
  <2>3. restart' \in [Restarters -> RestartTypes]
    BY <1>0, <1>6 DEF RestartLaunch
  <2> QED BY <1>6, <2>2, <2>3, TypesAre, TypesAfter DEF RestartLaunch
<1>7. ASSUME NEW p \in Pids, Reap(p) \/ ServerReady(p) \/ ServerDies(p)
                             \/ SessionLaunches(p)
      PROVE  TypeOK'
  <2>1. server' \in [Pids -> ServerTypes]
    <3>1. CASE Reap(p) \/ ServerDies(p)
      <4>1. \A z \in {"dead", "reaped"} : [server[p] EXCEPT !.state = z] \in ServerTypes
        BY <1>0 DEF ServerTypes
      <4>2. \E z \in {"dead", "reaped"} :
              server' = [server EXCEPT ![p] = [server[p] EXCEPT !.state = z]]
        BY <1>0, <3>1 DEF Reap, ServerDies
      <4> QED BY <1>0, <4>1, <4>2
    <3>2. CASE ServerReady(p)
      BY <1>0, <3>2 DEF ServerReady, ServerTypes
    <3>3. CASE SessionLaunches(p)
      <4>1. [sig |-> Session, wrote |-> TRUE, state |-> "up"] \in ServerTypes
        BY DEF ServerTypes, Signatures
      <4> QED BY <1>0, <3>3, <4>1 DEF SessionLaunches, Born
    <3> QED BY <1>7, <3>1, <3>2, <3>3
  <2> QED BY <1>7, <2>1, TypesAre, TypesAfter DEF Reap, ServerReady, ServerDies, SessionLaunches
<1>8. ASSUME NEW p \in Pids, SessionReaps(p) PROVE TypeOK'
  <2>1. [what |-> "unregister", pid |-> p] \in Messages
    BY DEF Messages
  <2>2. port' \in Seq(Messages) /\ Len(port') <= PortSize
    BY <1>8, <2>1, PortSent DEF SessionReaps
  <2>3. server' \in [Pids -> ServerTypes]
    BY <1>0, <1>8 DEF SessionReaps, ServerTypes
  <2> QED BY <1>8, <2>2, <2>3, TypesAre, TypesAfter DEF SessionReaps
<1> QED BY <1>1, <1>2, <1>3, <1>4, <1>5, <1>6, <1>7, <1>8 DEF RestartStep, SessionStep

LEMMA TypePurge ==
  ASSUME TypeOK, PurgeSessionApps PROVE TypeOK'
<1>0. /\ apps \in [Rows -> RowTypes] /\ count \in 0 .. MaxApps
      /\ server \in [Pids -> ServerTypes]
      /\ newest \in [Signatures -> Pids \cup {NoPid}]
  BY TypesAre
<1>1. apps' \in [Rows -> RowTypes]
  <2>0. PICK keep \in 0 .. count : \E kept \in [1 .. keep -> Stays] :
          apps' = [i \in Rows |-> IF i <= keep THEN apps[kept[i]] ELSE apps[i]]
    BY DEF PurgeSessionApps
  <2>1. PICK kept \in [1 .. keep -> Stays] :
          apps' = [i \in Rows |-> IF i <= keep THEN apps[kept[i]] ELSE apps[i]]
    BY <2>0
  <2>2. \A i \in Rows : i <= keep => i \in 1 .. keep
    BY <1>0, RegistryConstants DEF Rows
  <2>3. \A r \in Stays : apps[r] \in RowTypes
    BY <1>0, RowsAreRows DEF Stays
  <2>4. \A i \in Rows : (IF i <= keep THEN apps[kept[i]] ELSE apps[i]) \in RowTypes
    BY <1>0, <2>2, <2>3
  <2> QED BY <2>1, <2>4
<1>2. count' \in 0 .. MaxApps
  BY <1>0, PurgeIs, RegistryConstants
<1>3. server' \in [Pids -> ServerTypes]
  <2>1. \A p \in Pids : [server[p] EXCEPT !.state = "reaped"] \in ServerTypes
    BY <1>0 DEF ServerTypes
  <2> QED BY <1>0, <2>1 DEF PurgeSessionApps
<1>4. newest' \in [Signatures -> Pids \cup {NoPid}] /\ report' \in Pids \cup {NoPid}
  BY <1>0 DEF PurgeSessionApps
<1> QED BY <1>1, <1>2, <1>3, <1>4, TypesAre, TypesAfter DEF PurgeSessionApps

LEMMA TypeNext ==
  ASSUME TypeOK, [Next]_vars PROVE TypeOK'
<1>1. CASE UNCHANGED vars
  BY <1>1, TypesAre, TypesAfter DEF vars
<1> QED BY <1>1, TypeDaemon, TypeOthers, TypePurge DEF Next

(* The tables keep their types, across logins: no row or slot beyond the   *)
(* arrays is used, though they get full, are purged, and a launch still    *)
(* knows a row that was purged.                                            *)
THEOREM TypeCorrect == Spec => []TypeOK
BY TypeInit, TypeNext, PTL DEF Spec

-----------------------------------------------------------------------------
(* A server is born once, is of one kind, and does not come back.          *)
Grow ==
  \A p \in Pids :
    /\ server[p].state # "unborn" =>
         server'[p].state # "unborn" /\ server'[p].sig = server[p].sig
    /\ Gone(p) => Gone(p)'
    /\ server[p].state # "unborn" /\ server[p].wrote => server'[p].wrote
    /\ server[p].state # "unborn" /\ server[p].wrote /\ server'[p].state = "up"
         => server[p].state = "up"

LEMMA ServersGrow ==
  ASSUME TypeOK, MessagesInv, [Next]_vars
  PROVE  /\ Grow
         /\ \A p \in Pids : server'[p].sig = Session => server'[p].wrote
<1>0. server \in [Pids -> ServerTypes]
  BY TypesAre
<1>1. \/ UNCHANGED server
      \/ PurgeSessionApps
      \/ \E p \in Pids :
           \/ /\ server[p].state = "unborn"
              /\ \/ server' = [server EXCEPT ![p] = [sig |-> System, wrote |-> FALSE,
                                                    state |-> "up"]]
                 \/ server' = [server EXCEPT ![p] = [sig |-> Session, wrote |-> TRUE,
                                                    state |-> "up"]]
           \/ server' = [server EXCEPT ![p].state = "reaped"] /\ Gone(p)
           \/ server' = [server EXCEPT ![p].state = "dead"] /\ server[p].state = "up"
           \/ server' = [server EXCEPT ![p].wrote = TRUE] /\ ~server[p].wrote
  <2>1. CASE DaemonStep
    BY <2>1 DEF DaemonStep, LaunchJob, RecordLaunch, ReplyLaunch, RegisterApp,
       UnregisterApp, ResolveLaunch, GetLaunchData, Born
  <2>2. CASE ReapInvalidate \/ SendRegister
    BY <2>2 DEF ReapInvalidate, SendRegister
  <2>3. ASSUME NEW t \in Restarters, RestartStep(t)
        PROVE  \/ UNCHANGED server
               \/ \E p \in Pids :
                    server' = [server EXCEPT ![p].state = "reaped"] /\ Gone(p)
    <3>1. CASE ~RestartWait(t)
      BY <2>3, <3>1 DEF RestartStep, RestartStart, RestartInvalidate, RestartLaunch
    <3>2. CASE RestartWait(t) /\ ~UNCHANGED server
      <4>1. /\ Gone(restart[t].old)
            /\ server' = [server EXCEPT ![restart[t].old].state = "reaped"]
        BY <3>2 DEF RestartWait, Gone
      <4>2. CASE restart[t].old \in Pids
        BY <4>1, <4>2
      <4>3. CASE restart[t].old \notin Pids
        BY <1>0, <4>1, <4>3
      <4> QED BY <4>2, <4>3
    <3> QED BY <3>1, <3>2
  <2>4. ASSUME NEW p \in Pids, Reap(p) \/ SessionReaps(p)
        PROVE  server' = [server EXCEPT ![p].state = "reaped"] /\ Gone(p)
    BY <2>4 DEF Reap, SessionReaps, Gone
  <2>5. ASSUME NEW p \in Pids, ServerDies(p)
        PROVE  server' = [server EXCEPT ![p].state = "dead"] /\ server[p].state = "up"
    BY <2>5 DEF ServerDies
  <2>6. ASSUME NEW p \in Pids, ServerReady(p)
        PROVE  server' = [server EXCEPT ![p].wrote = TRUE] /\ ~server[p].wrote
    BY <2>6 DEF ServerReady
  <2>7. ASSUME NEW p \in Pids, SessionLaunches(p)
        PROVE  /\ server[p].state = "unborn"
               /\ server' = [server EXCEPT ![p] = [sig |-> Session, wrote |-> TRUE,
                                                  state |-> "up"]]
    BY <2>7 DEF SessionLaunches, Born
  <2>8. CASE UNCHANGED vars
    BY <2>8 DEF vars
  <2> QED BY <1>0, <2>1, <2>2, <2>3, <2>4, <2>5, <2>6, <2>7, <2>8 DEF Next, SessionStep
<1>2. \A q \in Pids : server[q].sig = Session => server[q].wrote
  BY DEF MessagesInv
<1> USE DEF Grow, Gone, ServerTypes, System, Session
<1>3. CASE UNCHANGED server
  BY <1>0, <1>2, <1>3
<1>4. ASSUME NEW p \in Pids, server[p].state = "unborn",
             \/ server' = [server EXCEPT ![p] = [sig |-> System, wrote |-> FALSE,
                                                state |-> "up"]]
             \/ server' = [server EXCEPT ![p] = [sig |-> Session, wrote |-> TRUE,
                                                state |-> "up"]]
      PROVE  Grow /\ \A q \in Pids : server'[q].sig = Session => server'[q].wrote
  BY <1>0, <1>2, <1>4
<1>5. ASSUME NEW p \in Pids, server' = [server EXCEPT ![p].state = "reaped"], Gone(p)
      PROVE  Grow /\ \A q \in Pids : server'[q].sig = Session => server'[q].wrote
  BY <1>0, <1>2, <1>5
<1>6. ASSUME NEW p \in Pids, server' = [server EXCEPT ![p].state = "dead"],
             server[p].state = "up"
      PROVE  Grow /\ \A q \in Pids : server'[q].sig = Session => server'[q].wrote
  BY <1>0, <1>2, <1>6
<1>7. ASSUME NEW p \in Pids, server' = [server EXCEPT ![p].wrote = TRUE], ~server[p].wrote
      PROVE  Grow /\ \A q \in Pids : server'[q].sig = Session => server'[q].wrote
  BY <1>0, <1>2, <1>7
<1>8. CASE PurgeSessionApps
  <2>1. \A p \in Pids : /\ server'[p].sig = server[p].sig
                        /\ server'[p].wrote = server[p].wrote
                        /\ \/ server'[p].state = server[p].state
                           \/ server'[p].state = "reaped"
    <3> SUFFICES ASSUME NEW p \in Pids
                 PROVE  /\ server'[p].sig = server[p].sig
                        /\ server'[p].wrote = server[p].wrote
                        /\ \/ server'[p].state = server[p].state
                           \/ server'[p].state = "reaped"
      OBVIOUS
    <3>1. server'[p] = IF server[p].sig = Session
                         THEN [server[p] EXCEPT !.state = "reaped"] ELSE server[p]
      BY <1>8 DEF PurgeSessionApps
    <3>2. server[p] \in ServerTypes
      BY <1>0
    <3> QED BY <3>1, <3>2
  <2> QED BY <1>2, <2>1
<1> QED BY <1>1, <1>3, <1>4, <1>5, <1>6, <1>7, <1>8

LEMMA KindsKept ==
  ASSUME Grow, NEW p, NEW s, IsA(p, s)
  PROVE  /\ IsA(p, s)'
         /\ Gone(p) => Gone(p)'
         /\ server[p].wrote /\ PortExists(p)' => PortExists(p)
BY DEF Grow, IsA, PortExists

-----------------------------------------------------------------------------
(* The steps that change the table. *)
Fills(i) ==
  /\ pending[i].active /\ server[pending[i].pid].wrote
  /\ apps[pending[i].row].pid = pending[i].pid
  /\ apps' = [apps EXCEPT ![pending[i].row].port = pending[i].pid]
  /\ newest' = [newest EXCEPT ![System] = pending[i].pid]
  /\ count' = count

LEMMA TableSteps ==
  ASSUME TypeOK, [Next]_vars
  PROVE  \/ UNCHANGED <<apps, count, newest>>
         \/ PurgeSessionApps
         \/ \E r \in 1 .. count :
              /\ Clears(r)
              /\ \/ newest' = newest /\ \/ apps[r].pid = reaping /\ reaping # NoPid
                                        \/ apps[r].pid = Head(port).pid /\ UnregisterApp
                                        \/ apps[r].port # NoPid
                                           /\ ~PortExists(apps[r].port)
                 \/ \E t \in Restarters :
                      /\ RestartInvalidate(t) /\ apps[r].pid = restart[t].old
         \/ /\ UNCHANGED <<apps, count>>
            /\ \E t \in Restarters :
                 /\ RestartInvalidate(t)
                 /\ \A i \in 1 .. count : apps[i].pid # restart[t].old
         \/ /\ RecordLaunch /\ LaunchRow # 0 /\ newest' = newest
            /\ Enters(LaunchRow, System, daemon.pid, NoPid)
         \/ /\ RegisterApp /\ newest' = [newest EXCEPT ![Session] = Head(port).pid]
            /\ \/ UNCHANGED <<apps, count>> /\ NoRoom(Session)
               \/ /\ RegisterRow # 0
                  /\ Enters(RegisterRow, Session, Head(port).pid, Head(port).pid)
         \/ \E i \in Slots : Fills(i)
<1>1. CASE RecordLaunch
  <2>1. newest' = newest
    BY <1>1 DEF RecordLaunch
  <2> QED BY <1>1, <2>1, RecordLaunchIs
<1>2. CASE RegisterApp
  BY <1>2, RegisterAppIs
<1>3. CASE UnregisterApp
  <2>1. newest' = newest
    BY <1>3 DEF UnregisterApp
  <2> QED BY <1>3, <2>1, UnregisterAppIs
<1>4. CASE \E s \in Signatures : GetLaunchData(s)
  <2>1. newest' = newest
    BY <1>4 DEF GetLaunchData
  <2> QED BY <1>4, <2>1, GetLaunchDataIs
<1>5. CASE ReapInvalidate
  <2>1. newest' = newest /\ reaping # NoPid /\ InvalidateApp(reaping) /\ count' = count
    BY <1>5 DEF ReapInvalidate
  <2> QED BY <2>1, InvalidateAppIs
<1>6. ASSUME NEW t \in Restarters, RestartInvalidate(t)
      PROVE  \/ /\ UNCHANGED <<apps, count>>
                /\ \A i \in 1 .. count : apps[i].pid # restart[t].old
             \/ \E r \in 1 .. count : Clears(r) /\ apps[r].pid = restart[t].old
  <2>1. InvalidateApp(restart[t].old) /\ count' = count
    BY <1>6 DEF RestartInvalidate
  <2> QED BY <2>1, InvalidateAppIs
<1>7. ASSUME NEW i \in Slots, ResolveLaunch(i)
      PROVE  UNCHANGED <<apps, count, newest>> \/ Fills(i)
  BY <1>7 DEF ResolveLaunch, Fills
<1>8. CASE \/ LaunchJob \/ ReplyLaunch \/ SendRegister \/ UNCHANGED vars
           \/ \E p \in Pids : Reap(p) \/ ServerReady(p) \/ ServerDies(p) \/ SessionStep(p)
           \/ \E t \in Restarters : RestartStart(t) \/ RestartWait(t) \/ RestartLaunch(t)
  <2>1. UNCHANGED <<apps, count, newest>>
    BY <1>8 DEF LaunchJob, ReplyLaunch, SendRegister, Reap, ServerReady, ServerDies,
       SessionStep, SessionLaunches, SessionReaps, RestartStart, RestartWait,
       RestartLaunch, vars
  <2> QED BY <2>1
<1> QED
  BY <1>1, <1>2, <1>3, <1>4, <1>5, <1>6, <1>7, <1>8
     DEF Next, DaemonStep, RestartStep

(* The rows after a step: cleared, entered or filled. *)
LEMMA ClearsRows ==
  ASSUME TypeOK, NEW r, Clears(r)
  PROVE  /\ count' = count /\ r \in 1 .. count
         /\ apps'[r].sig = apps[r].sig /\ apps'[r].pid = NoPid /\ apps'[r].port = NoPid
         /\ \A i \in 1 .. count : i # r => apps'[i] = apps[i]
<1>1. r \in Rows /\ apps \in [Rows -> RowTypes]
  BY TypesAre, RowsAreRows DEF Clears
<1> QED BY <1>1 DEF Clears, Cleared, RowTypes

LEMMA EntersRows ==
  ASSUME TypeOK, NEW r, NEW s, NEW p, NEW q, Enters(r, s, p, q),
         \/ r \in 1 .. count /\ Grown(r) = count
         \/ r = count + 1 /\ Grown(r) = count + 1
  PROVE  /\ r \in 1 .. count' /\ 1 .. count \subseteq 1 .. count'
         /\ apps'[r] = [sig |-> s, pid |-> p, port |-> q]
         /\ \A i \in 1 .. count' : i # r => i \in 1 .. count /\ apps'[i] = apps[i]
<1>1. r \in Rows /\ apps \in [Rows -> RowTypes] /\ count \in Nat
  BY TypesAre DEF Enters
<1>2. 1 .. count' = 1 .. count \cup {r}
  BY <1>1 DEF Enters
<1> QED BY <1>1, <1>2 DEF Enters

LEMMA FillsRows ==
  ASSUME TypeOK, LaunchesInv, NEW j \in Slots, Fills(j)
  PROVE  LET r == pending[j].row
         IN  /\ count' = count
             /\ apps'[r].sig = apps[r].sig /\ apps'[r].pid = apps[r].pid
             /\ apps'[r].port = apps[r].pid /\ apps[r].pid = pending[j].pid
             /\ \A i \in 1 .. count : i # r => apps'[i] = apps[i]
<1>1. pending[j].row \in Rows /\ apps \in [Rows -> RowTypes]
  BY TypesAre, RowsAreRows DEF Fills, LaunchesInv
<1> QED BY <1>1 DEF Fills, RowTypes
-----------------------------------------------------------------------------
(* Rows name servers of their signature. *)
Fits(row, sv) ==
  /\ row.sig \in Signatures
  /\ row.pid # NoPid =>
       row.pid \in Pids /\ sv[row.pid].sig = row.sig /\ sv[row.pid].state # "unborn"
  /\ row.port \in {NoPid, row.pid}

LEMMA RowsStep ==
  ASSUME TypeOK, RowsInv, LaunchesInv, MessagesInv, [Next]_vars
  PROVE  RowsInv'
<1>1. Grow
  BY ServersGrow
<1>2. \A row : Fits(row, server) => Fits(row, server')
  BY <1>1 DEF Fits, Grow
<1>3. \A i \in 1 .. count : Fits(apps[i], server')
  BY <1>2 DEF RowsInv, Fits, IsA
<1>4. SUFFICES \A i \in 1 .. count' : Fits(apps'[i], server')
  BY DEF RowsInv, Fits, IsA
<1>5. CASE UNCHANGED <<apps, count>>
  BY <1>3, <1>5
<1>6. ASSUME NEW r, Clears(r) PROVE \A i \in 1 .. count' : Fits(apps'[i], server')
  <2>1. Fits(apps'[r], server')
    BY <1>3, <1>6, ClearsRows DEF Fits
  <2> QED BY <1>3, <1>6, <2>1, ClearsRows
<1>7. ASSUME NEW j \in Slots, Fills(j)
      PROVE  \A i \in 1 .. count' : Fits(apps'[i], server')
  <2>1. pending[j].row \in 1 .. count => Fits(apps'[pending[j].row], server')
    BY <1>3, <1>7, FillsRows DEF Fits
  <2> QED BY <1>3, <1>7, <2>1, FillsRows
<1>8. ASSUME NEW r, NEW s \in Signatures, NEW p, NEW q \in {NoPid, p}, IsA(p, s),
             Enters(r, s, p, q),
             \/ r \in 1 .. count /\ Grown(r) = count
             \/ r = count + 1 /\ Grown(r) = count + 1
      PROVE  \A i \in 1 .. count' : Fits(apps'[i], server')
  <2>1. /\ apps'[r] = [sig |-> s, pid |-> p, port |-> q]
        /\ \A i \in 1 .. count' : i # r => i \in 1 .. count /\ apps'[i] = apps[i]
    BY <1>8, EntersRows
  <2>2. Fits([sig |-> s, pid |-> p, port |-> q], server')
    BY <1>1, <1>8 DEF Fits, Grow, IsA
  <2> QED BY <1>3, <2>1, <2>2
<1>9. CASE RecordLaunch /\ LaunchRow # 0 /\ Enters(LaunchRow, System, daemon.pid, NoPid)
  <2>1. IsA(daemon.pid, System) /\ System \in Signatures
    BY <1>9 DEF LaunchesInv, RecordLaunch, Signatures
  <2> QED BY <1>8, <1>9, <2>1, LaunchRowIs
<1>10. CASE /\ RegisterApp /\ RegisterRow # 0
            /\ Enters(RegisterRow, Session, Head(port).pid, Head(port).pid)
  <2>1. IsA(Head(port).pid, Session) /\ Session \in Signatures
    BY <1>10, PortTaken DEF MessagesInv, RegisterApp, Receive, Signatures
  <2> QED BY <1>8, <1>10, <2>1, RegisterRowIs
<1>11. CASE PurgeSessionApps
  <2>1. PICK kept : Moves(count', kept)
    BY <1>11, PurgeIs
  <2> QED BY <1>3, <2>1 DEF Moves
<1> QED BY <1>5, <1>6, <1>7, <1>9, <1>10, <1>11, TableSteps

(* A row is added only when its signature has none, or none whose server   *)
(* may be alive; of the registrar's, only when it has none.                *)
LEMMA OneRowStep ==
  ASSUME TypeOK, RowsInv, LaunchesInv, NEW s \in Signatures, OneRow(s),
         s = Session \/ ClearedInv, [Next]_vars
  PROVE  OneRow(s)'
<1>0. SUFFICES \A i, j \in 1 .. count' : apps'[i].sig = s /\ apps'[j].sig = s => i = j
  BY DEF OneRow
<1>1. CASE \/ UNCHANGED <<apps, count>>
           \/ \E r \in 1 .. count : Clears(r)
           \/ \E j \in Slots : Fills(j)
  <2>1. count' = count /\ \A i \in 1 .. count : apps'[i].sig = apps[i].sig
    BY <1>1, ClearsRows, FillsRows
  <2> QED BY <2>1 DEF OneRow
<1>2. ASSUME NEW r, NEW u, NEW p, NEW q, Enters(r, u, p, q),
             \/ r \in 1 .. count /\ Grown(r) = count /\ apps[r].sig = u
             \/ r = count + 1 /\ Grown(r) = count + 1 /\ (u = s => RowsOf(u) = {})
      PROVE  \A i, j \in 1 .. count' : apps'[i].sig = s /\ apps'[j].sig = s => i = j
  <2>1. /\ apps'[r] = [sig |-> u, pid |-> p, port |-> q]
        /\ \A i \in 1 .. count' : i # r => i \in 1 .. count /\ apps'[i] = apps[i]
    BY <1>2, EntersRows
  <2>2. u = s => \A i \in 1 .. count' : i # r => apps[i].sig # s
    BY <1>2, <2>1 DEF OneRow, RowsOf
  <2>3. apps'[r].sig = u
    BY <2>1
  <2> QED BY <2>1, <2>2, <2>3 DEF OneRow
<1>3. CASE RecordLaunch /\ LaunchRow # 0 /\ Enters(LaunchRow, System, daemon.pid, NoPid)
  <2>1. s = System => AllCleared
    BY <1>3 DEF ClearedInv, RecordLaunch, System, Session
  <2>2. s = System /\ (\A i \in RowsOf(System) : apps[i].pid # NoPid)
          => RowsOf(System) = {}
    BY <2>1 DEF AllCleared, RowsOf
  <2> QED BY <1>2, <1>3, <2>2, LaunchRowIs
<1>4. CASE /\ RegisterApp /\ RegisterRow # 0
           /\ Enters(RegisterRow, Session, Head(port).pid, Head(port).pid)
  BY <1>2, <1>4, RegisterRowIs
<1>5. CASE PurgeSessionApps
  <2>1. PICK kept : Moves(count', kept)
    BY <1>5, PurgeIs
  <2>2. \A i, j \in 1 .. count' : i < j => kept[i] # kept[j]
    <3>1. count \in Nat /\ count' \in 0 .. count
      BY <1>5, PurgeIs, RegistryConstants DEF TypeOK
    <3>2. \A i \in 1 .. count' : kept[i] \in 1 .. count
      BY <2>1 DEF Moves
    <3>3. \A i, j \in 1 .. count' : i < j => kept[i] < kept[j]
      BY <2>1 DEF Moves
    <3> QED BY <3>1, <3>2, <3>3
  <2>3. \A i, j \in 1 .. count' : apps'[i].sig = s /\ apps'[j].sig = s => kept[i] = kept[j]
    BY <2>1 DEF Moves, OneRow
  <2>4. count' \in Nat
    BY <1>5, PurgeIs DEF TypeOK
  <2> QED BY <2>2, <2>3, <2>4
<1> QED BY <1>1, <1>3, <1>4, <1>5, TableSteps

(* A table that has no room for a signature gets no room within a login.   *)
LEMMA NoRoomStays ==
  ASSUME TypeOK, LaunchesInv, NEW s \in Signatures, NoRoom(s), [Next]_vars,
         ~PurgeSessionApps
  PROVE  count' = MaxApps /\ \A i \in 1 .. count' : apps'[i].sig # s
<1>1. count = MaxApps /\ \A i \in 1 .. count : apps[i].sig # s
  BY DEF NoRoom, RowsOf
<1>2. CASE \/ UNCHANGED <<apps, count>>
           \/ \E r \in 1 .. count : Clears(r)
           \/ \E j \in Slots : Fills(j)
  <2>1. count' = count /\ \A i \in 1 .. count : apps'[i].sig = apps[i].sig
    BY <1>2, ClearsRows, FillsRows
  <2> QED BY <1>1, <2>1
<1>3. ASSUME NEW r, NEW u \in Signatures, NEW p, NEW q, Enters(r, u, p, q),
             \/ r \in 1 .. count /\ Grown(r) = count /\ apps[r].sig = u
             \/ r = count + 1 /\ Grown(r) = count + 1,
             Grown(r) \in 0 .. MaxApps
      PROVE  count' = MaxApps /\ \A i \in 1 .. count' : apps'[i].sig # s
  <2>1. r \in 1 .. count /\ Grown(r) = count /\ apps[r].sig = u
    BY <1>1, <1>3, RegistryConstants
  <2>2. u # s /\ count' = count
    BY <1>1, <1>3, <2>1 DEF Enters
  <2>3. /\ apps'[r] = [sig |-> u, pid |-> p, port |-> q]
        /\ \A i \in 1 .. count' : i # r => i \in 1 .. count /\ apps'[i] = apps[i]
    BY <1>3, <2>1, EntersRows
  <2>4. apps'[r].sig = u
    BY <2>3
  <2> QED BY <1>1, <2>2, <2>3, <2>4
<1>4. CASE RecordLaunch /\ LaunchRow # 0 /\ Enters(LaunchRow, System, daemon.pid, NoPid)
  BY <1>3, <1>4, LaunchRowIs DEF Signatures
<1>5. CASE /\ RegisterApp /\ RegisterRow # 0
           /\ Enters(RegisterRow, Session, Head(port).pid, Head(port).pid)
  BY <1>3, <1>5, RegisterRowIs DEF Signatures
<1> QED BY <1>2, <1>4, <1>5, TableSteps

(* What was last heard of keeps its row: a row that is cleared was a dead  *)
(* server's, or the one that the restart thread forgets as well.  A purge  *)
(* forgets the registrar, and a launch writes to mount_server's row unless *)
(* a purge has moved that.                                                 *)
LEMMA HeardStep ==
  ASSUME TypeOK, RowsInv, LaunchesInv, MessagesInv, [Next]_vars,
         NEW s \in Signatures, HeardInv(s),
         s = Session \/ (OneLogin /\ SlotsInv)
  PROVE  HeardInv(s)'
<1> DEFINE Ready(p) ==
             /\ p \in Pids /\ server'[p].sig = s /\ server'[p].state # "unborn"
             /\ server'[p].wrote
           HasRow(p) ==
             \E i \in 1 .. count' :
               apps'[i].sig = s /\ apps'[i].pid = p /\ apps'[i].port = p
           Full == count' = MaxApps /\ \A i \in 1 .. count' : apps'[i].sig # s
           Heard ==
             /\ newest'[s] # NoPid => Ready(newest'[s])
             /\ Ready(newest'[s]) /\ server'[newest'[s]].state = "up"
                  => HasRow(newest'[s]) \/ Full
<1>0. Grow /\ \A p \in Pids : server'[p].sig = Session => server'[p].wrote
  BY ServersGrow
<1>1. newest'[s] = newest[s] =>
        /\ newest'[s] # NoPid => Ready(newest'[s])
        /\ Ready(newest'[s]) /\ server'[newest'[s]].state = "up" =>
             /\ newest[s] \in Pids /\ IsA(newest[s], s) /\ PortExists(newest[s])
             /\ Entered(s) \/ NoRoom(s)
             /\ ~Gone(newest[s])
  BY <1>0, RegistryConstants DEF HeardInv, Grow, IsA, PortExists, Gone
<1>2. ASSUME newest'[s] = newest[s], NoRoom(s) => Full,
             NEW r,
             \A i \in 1 .. count : i # r => i \in 1 .. count' /\ apps'[i] = apps[i],
             r \in 1 .. count /\ apps[r].pid = newest[s] /\ newest[s] \in Pids
               => Gone(newest[s]) \/ ~PortExists(newest[s]) \/ apps[r].sig # s
      PROVE  Heard
  <2>1. ASSUME Ready(newest'[s]), server'[newest'[s]].state = "up"
        PROVE  HasRow(newest'[s]) \/ Full
    <3>1. CASE Entered(s)
      <4>1. PICK i \in 1 .. count :
              apps[i].sig = s /\ apps[i].pid = newest[s] /\ apps[i].port = newest[s]
        BY <3>1 DEF Entered
      <4>2. i # r
        BY <1>1, <1>2, <2>1, <4>1
      <4> QED BY <1>2, <4>1, <4>2
    <3>2. CASE NoRoom(s)
      BY <1>2, <3>2
    <3> QED BY <1>1, <1>2, <2>1, <3>1, <3>2
  <2> QED BY <1>1, <1>2, <2>1
<1>3. SUFFICES Heard
  BY RegistryConstants DEF HeardInv, IsA, PortExists, Entered, NoRoom, RowsOf
<1> HIDE DEF Heard, Ready, HasRow, Full
<1>4. CASE PurgeSessionApps
  <2>1. s = Session
    BY <1>4 DEF PurgeSessionApps, OneLogin
  <2>2. newest'[s] = NoPid
    BY <1>4, <2>1 DEF PurgeSessionApps, TypeOK
  <2> QED BY <2>2, RegistryConstants DEF Heard, Ready
<1>5. SUFFICES ASSUME ~PurgeSessionApps PROVE Heard
  BY <1>4
<1>6. NoRoom(s) => Full
  BY <1>5, NoRoomStays DEF Full
<1>7. CASE UNCHANGED <<apps, count, newest>>
  <2>1. 0 \notin 1 .. count
    BY DEF TypeOK
  <2> QED BY <1>2, <1>6, <1>7, <2>1
<1>8. ASSUME NEW r \in 1 .. count, Clears(r), newest' = newest,
             \/ apps[r].pid = reaping /\ reaping # NoPid
             \/ apps[r].pid = Head(port).pid /\ UnregisterApp
             \/ apps[r].port # NoPid /\ ~PortExists(apps[r].port)
      PROVE  Heard
  <2>1. ASSUME apps[r].pid = newest[s]
        PROVE  Gone(newest[s]) \/ ~PortExists(newest[s])
    <3>1. CASE apps[r].pid = reaping /\ reaping # NoPid
      BY <2>1, <3>1 DEF LaunchesInv
    <3>2. CASE apps[r].pid = Head(port).pid /\ UnregisterApp
      BY <2>1, <3>2, PortTaken DEF MessagesInv, UnregisterApp, Receive
    <3>3. CASE apps[r].port # NoPid /\ ~PortExists(apps[r].port)
      BY <2>1, <3>3 DEF RowsInv
    <3> QED BY <1>8, <3>1, <3>2, <3>3
  <2>2. \A i \in 1 .. count : i # r => i \in 1 .. count' /\ apps'[i] = apps[i]
    BY <1>8, ClearsRows
  <2> QED BY <1>2, <1>6, <1>8, <2>1, <2>2
<1>9. ASSUME NEW t \in Restarters, RestartInvalidate(t),
             \/ \E r \in 1 .. count : Clears(r) /\ apps[r].pid = restart[t].old
             \/ UNCHANGED <<apps, count>>
      PROVE  Heard
  <2>1. /\ newest' = IF newest[System] = restart[t].old
                       THEN [newest EXCEPT ![System] = NoPid] ELSE newest
        /\ restart[t].old \in Pids /\ server[restart[t].old].sig = System
    BY <1>9 DEF RestartInvalidate, LaunchesInv, IsA
  <2>2. newest \in [Signatures -> Pids \cup {NoPid}]
    BY DEF TypeOK
  <2>3. CASE newest'[s] = NoPid
    BY <2>3, RegistryConstants DEF Heard, Ready
  <2>4. CASE newest'[s] # NoPid
    <3>1. newest'[s] = newest[s] /\ newest[s] # restart[t].old
      <4>1. CASE s = System
        BY <2>1, <2>2, <2>4, <4>1 DEF Signatures
      <4>2. CASE s = Session
        <5>1. newest'[s] = newest[s]
          BY <2>1, <2>2, <4>2 DEF Signatures, System, Session
        <5>2. server[newest[s]].sig = Session
          BY <2>4, <4>2, <5>1 DEF HeardInv, IsA
        <5> QED BY <2>1, <5>1, <5>2 DEF System, Session
      <4> QED BY <4>1, <4>2 DEF Signatures
    <3>2. CASE \E r \in 1 .. count : Clears(r) /\ apps[r].pid = restart[t].old
      <4>1. PICK r \in 1 .. count : Clears(r) /\ apps[r].pid = restart[t].old
        BY <3>2
      <4>2. \A i \in 1 .. count : i # r => i \in 1 .. count' /\ apps'[i] = apps[i]
        BY <4>1, ClearsRows
      <4> QED BY <1>2, <1>6, <3>1, <4>1, <4>2
    <3>3. CASE UNCHANGED <<apps, count>>
      <4>1. 0 \notin 1 .. count
        BY DEF TypeOK
      <4> QED BY <1>2, <1>6, <3>1, <3>3, <4>1
    <3> QED BY <1>9, <3>2, <3>3
  <2> QED BY <2>3, <2>4
<1>10. CASE /\ RecordLaunch /\ LaunchRow # 0 /\ newest' = newest
            /\ Enters(LaunchRow, System, daemon.pid, NoPid)
  <2>1. \A i \in 1 .. count : i # LaunchRow => i \in 1 .. count' /\ apps'[i] = apps[i]
    <3>1. \/ LaunchRow \in 1 .. count /\ Grown(LaunchRow) = count
          \/ LaunchRow = count + 1 /\ Grown(LaunchRow) = count + 1
      BY <1>10, LaunchRowIs
    <3>2. /\ 1 .. count \subseteq 1 .. count'
          /\ \A i \in 1 .. count' : i # LaunchRow => apps'[i] = apps[i]
      BY <1>10, <3>1, EntersRows
    <3> QED BY <3>2
  <2>2. LaunchRow \in 1 .. count => apps[LaunchRow].pid = NoPid
    BY <1>10, LaunchRowIs DEF TypeOK
  <2>3. ~(LaunchRow \in 1 .. count
          /\ apps[LaunchRow].pid = newest[s] /\ newest[s] \in Pids)
    BY <2>2, RegistryConstants
  <2> QED BY <1>2, <1>6, <1>10, <2>1, <2>3
<1>11. CASE /\ RegisterApp /\ newest' = [newest EXCEPT ![Session] = Head(port).pid]
            /\ \/ UNCHANGED <<apps, count>> /\ NoRoom(Session)
               \/ /\ RegisterRow # 0
                  /\ Enters(RegisterRow, Session, Head(port).pid, Head(port).pid)
  <2>1. /\ IsA(Head(port).pid, Session) /\ Session \in Signatures
        /\ newest \in [Signatures -> Pids \cup {NoPid}]
    BY <1>11, PortTaken DEF MessagesInv, RegisterApp, Receive, Signatures, TypeOK
  <2>2. ASSUME RegisterRow # 0,
               Enters(RegisterRow, Session, Head(port).pid, Head(port).pid)
        PROVE  /\ RegisterRow \in 1 .. count'
               /\ apps'[RegisterRow] = [sig |-> Session, pid |-> Head(port).pid,
                                        port |-> Head(port).pid]
               /\ \A i \in 1 .. count :
                    i # RegisterRow => i \in 1 .. count' /\ apps'[i] = apps[i]
               /\ RegisterRow \in 1 .. count => apps[RegisterRow].sig = Session
    <3>1. \/ RegisterRow \in 1 .. count /\ Grown(RegisterRow) = count
          \/ RegisterRow = count + 1 /\ Grown(RegisterRow) = count + 1
      BY <2>2, RegisterRowIs
    <3>2. /\ RegisterRow \in 1 .. count' /\ 1 .. count \subseteq 1 .. count'
          /\ apps'[RegisterRow] = [sig |-> Session, pid |-> Head(port).pid,
                                   port |-> Head(port).pid]
          /\ \A i \in 1 .. count' : i # RegisterRow => apps'[i] = apps[i]
      BY <2>2, <3>1, EntersRows
    <3>3. RegisterRow \in 1 .. count => apps[RegisterRow].sig = Session
      BY <2>2, RegisterRowIs DEF TypeOK
    <3> QED BY <3>2, <3>3
  <2>3. CASE s = System
    <3>1. newest'[s] = newest[s] /\ s # Session
      BY <1>11, <2>1, <2>3 DEF Signatures, System, Session
    <3>2. CASE UNCHANGED <<apps, count>>
      <4>1. 0 \notin 1 .. count
        BY DEF TypeOK
      <4> QED BY <1>2, <1>6, <3>1, <3>2, <4>1
    <3>3. CASE /\ RegisterRow # 0
               /\ Enters(RegisterRow, Session, Head(port).pid, Head(port).pid)
      BY <1>2, <1>6, <2>2, <3>1, <3>3
    <3> QED BY <1>11, <3>2, <3>3
  <2>4. CASE s = Session
    <3>1. newest'[s] = Head(port).pid
      BY <1>11, <2>1, <2>4
    <3>2. HasRow(newest'[s]) \/ Full
      <4>1. CASE UNCHANGED <<apps, count>> /\ NoRoom(Session)
        BY <1>6, <2>4, <4>1
      <4>2. CASE /\ RegisterRow # 0
                 /\ Enters(RegisterRow, Session, Head(port).pid, Head(port).pid)
        BY <2>2, <2>4, <3>1, <4>2 DEF HasRow
      <4> QED BY <1>11, <4>1, <4>2
    <3>3. Ready(newest'[s])
      BY <1>0, <2>1, <2>4, <3>1 DEF IsA, Grow, Ready
    <3> QED BY <3>2, <3>3 DEF Heard
  <2> QED BY <2>3, <2>4 DEF Signatures
<1>12. ASSUME NEW j \in Slots, Fills(j) PROVE Heard
  <2> DEFINE r == pending[j].row
             p == pending[j].pid
  <2>1. /\ pending[j].active /\ server[p].wrote /\ IsA(p, System)
        /\ newest' = [newest EXCEPT ![System] = p]
        /\ newest \in [Signatures -> Pids \cup {NoPid}]
    BY <1>12 DEF Fills, LaunchesInv, TypeOK
  <2>2. /\ count' = count
        /\ apps'[r].sig = apps[r].sig /\ apps'[r].pid = p
        /\ apps'[r].port = p /\ apps[r].pid = p
        /\ \A i \in 1 .. count : i # r => i \in 1 .. count' /\ apps'[i] = apps[i]
    BY <1>12, FillsRows
  <2>3. s = Session \/ r \in 1 .. count
    BY <2>1 DEF SlotsInv
  <2> HIDE DEF r, p
  <2>4. r \in 1 .. count => apps[r].sig = System
    BY <2>1, <2>2, RegistryConstants DEF RowsInv, IsA
  <2>5. CASE s = Session
    <3>1. newest'[s] = newest[s] /\ System # s
      BY <2>1, <2>5 DEF Signatures, System, Session
    <3> QED BY <1>2, <1>6, <2>2, <2>4, <3>1
  <2>6. CASE s = System
    <3>1. newest'[s] = p /\ r \in 1 .. count
      BY <2>1, <2>3, <2>6 DEF Signatures, System, Session
    <3>2. HasRow(newest'[s])
      BY <2>2, <2>4, <2>6, <3>1 DEF HasRow
    <3>3. Ready(newest'[s])
      BY <1>0, <2>1, <2>6, <3>1 DEF IsA, Grow, Ready
    <3> QED BY <3>2, <3>3 DEF Heard
  <2> QED BY <2>5, <2>6 DEF Signatures
<1> QED
  BY <1>5, <1>7, <1>8, <1>9, <1>10, <1>11, <1>12, TableSteps

-----------------------------------------------------------------------------
(* The launches, the threads and the messages name servers of their kind.  *)
LEMMA MessagesStep ==
  ASSUME TypeOK, MessagesInv, [Next]_vars PROVE MessagesInv'
<1> DEFINE Is(p, s) == p \in Pids /\ server'[p].sig = s /\ server'[p].state # "unborn"
           Was(p) == server'[p].state \in {"dead", "reaped"}
           Ok(m) == /\ m.what = "register" => Is(m.pid, Session)
                    /\ m.what = "unregister" => Is(m.pid, Session) /\ Was(m.pid)
           Told == /\ \A k \in DOMAIN port' : Ok(port'[k])
                   /\ report' # NoPid => Is(report', Session)
<1>0. Grow /\ \A p \in Pids : server'[p].sig = Session => server'[p].wrote
  BY ServersGrow
<1>1. SUFFICES Told
  BY <1>0 DEF MessagesInv, IsA, Gone
<1>2. /\ \A k \in DOMAIN port : Ok(port[k])
      /\ report # NoPid => Is(report, Session)
  BY <1>0 DEF MessagesInv, IsA, Gone, Grow
<1> HIDE DEF Is, Was, Ok
<1>3. CASE UNCHANGED <<port, report>>
  BY <1>2, <1>3
<1>4. CASE UNCHANGED report /\ port # <<>> /\ port' = Tail(port)
  BY <1>2, <1>4, PortTaken
<1>5. CASE SendRegister
  <2>1. /\ Send([what |-> "register", pid |-> report]) /\ report # NoPid
        /\ report' = NoPid
        /\ [what |-> "register", pid |-> report] \in Messages
    BY <1>5 DEF SendRegister, TypeOK, Messages
  <2>2. Ok([what |-> "register", pid |-> report])
    BY <1>2, <2>1 DEF Ok
  <2> QED BY <1>2, <2>1, <2>2, PortSent
<1>6. ASSUME NEW p \in Pids, SessionReaps(p) PROVE Told
  <2>1. /\ Send([what |-> "unregister", pid |-> p]) /\ report' = report
        /\ [what |-> "unregister", pid |-> p] \in Messages
    BY <1>6 DEF SessionReaps, Messages
  <2>2. server'[p].sig = Session /\ server'[p].state = "reaped"
    BY <1>6 DEF SessionReaps, TypeOK
  <2>3. Ok([what |-> "unregister", pid |-> p])
    BY <2>2 DEF Ok, Is, Was
  <2> QED BY <1>2, <2>1, <2>3, PortSent
<1>7. ASSUME NEW p \in Pids, SessionLaunches(p) PROVE Told
  <2>1. port' = port /\ report' = p /\ server'[p].sig = Session /\ server'[p].state = "up"
    BY <1>7 DEF SessionLaunches, Born, TypeOK
  <2> QED BY <1>2, <2>1 DEF Is
<1>8. ASSUME NEW t \in Restarters, RestartLaunch(t) PROVE Told
  <2>1. /\ Send([what |-> "launch"]) /\ report' = report
        /\ [what |-> "launch"] \in Messages
    BY <1>8 DEF RestartLaunch, Messages
  <2>2. Ok([what |-> "launch"])
    BY DEF Ok
  <2> QED BY <1>2, <2>1, <2>2, PortSent
<1> HIDE DEF Told
<1>9. CASE \/ RecordLaunch \/ ReplyLaunch \/ ReapInvalidate \/ UNCHANGED vars
           \/ \E i \in Slots : ResolveLaunch(i)
           \/ \E s \in Signatures : GetLaunchData(s)
           \/ \E p \in Pids : Reap(p) \/ ServerReady(p) \/ ServerDies(p)
           \/ \E t \in Restarters : RestartStart(t) \/ RestartWait(t) \/ RestartInvalidate(t)
  BY <1>3, <1>9 DEF RecordLaunch, ReplyLaunch, ReapInvalidate, ResolveLaunch,
     GetLaunchData, Reap, ServerReady, ServerDies, RestartStart, RestartWait,
     RestartInvalidate, vars
<1>10. CASE LaunchJob \/ RegisterApp \/ UnregisterApp
  BY <1>4, <1>10 DEF LaunchJob, RegisterApp, UnregisterApp, Receive
<1>11. CASE PurgeSessionApps
  BY <1>2, <1>11 DEF PurgeSessionApps, Told
<1> QED BY <1>5, <1>6, <1>7, <1>8, <1>9, <1>10, <1>11
        DEF Next, DaemonStep, RestartStep, SessionStep

(* No row goes away within a login, nor does that of a waiting launch.     *)
LEMMA SlotsStep ==
  ASSUME OneLogin, TypeOK, SlotsInv, [Next]_vars PROVE SlotsInv'
<1>1. 1 .. count \subseteq 1 .. count'
  <2>1. CASE RecordLaunch /\ LaunchRow # 0 /\ Enters(LaunchRow, System, daemon.pid, NoPid)
    BY <2>1, LaunchRowIs, EntersRows
  <2>2. CASE /\ RegisterApp /\ RegisterRow # 0
             /\ Enters(RegisterRow, Session, Head(port).pid, Head(port).pid)
    BY <2>2, RegisterRowIs, EntersRows
  <2>3. ~PurgeSessionApps
    BY DEF OneLogin, PurgeSessionApps
  <2> QED BY <2>1, <2>2, <2>3, ClearsRows, TableSteps DEF Fills
<1>2. pending \in [Slots -> LaunchTypes]
  BY TypesAre
<1>3. CASE pending' = pending
  BY <1>1, <1>3 DEF SlotsInv
<1>4. CASE RecordLaunch
  <2>1. CASE LaunchRow # 0 /\ Enters(LaunchRow, System, daemon.pid, NoPid)
             /\ \E i \in Slots :
                  pending' = [pending EXCEPT ![i] =
                    [active |-> TRUE, row |-> LaunchRow, pid |-> daemon.pid]]
    <3>1. LaunchRow \in 1 .. count'
      BY <2>1, LaunchRowIs, EntersRows
    <3> QED BY <1>1, <1>2, <2>1, <3>1 DEF SlotsInv
  <2> QED BY <1>3, <1>4, <2>1, RecordLaunchIs
<1>5. CASE ReplyLaunch
  BY <1>1, <1>2, <1>5 DEF ReplyLaunch, NoLaunch, SlotsInv
<1>6. RecordLaunch \/ ReplyLaunch \/ pending' = pending
  BY DEF Next, vars, DaemonStep, LaunchJob, RegisterApp, UnregisterApp, ResolveLaunch,
     GetLaunchData, ReapInvalidate, Reap, RestartStep, RestartStart, RestartWait,
     RestartInvalidate, RestartLaunch, PurgeSessionApps, SendRegister, ServerReady,
     ServerDies, SessionStep, SessionLaunches, SessionReaps
<1> QED BY <1>3, <1>4, <1>5, <1>6

LEMMA LaunchesStep ==
  ASSUME TypeOK, RowsInv, LaunchesInv, MessagesInv, [Next]_vars
  PROVE  LaunchesInv'
<1> DEFINE Is(p, s) == p \in Pids /\ server'[p].sig = s /\ server'[p].state # "unborn"
           Was(p) == server'[p].state \in {"dead", "reaped"}
           Pending == \A i \in Slots : pending'[i].active =>
                        pending'[i].row \in Rows /\ Is(pending'[i].pid, System)
           Daemon == /\ daemon'.pc = "record" => Is(daemon'.pid, System)
                     /\ daemon'.pc = "reply" => daemon'.slot \in Slots
           Reaping == reaping' # NoPid => Is(reaping', System) /\ Was(reaping')
           Restart == \A t \in Restarters :
                        restart'[t].pc \in {"wait", "invalidate"}
                          => Is(restart'[t].old, System)
<1>1. SUFFICES Pending /\ Daemon /\ Reaping /\ Restart
  BY DEF LaunchesInv, IsA, Gone
<1>2. Grow
  BY ServersGrow
<1>3. /\ pending' = pending => Pending
      /\ daemon' = daemon => Daemon
      /\ reaping' = reaping => Reaping
      /\ restart' = restart => Restart
  BY <1>2 DEF LaunchesInv, IsA, Gone, Grow
<1>4. /\ \A i \in Slots : pending[i].active =>
           pending[i].row \in Rows /\ Is(pending[i].pid, System)
      /\ daemon.pc = "record" => Is(daemon.pid, System)
      /\ \A t \in Restarters : restart[t].pc \in {"wait", "invalidate"}
                                 => Is(restart[t].old, System)
  BY <1>2 DEF LaunchesInv, IsA, Grow
<1>5. pending \in [Slots -> LaunchTypes] /\ restart \in [Restarters -> RestartTypes]
  BY TypesAre
<1> HIDE DEF Is, Was
<1>6. CASE LaunchJob
  <2>1. PICK p \in Pids :
          /\ server' = [server EXCEPT ![p] = [sig |-> System, wrote |-> FALSE,
                                             state |-> "up"]]
          /\ daemon' = [IdleDaemon EXCEPT !.pc = "record", !.pid = p]
    BY <1>6 DEF LaunchJob, Born
  <2>2. daemon'.pc = "record" /\ daemon'.pid = p
    BY <2>1 DEF IdleDaemon
  <2>3. Is(p, System)
    BY <2>1 DEF TypeOK, Is
  <2> QED BY <1>3, <1>6, <2>2, <2>3 DEF LaunchJob
<1>7. CASE RecordLaunch
  <2>1. Pending
    <3>1. CASE LaunchRow # 0 /\ Enters(LaunchRow, System, daemon.pid, NoPid)
               /\ \E i \in Slots :
                    pending' = [pending EXCEPT ![i] =
                      [active |-> TRUE, row |-> LaunchRow, pid |-> daemon.pid]]
      <4>1. LaunchRow \in Rows /\ Is(daemon.pid, System)
        BY <1>4, <1>7, <3>1, LaunchRowIs DEF RecordLaunch
      <4> QED BY <1>4, <1>5, <3>1, <4>1
    <3> QED BY <1>3, <1>7, <3>1, RecordLaunchIs
  <2> QED BY <1>3, <1>7, <2>1 DEF RecordLaunch, IdleDaemon
<1>8. CASE ReplyLaunch
  <2>1. Pending
    BY <1>4, <1>5, <1>8 DEF ReplyLaunch, NoLaunch
  <2> QED BY <1>3, <1>8, <2>1 DEF ReplyLaunch, IdleDaemon
<1>9. ASSUME NEW i \in Slots, ResolveLaunch(i)
      PROVE  Pending /\ Daemon /\ Reaping /\ Restart
  BY <1>3, <1>9 DEF ResolveLaunch
<1>10. CASE RegisterApp
  <2>1. Restart
    <3>1. \/ UNCHANGED restart
          \/ \E t \in Restarters : restart' = [restart EXCEPT ![t].pc = "start"]
      BY <1>10 DEF RegisterApp
    <3>2. ASSUME NEW t \in Restarters, restart' = [restart EXCEPT ![t].pc = "start"]
          PROVE  \A u \in Restarters :
                   restart'[u].pc = "start" \/ restart'[u] = restart[u]
      BY <1>5, <3>2 DEF RestartTypes
    <3> QED BY <1>3, <1>4, <3>1, <3>2
  <2> QED BY <1>3, <1>10, <2>1 DEF RegisterApp
<1>11. ASSUME NEW p \in Pids, Reap(p) PROVE Pending /\ Daemon /\ Reaping /\ Restart
  <2>1. reaping' = p /\ server'[p].sig = System /\ server'[p].state = "reaped"
    BY <1>11 DEF Reap, TypeOK
  <2> QED BY <1>3, <1>11, <2>1 DEF Reap, Is, Was
<1>12. ASSUME NEW t \in Restarters, RestartStart(t)
       PROVE  Pending /\ Daemon /\ Reaping /\ Restart
  <2> DEFINE old == IF Find(System) = 0 THEN NoPid ELSE apps[Find(System)].pid
  <2>1. restart' = [restart EXCEPT ![t] =
                      [pc |-> IF old = NoPid THEN "launch" ELSE "wait", old |-> old]]
    BY <1>12 DEF RestartStart
  <2>2. old # NoPid => Is(old, System)
    BY <1>2, RowsAreRows DEF RowsInv, IsA, Is, Grow
  <2> HIDE DEF old
  <2>3. Restart
    BY <1>4, <1>5, <2>1, <2>2
  <2> QED BY <1>3, <1>12, <2>3 DEF RestartStart
<1>13. ASSUME NEW t \in Restarters,
              RestartWait(t) \/ RestartInvalidate(t) \/ RestartLaunch(t)
       PROVE  Pending /\ Daemon /\ Reaping /\ Restart
  <2>1. Restart
    <3>1. CASE RestartWait(t)
      <4>1. restart' = [restart EXCEPT ![t].pc = "invalidate"] /\ restart[t].pc = "wait"
        BY <3>1 DEF RestartWait
      <4>2. \A u \in Restarters : /\ restart'[u].old = restart[u].old
                                  /\ u # t => restart'[u] = restart[u]
        BY <1>5, <4>1 DEF RestartTypes
      <4> QED BY <1>4, <4>1, <4>2
    <3>2. CASE RestartInvalidate(t) \/ RestartLaunch(t)
      <4>1. \A u \in Restarters : \/ restart'[u].pc \in {"launch", "none"}
                                  \/ restart'[u] = restart[u]
        BY <1>5, <3>2 DEF RestartInvalidate, RestartLaunch, IdleRestart
      <4> QED BY <1>4, <4>1
    <3> QED BY <1>13, <3>1, <3>2
  <2> QED BY <1>3, <1>13, <2>1 DEF RestartWait, RestartInvalidate, RestartLaunch
<1>14. CASE ReapInvalidate
  BY <1>3, <1>14 DEF ReapInvalidate
<1> HIDE DEF Pending, Daemon, Reaping, Restart
<1>15. CASE \/ UnregisterApp \/ SendRegister \/ UNCHANGED vars
            \/ \E s \in Signatures : GetLaunchData(s)
            \/ \E p \in Pids : ServerReady(p) \/ ServerDies(p) \/ SessionStep(p)
  BY <1>3, <1>15 DEF UnregisterApp, SendRegister, GetLaunchData, ServerReady,
     ServerDies, SessionStep, SessionLaunches, SessionReaps, vars
<1>16. CASE PurgeSessionApps
  BY <1>3, <1>16 DEF PurgeSessionApps
<1> QED BY <1>6, <1>7, <1>8, <1>9, <1>10, <1>11, <1>12, <1>13, <1>14, <1>15, <1>16
        DEF Next, DaemonStep, RestartStep
-----------------------------------------------------------------------------
(* A restart thread moves alone. *)
LEMMA RestartStepIs ==
  ASSUME TypeOK, NEW t \in Restarters, RestartStep(t)
  PROVE  /\ restart[t].pc # "none"
         /\ \A u \in Restarters : u # t => restart'[u] = restart[u]
         /\ RestartLaunch(t) <=> restart'[t].pc = "none"
<1>0. restart \in [Restarters -> RestartTypes]
  BY TypesAre
<1>1. CASE RestartStart(t)
  <2>1. PICK o : restart' = [restart EXCEPT ![t] =
                   [pc |-> IF o = NoPid THEN "launch" ELSE "wait", old |-> o]]
    BY <1>1 DEF RestartStart
  <2>2. restart[t].pc = "start"
    BY <1>1 DEF RestartStart
  <2> QED BY <1>0, <2>1, <2>2 DEF RestartLaunch
<1>2. CASE RestartWait(t)
  <2>1. restart' = [restart EXCEPT ![t].pc = "invalidate"] /\ restart[t].pc = "wait"
    BY <1>2 DEF RestartWait
  <2>2. restart'[t].pc = "invalidate"
    BY <1>0, <2>1 DEF RestartTypes
  <2> QED BY <1>0, <2>1, <2>2 DEF RestartLaunch
<1>3. CASE RestartInvalidate(t) \/ RestartLaunch(t)
  BY <1>0, <1>3 DEF RestartInvalidate, RestartLaunch, IdleRestart
<1> QED BY <1>1, <1>2, <1>3 DEF RestartStep

(* One registrar at a time is being served: the next is not reported until *)
(* janus has settled.                                                      *)
LEMMA TurnsStep ==
  ASSUME NoOverlap, TypeOK, TurnsInv, [Next]_vars PROVE TurnsInv'
<1> DEFINE Next1(k) == port'[k].what \in {"register", "launch"}
           Reporting == report' # NoPid =>
             /\ \A k \in DOMAIN port' : ~Next1(k)
             /\ \A t \in Restarters : restart'[t].pc = "none"
             /\ daemon'.pc # "record"
           Sent == \A k \in DOMAIN port' : Next1(k) =>
             /\ \A j \in DOMAIN port' : Next1(j) => j = k
             /\ \A t \in Restarters : restart'[t].pc = "none"
             /\ daemon'.pc # "record"
           Restarting == \A t \in Restarters : restart'[t].pc # "none" =>
             /\ \A u \in Restarters : restart'[u].pc # "none" => u = t
             /\ daemon'.pc # "record"
<1>0. SUFFICES Reporting /\ Sent /\ Restarting
  BY DEF TurnsInv, Coming
<1> USE DEF TurnsInv, Coming
<1>1. CASE /\ UNCHANGED <<port, restart>>
           /\ report' # NoPid => report # NoPid
           /\ daemon'.pc = "record" => daemon.pc = "record"
  BY <1>1
<1>2. ASSUME port # <<>>, port' = Tail(port)
      PROVE  /\ 1 \in DOMAIN port /\ Head(port) = port[1]
             /\ \A k \in DOMAIN port' :
                  k + 1 \in DOMAIN port /\ port'[k] = port[k + 1]
             /\ Coming(1) => \A k \in DOMAIN port' : ~Next1(k)
             /\ \A j, k \in DOMAIN port' : j + 1 = k + 1 => j = k
  <2>1. \A k \in DOMAIN port' : k \in Nat \ {0} /\ k + 1 \in DOMAIN port
                                /\ port'[k] = port[k + 1]
    BY <1>2, PortTaken
  <2>2. 1 \in DOMAIN port /\ Head(port) = port[1]
    BY <1>2, PortTaken
  <2>3. \A k \in DOMAIN port' : k + 1 # 1
    BY <2>1
  <2>4. \A j, k \in DOMAIN port' : j + 1 = k + 1 => j = k
    BY <2>1
  <2>5. Coming(1) => \A k \in DOMAIN port' : ~Next1(k)
    BY <2>1, <2>2, <2>3
  <2> QED BY <2>1, <2>2, <2>4, <2>5
<1>3. CASE LaunchJob
  <2>1. /\ port # <<>> /\ Head(port).what = "launch" /\ port' = Tail(port)
        /\ report' = report /\ restart' = restart
    BY <1>3 DEF LaunchJob, Receive
  <2>2. Coming(1)
    BY <1>2, <2>1
  <2>3. report = NoPid /\ \A t \in Restarters : restart[t].pc = "none"
    BY <1>2, <2>1, <2>2
  <2> QED BY <1>2, <2>1, <2>2, <2>3
<1>4. CASE RegisterApp
  <2>1. /\ port # <<>> /\ Head(port).what = "register" /\ port' = Tail(port)
        /\ report' = report /\ daemon' = daemon
    BY <1>4 DEF RegisterApp, Receive
  <2>2. Coming(1)
    BY <1>2, <2>1
  <2>3. /\ report = NoPid /\ \A t \in Restarters : restart[t].pc = "none"
        /\ daemon.pc # "record"
    BY <1>2, <2>1, <2>2
  <2>4. \/ restart' = restart
        \/ \E t \in Restarters :
             /\ restart'[t].pc = "start"
             /\ \A u \in Restarters : u # t => restart'[u] = restart[u]
    BY <1>4 DEF RegisterApp, TypeOK
  <2> QED BY <1>2, <2>1, <2>2, <2>3, <2>4
<1>5. CASE UnregisterApp
  <2>1. /\ port # <<>> /\ port' = Tail(port)
        /\ report' = report /\ daemon' = daemon /\ restart' = restart
    BY <1>5 DEF UnregisterApp, Receive
  <2> QED BY <1>2, <2>1
<1>6. CASE SendRegister
  <2>1. /\ Send([what |-> "register", pid |-> report]) /\ report # NoPid
        /\ report' = NoPid /\ daemon' = daemon /\ restart' = restart
        /\ [what |-> "register", pid |-> report] \in Messages
    BY <1>6 DEF SendRegister, TypeOK, Messages
  <2>2. \A k \in DOMAIN port' : k \in DOMAIN port => port'[k] = port[k]
    BY <2>1, PortSent
  <2>3. \A k, j \in DOMAIN port' : k \notin DOMAIN port /\ j \notin DOMAIN port => k = j
    BY <2>1, PortSent
  <2> QED BY <2>1, <2>2, <2>3
<1>7. ASSUME NEW p \in Pids, SessionReaps(p) PROVE Reporting /\ Sent /\ Restarting
  <2>1. /\ Send([what |-> "unregister", pid |-> p])
        /\ report' = report /\ daemon' = daemon /\ restart' = restart
        /\ [what |-> "unregister", pid |-> p] \in Messages
    BY <1>7 DEF SessionReaps, Messages
  <2>2. \A k \in DOMAIN port' : \/ port'[k] = [what |-> "unregister", pid |-> p]
                                \/ k \in DOMAIN port /\ port'[k] = port[k]
    BY <2>1, PortSent
  <2>3. \A k \in DOMAIN port' : Next1(k) => k \in DOMAIN port /\ port'[k] = port[k]
    BY <2>2
  <2> QED BY <2>1, <2>3
<1>8. ASSUME NEW p \in Pids, SessionLaunches(p) PROVE Reporting /\ Sent /\ Restarting
  <2>1. /\ Settled /\ port' = port /\ daemon' = daemon /\ restart' = restart
    BY <1>8 DEF SessionLaunches, NoOverlap
  <2>2. DOMAIN port = 1 .. Len(port)
    BY LenProperties DEF TypeOK
  <2> QED BY <2>1, <2>2 DEF Settled
<1>9. ASSUME NEW t \in Restarters, restart[t].pc # "none", RestartStep(t),
             \A u \in Restarters : u # t => restart'[u] = restart[u],
             RestartLaunch(t) <=> restart'[t].pc = "none"
      PROVE  Reporting /\ Sent /\ Restarting
  <2>1. /\ \A u \in Restarters : u # t => restart'[u].pc = "none"
        /\ report = NoPid /\ daemon.pc # "record" /\ \A k \in DOMAIN port : ~Coming(k)
    BY <1>9
  <2>2. report' = report /\ daemon' = daemon
    BY <1>9 DEF RestartStep, RestartStart, RestartWait, RestartInvalidate, RestartLaunch
  <2>3. CASE RestartLaunch(t)
    <3>1. Send([what |-> "launch"]) /\ [what |-> "launch"] \in Messages
      BY <2>3 DEF RestartLaunch, Messages
    <3>2. \A k \in DOMAIN port' : k \in DOMAIN port => port'[k] = port[k]
      BY <3>1, PortSent
    <3>3. \A k, j \in DOMAIN port' : k \notin DOMAIN port /\ j \notin DOMAIN port => k = j
      BY <3>1, PortSent
    <3> QED BY <1>9, <2>1, <2>2, <2>3, <3>2, <3>3
  <2>4. CASE ~RestartLaunch(t)
    <3>1. port' = port
      BY <1>9, <2>4 DEF RestartStep, RestartStart, RestartWait, RestartInvalidate
    <3> QED BY <2>1, <2>2, <3>1
  <2> QED BY <2>3, <2>4
<1> HIDE DEF Reporting, Sent, Restarting
<1>10. CASE RecordLaunch \/ ReplyLaunch
  <2>1. UNCHANGED <<port, restart, report>> /\ daemon'.pc = "idle"
    BY <1>10 DEF RecordLaunch, ReplyLaunch, IdleDaemon
  <2> QED BY <1>1, <2>1
<1>13. ASSUME NEW i \in Slots, ResolveLaunch(i) PROVE Reporting /\ Sent /\ Restarting
  <2>1. UNCHANGED <<port, restart, report>> /\ daemon'.pc = "reply"
    BY <1>13 DEF ResolveLaunch
  <2> QED BY <1>1, <2>1
<1>14. CASE \/ ReapInvalidate \/ UNCHANGED vars
            \/ \E s \in Signatures : GetLaunchData(s)
            \/ \E p \in Pids : Reap(p) \/ ServerReady(p) \/ ServerDies(p)
  <2>1. UNCHANGED <<port, restart, report, daemon>>
    BY <1>14 DEF ReapInvalidate, GetLaunchData, Reap, ServerReady, ServerDies, vars
  <2> QED BY <1>1, <2>1
<1>11. ASSUME NEW t \in Restarters, RestartStep(t)
       PROVE  Reporting /\ Sent /\ Restarting
  BY <1>9, <1>11, RestartStepIs
<1>12. CASE PurgeSessionApps
  <2>1. UNCHANGED <<port, restart, daemon>> /\ report' = NoPid
    BY <1>12 DEF PurgeSessionApps
  <2> QED BY <1>1, <2>1
<1> QED BY <1>3, <1>4, <1>5, <1>6, <1>7, <1>8, <1>10, <1>11, <1>12, <1>13,
           <1>14
        DEF Next, DaemonStep, SessionStep
(* Only the launch of the next mount_server enters a server in a row of    *)
(* mount_server's.                                                         *)
Left(i) ==
  \E j \in 1 .. count : apps[j].sig = System /\ apps'[i].pid \in {NoPid, apps[j].pid}

LEMMA SystemRows ==
  ASSUME TypeOK, LaunchesInv, ~RecordLaunch, [Next]_vars
  PROVE  \A i \in 1 .. count' : apps'[i].sig = System => Left(i)
<1> USE DEF Left
<1>1. CASE UNCHANGED <<apps, count>>
  BY <1>1
<1>2. ASSUME NEW r \in 1 .. count, Clears(r)
      PROVE  \A i \in 1 .. count' : apps'[i].sig = System => Left(i)
  BY <1>2, ClearsRows
<1>3. ASSUME NEW j \in Slots, Fills(j)
      PROVE  \A i \in 1 .. count' : apps'[i].sig = System => Left(i)
  BY <1>3, FillsRows
<1>4. CASE /\ RegisterApp /\ RegisterRow # 0
           /\ Enters(RegisterRow, Session, Head(port).pid, Head(port).pid)
  <2>1. /\ apps'[RegisterRow] = [sig |-> Session, pid |-> Head(port).pid,
                                 port |-> Head(port).pid]
        /\ \A i \in 1 .. count' :
             i # RegisterRow => i \in 1 .. count /\ apps'[i] = apps[i]
    BY <1>4, RegisterRowIs, EntersRows
  <2> QED BY <2>1 DEF System, Session
<1>5. CASE PurgeSessionApps
  <2>1. PICK kept : Moves(count', kept)
    BY <1>5, PurgeIs
  <2>2. \A i \in 1 .. count' : kept[i] \in 1 .. count /\ apps'[i] = apps[kept[i]]
    BY <2>1 DEF Moves
  <2> QED BY <2>2
<1> QED BY <1>1, <1>2, <1>3, <1>4, <1>5, TableSteps

(* By the time a mount_server is launched, the row of the last is free.    *)
LEMMA ClearedStep ==
  ASSUME TypeOK, RowsInv, LaunchesInv, NoRowShadows, TurnsInv, ClearedInv,
         [Next]_vars
  PROVE  ClearedInv'
<1> DEFINE Free == \A i \in 1 .. count' : apps'[i].sig = System => apps'[i].pid = NoPid
           FreeBut(p) == \A i \in 1 .. count' : apps'[i].sig = System
                                                  => apps'[i].pid \in {NoPid, p}
           Recording == daemon'.pc = "record" => Free
           Asked == \A k \in DOMAIN port' : port'[k].what = "launch" => Free
           Restarting == \A t \in Restarters :
             /\ restart'[t].pc = "launch" => Free
             /\ restart'[t].pc \in {"wait", "invalidate"} => FreeBut(restart'[t].old)
<1>0. SUFFICES Recording /\ Asked /\ Restarting
  BY DEF ClearedInv, AllCleared, ClearedBut
<1>1. ~RecordLaunch => /\ AllCleared => Free
                       /\ \A p : ClearedBut(p) => FreeBut(p)
  BY SystemRows DEF Left, AllCleared, ClearedBut
<1> HIDE DEF Free, FreeBut
<1>2. restart \in [Restarters -> RestartTypes]
  BY TypesAre
<1>3. ASSUME ~RecordLaunch
      PROVE  /\ daemon' = daemon \/ daemon'.pc # "record" => Recording
             /\ (\A k \in DOMAIN port' : port'[k].what = "launch" =>
                   \E j \in DOMAIN port : port[j].what = "launch") => Asked
             /\ restart' = restart => Restarting
  BY <1>1, <1>3 DEF ClearedInv
<1>4. ASSUME port # <<>>, port' = Tail(port)
      PROVE  \A k \in DOMAIN port' : port'[k].what = "launch" =>
               \E j \in DOMAIN port : port[j].what = "launch"
  BY <1>4, PortTaken
<1>5. CASE RecordLaunch
  <2>1. daemon'.pc = "idle" /\ port' = port /\ restart' = restart /\ daemon.pc = "record"
    BY <1>5 DEF RecordLaunch, IdleDaemon
  <2>2. /\ \A k \in DOMAIN port : ~Coming(k)
        /\ \A t \in Restarters : restart[t].pc = "none"
    BY <2>1 DEF TurnsInv
  <2> QED BY <2>1, <2>2 DEF Coming
<1>6. CASE LaunchJob
  <2>1. /\ port # <<>> /\ Head(port).what = "launch" /\ port' = Tail(port)
        /\ restart' = restart /\ ~RecordLaunch
    BY <1>6 DEF LaunchJob, Receive, RecordLaunch
  <2>2. AllCleared
    BY <2>1, PortTaken DEF ClearedInv
  <2> QED BY <1>1, <1>3, <1>4, <2>1, <2>2
<1>7. CASE RegisterApp
  <2>1. /\ port # <<>> /\ port' = Tail(port) /\ daemon' = daemon
        /\ ~RecordLaunch
    BY <1>7 DEF RegisterApp, Receive, RecordLaunch
  <2>2. \/ UNCHANGED restart
        \/ \E t \in Restarters : restart' = [restart EXCEPT ![t].pc = "start"]
    BY <1>7 DEF RegisterApp
  <2>3. ASSUME NEW t \in Restarters, restart' = [restart EXCEPT ![t].pc = "start"]
        PROVE  \A u \in Restarters :
                 restart'[u].pc = "start" \/ restart'[u] = restart[u]
    BY <1>2, <2>3 DEF RestartTypes
  <2>4. Restarting
    BY <1>1, <2>1, <2>2, <2>3 DEF ClearedInv
  <2> QED BY <1>3, <1>4, <2>1, <2>4
<1>8. CASE UnregisterApp
  <2>1. /\ port # <<>> /\ port' = Tail(port) /\ daemon' = daemon /\ restart' = restart
        /\ ~RecordLaunch
    BY <1>8 DEF UnregisterApp, Receive, RecordLaunch
  <2> QED BY <1>3, <1>4, <2>1
<1>9. ASSUME NEW m \in Messages, Send(m), daemon' = daemon, restart' = restart,
             m.what # "launch", ~RecordLaunch
      PROVE  Recording /\ Asked /\ Restarting
  <2>1. \A k \in DOMAIN port' : \/ port'[k] = m
                                \/ k \in DOMAIN port /\ port'[k] = port[k]
    BY <1>9, PortSent
  <2> QED BY <1>3, <1>9, <2>1
<1>10. CASE SendRegister
  <2>1. /\ Send([what |-> "register", pid |-> report])
        /\ daemon' = daemon /\ restart' = restart /\ port' # port
        /\ [what |-> "register", pid |-> report] \in Messages
    <3>1. port' = Append(port, [what |-> "register", pid |-> report])
      BY <1>10 DEF SendRegister, Send
    <3>2. port' # port
      BY <3>1, AppendProperties, LenProperties DEF TypeOK, SendRegister, Messages
    <3> QED BY <1>10, <3>2 DEF SendRegister, TypeOK, Messages
  <2>2. ~RecordLaunch
    BY <2>1 DEF RecordLaunch
  <2> QED BY <1>9, <2>1, <2>2
<1>11. ASSUME NEW p \in Pids, SessionReaps(p) PROVE Recording /\ Asked /\ Restarting
  <2>1. /\ Send([what |-> "unregister", pid |-> p])
        /\ daemon' = daemon /\ restart' = restart
        /\ [what |-> "unregister", pid |-> p] \in Messages
    BY <1>11 DEF SessionReaps, Messages
  <2>2. server'[p].state = "reaped" /\ server[p].state = "dead"
    BY <1>11 DEF SessionReaps, TypeOK
  <2>3. ~RecordLaunch
    BY <2>2 DEF RecordLaunch
  <2> QED BY <1>9, <2>1, <2>3
<1>12. ASSUME NEW t \in Restarters, RestartStep(t)
       PROVE  Recording /\ Asked /\ Restarting
  <2>0. /\ restart[t].pc # "none" /\ daemon.pc # "record" /\ daemon' = daemon
        /\ \A u \in Restarters : u # t => restart'[u].pc = "none"
    <3>1. restart[t].pc # "none" /\ \A u \in Restarters : u # t => restart'[u] = restart[u]
      BY <1>12, RestartStepIs
    <3>2. daemon' = daemon
      BY <1>12 DEF RestartStep, RestartStart, RestartWait, RestartInvalidate, RestartLaunch
    <3> QED BY <3>1, <3>2 DEF TurnsInv
  <2>1. ~RecordLaunch
    BY <2>0 DEF RecordLaunch
  <2>2. CASE RestartStart(t)
    <3> DEFINE old == IF Find(System) = 0 THEN NoPid ELSE apps[Find(System)].pid
    <3>1. /\ restart' = [restart EXCEPT ![t] =
                           [pc |-> IF old = NoPid THEN "launch" ELSE "wait", old |-> old]]
          /\ port' = port
      BY <2>2 DEF RestartStart
    <3>2. ClearedBut(old)
      BY RowsAreRows DEF ClearedBut, NoRowShadows, RowsOf, Signatures
    <3> HIDE DEF old
    <3>3. old = NoPid => AllCleared
      BY <3>2 DEF ClearedBut, AllCleared
    <3>4. Restarting
      BY <1>1, <1>2, <2>0, <2>1, <3>1, <3>2, <3>3
    <3> QED BY <1>3, <2>0, <2>1, <3>1, <3>4
  <2>3. CASE RestartWait(t)
    <3>1. /\ restart' = [restart EXCEPT ![t].pc = "invalidate"]
          /\ restart[t].pc = "wait" /\ port' = port
      BY <2>3 DEF RestartWait
    <3>2. restart'[t].pc = "invalidate" /\ restart'[t].old = restart[t].old
      BY <1>2, <3>1 DEF RestartTypes
    <3>3. FreeBut(restart'[t].old)
      BY <1>1, <2>1, <3>1, <3>2 DEF ClearedInv
    <3>4. Restarting
      BY <2>0, <3>2, <3>3
    <3> QED BY <1>3, <2>0, <2>1, <3>1, <3>4
  <2>4. CASE RestartInvalidate(t)
    <3>1. /\ restart' = [restart EXCEPT ![t] = [pc |-> "launch", old |-> NoPid]]
          /\ port' = port /\ restart[t].pc = "invalidate"
          /\ InvalidateApp(restart[t].old) /\ count' = count
      BY <2>4 DEF RestartInvalidate
    <3>2. ClearedBut(restart[t].old) /\ IsA(restart[t].old, System)
      BY <3>1 DEF ClearedInv, LaunchesInv
    <3>3. Free
      <4>1. CASE /\ UNCHANGED <<apps, count>>
                 /\ \A i \in 1 .. count : apps[i].pid # restart[t].old
        BY <3>2, <4>1 DEF Free, ClearedBut
      <4>2. ASSUME NEW r \in 1 .. count, apps[r].pid = restart[t].old, Clears(r)
            PROVE  Free
        <5>1. apps[r].sig = System
          BY <3>2, <4>2, RegistryConstants DEF RowsInv, IsA
        <5>2. \A i \in 1 .. count : apps[i].sig = System => i = r
          BY <5>1 DEF NoRowShadows, Signatures
        <5>3. \A i \in 1 .. count' : apps'[i].sig = System => i = r
          BY <4>2, <5>2, ClearsRows
        <5> QED BY <4>2, <5>3, ClearsRows DEF Free
      <4> QED BY <3>1, <4>1, <4>2, InvalidateAppIs
    <3>4. Restarting
      BY <1>2, <2>0, <3>1, <3>3
    <3> QED BY <1>3, <2>0, <2>1, <3>1, <3>4
  <2>5. CASE RestartLaunch(t)
    <3>1. restart[t].pc = "launch" /\ restart'[t].pc = "none"
      BY <1>2, <2>5 DEF RestartLaunch, IdleRestart
    <3>2. Free
      BY <1>1, <2>1, <3>1 DEF ClearedInv
    <3>3. Restarting
      BY <2>0, <3>1
    <3> QED BY <1>3, <2>0, <2>1, <3>2, <3>3
  <2> QED BY <1>12, <2>2, <2>3, <2>4, <2>5 DEF RestartStep
<1>13. ASSUME ~RecordLaunch, UNCHANGED <<port, restart>>,
              daemon' = daemon \/ daemon'.pc # "record"
       PROVE  Recording /\ Asked /\ Restarting
  BY <1>3, <1>13
<1> HIDE DEF Recording, Asked, Restarting
<1>14. CASE ReplyLaunch \/ \E i \in Slots : ResolveLaunch(i)
  <2>1. UNCHANGED <<port, restart>> /\ daemon'.pc # "record" /\ daemon.pc # "record"
    <3>1. CASE ReplyLaunch
      BY <3>1 DEF ReplyLaunch, IdleDaemon
    <3>2. ASSUME NEW i \in Slots, ResolveLaunch(i)
          PROVE  UNCHANGED <<port, restart>> /\ daemon'.pc = "reply" /\ daemon.pc = "idle"
      BY <3>2 DEF ResolveLaunch
    <3> QED BY <1>14, <3>1, <3>2
  <2>2. ~RecordLaunch
    BY <2>1 DEF RecordLaunch
  <2> QED BY <1>13, <2>1, <2>2
<1>15. CASE /\ ~RecordLaunch
            /\ \/ ReapInvalidate \/ UNCHANGED vars
               \/ \E s \in Signatures : GetLaunchData(s)
               \/ \E p \in Pids : \/ Reap(p) \/ ServerReady(p) \/ ServerDies(p)
                                  \/ SessionLaunches(p)
  <2>1. UNCHANGED <<port, restart, daemon>>
    BY <1>15 DEF ReapInvalidate, GetLaunchData, Reap, ServerReady, ServerDies,
       SessionLaunches, vars
  <2> QED BY <1>13, <1>15, <2>1
<1>16. CASE PurgeSessionApps
  <2>1. UNCHANGED <<port, restart, daemon>>
    BY <1>16 DEF PurgeSessionApps
  <2>2. CASE RecordLaunch
    BY <1>5, <2>2
  <2> QED BY <1>13, <2>1, <2>2
<1> QED BY <1>5, <1>6, <1>7, <1>8, <1>10, <1>11, <1>12, <1>14, <1>15, <1>16
        DEF Next, DaemonStep, SessionStep

-----------------------------------------------------------------------------
LEMMA RegistryInit == Init => RegistryInv
<1> SUFFICES ASSUME Init PROVE RegistryInv
  OBVIOUS
<1>1. TypeOK
  BY TypeInit
<1>2. 1 .. count = {} /\ DOMAIN port = {} /\ daemon.pc = "idle" /\ report = NoPid
  <2>1. count = 0 /\ port = <<>> /\ daemon.pc = "idle" /\ report = NoPid
    BY DEF Init, IdleDaemon
  <2>2. DOMAIN port = 1 .. 0
    BY <2>1, EmptySeq, LenProperties
  <2> QED BY <2>1, <2>2
<1>3. RowsInv /\ NoRowShadows
  BY <1>2 DEF RowsInv, NoRowShadows
<1>4. LaunchesInv /\ SlotsInv
  BY <1>2 DEF LaunchesInv, SlotsInv, Init, NoLaunch, IdleRestart
<1>5. MessagesInv
  BY <1>2 DEF MessagesInv, Init, Session
<1>6. \A s \in Signatures : HeardInv(s)
  BY RegistryConstants DEF HeardInv, Init, PortExists
<1>7. TurnsInv /\ ClearedInv
  BY <1>2 DEF TurnsInv, ClearedInv, Init, IdleRestart
<1> QED BY <1>1, <1>3, <1>4, <1>5, <1>6, <1>7
        DEF RegistryInv, TurnsKept, FitsInv, Signatures

LEMMA FitsStep == FitsInv /\ [Next]_vars => FitsInv'
BY TypeNext, RowsStep, LaunchesStep, MessagesStep DEF FitsInv

(* NoRowShadows is OneRow of each signature. *)
LEMMA RowsOfEach == NoRowShadows <=> \A s \in Signatures : OneRow(s)
BY DEF NoRowShadows, OneRow

LEMMA TurnsKeptStep ==
  ASSUME NoOverlap, TurnsKept, [Next]_vars PROVE TurnsKept'
<1>1. FitsInv' /\ TurnsInv' /\ ClearedInv'
  BY FitsStep, TurnsStep, ClearedStep DEF TurnsKept, FitsInv
<1>2. \A s \in Signatures : OneRow(s)'
  BY OneRowStep, RowsOfEach DEF TurnsKept, FitsInv
<1>3. NoRowShadows'
  BY <1>2 DEF NoRowShadows, OneRow
<1> QED BY <1>1, <1>3 DEF TurnsKept

(* A signature's only row is the one that is found. *)
LEMMA HeardIsFound ==
  ASSUME TypeOK, NEW s, OneRow(s), HeardInv(s) PROVE NoRoom(s) \/ Found(s)
<1> SUFFICES ASSUME ~NoRoom(s), PortExists(newest[s])
             PROVE  /\ Find(s) # 0
                    /\ apps[Find(s)].pid = newest[s]
                    /\ apps[Find(s)].port = newest[s]
  BY DEF Found
<1>1. PICK i \in 1 .. count :
        apps[i].sig = s /\ apps[i].pid = newest[s] /\ apps[i].port = newest[s]
  BY DEF HeardInv, Entered
<1>2. RowsOf(s) # {}
  BY <1>1 DEF RowsOf
<1>3. Find(s) \in 1 .. count /\ apps[Find(s)].sig = s /\ Find(s) # 0
  BY <1>2, RowsAreRows
<1>4. Find(s) = i
  BY <1>1, <1>3 DEF OneRow
<1> QED BY <1>1, <1>3, <1>4

(* SessionServerIsFound: B_GET_LAUNCH_DATA answers with the registrar that *)
(* janus last heard is ready, as long as it lives and its login lasts:     *)
(* whatever the last login left in the port, the restart threads and the   *)
(* waiting launches, and though registrars come before mount_server was    *)
(* started again.                                                          *)
THEOREM SessionIsFound == Spec => []SessionServerIsFound
<1>1. Init => SessionInv
  BY RegistryInit, RowsOfEach
     DEF RegistryInv, TurnsKept, SessionInv, Signatures
<1>2. SessionInv /\ [Next]_vars => SessionInv'
  <2> SUFFICES ASSUME SessionInv, [Next]_vars PROVE SessionInv'
    OBVIOUS
  <2>1. Session \in Signatures
    BY DEF Signatures
  <2>2. FitsInv'
    BY FitsStep DEF SessionInv
  <2>3. OneRow(Session)'
    BY <2>1, OneRowStep DEF SessionInv, FitsInv
  <2>4. HeardInv(Session)'
    BY <2>1, HeardStep DEF SessionInv, FitsInv
  <2> QED BY <2>2, <2>3, <2>4 DEF SessionInv
<1>3. SessionInv => SessionServerIsFound
  BY HeardIsFound DEF SessionInv, FitsInv, SessionServerIsFound
<1> QED BY <1>1, <1>2, <1>3, PTL DEF Spec

(* NoRowShadows: no signature ever has two rows, whatever is reported,     *)
(* reaped, unregistered, timed out, restarted and purged.                  *)
THEOREM OneRowEach ==
  ASSUME NoOverlap PROVE Spec => []NoRowShadows
<1>1. Init => TurnsKept
  BY RegistryInit DEF RegistryInv
<1>2. TurnsKept /\ [Next]_vars => TurnsKept'
  BY TurnsKeptStep
<1>3. TurnsKept => NoRowShadows
  BY DEF TurnsKept
<1> QED BY <1>1, <1>2, <1>3, PTL DEF Spec

(* The invariant of the registry within one login. *)
THEOREM RegistryInvariant == ASSUME OneLogin, NoOverlap PROVE Spec => []RegistryInv
<1>1. RegistryInv /\ [Next]_vars => RegistryInv'
  <2> SUFFICES ASSUME RegistryInv, [Next]_vars PROVE RegistryInv'
    OBVIOUS
  <2>1. TurnsKept'
    BY TurnsKeptStep DEF RegistryInv
  <2>2. SlotsInv'
    BY SlotsStep DEF RegistryInv, TurnsKept, FitsInv
  <2>3. HeardInv(System)' /\ HeardInv(Session)'
    BY HeardStep DEF RegistryInv, TurnsKept, FitsInv, Signatures
  <2> QED BY <2>1, <2>2, <2>3 DEF RegistryInv
<1> QED BY <1>1, RegistryInit, PTL DEF Spec

(* ReadyServerIsFound: B_GET_LAUNCH_DATA answers with the server that      *)
(* janus last heard is ready, as long as it lives: with a row for each     *)
(* signature the table never has no room.                                  *)
THEOREM ReadyIsFound ==
  ASSUME OneLogin, NoOverlap, RoomForBoth PROVE Spec => []ReadyServerIsFound
<1>1. RegistryInv => ReadyServerIsFound
  <2> SUFFICES ASSUME RegistryInv, NEW s \in Signatures PROVE Found(s)
    BY DEF ReadyServerIsFound
  <2>1. HeardInv(s) /\ RowsInv /\ NoRowShadows /\ TypeOK
    BY DEF RegistryInv, TurnsKept, FitsInv, Signatures
  <2>2. ~NoRoom(s)
    <3> SUFFICES ASSUME NoRoom(s) PROVE FALSE
      OBVIOUS
    <3>1. 1 \in 1 .. count /\ 2 \in 1 .. count
      BY <2>1, RegistryConstants DEF NoRoom, RoomForBoth
    <3>2. apps[1].sig = apps[2].sig
      BY <2>1, <3>1 DEF NoRoom, RowsOf, RowsInv, Signatures
    <3> QED BY <2>1, <3>1, <3>2 DEF NoRowShadows, RowsInv
  <2>3. OneRow(s)
    BY <2>1, RowsOfEach
  <2> QED BY <2>1, <2>2, <2>3, HeardIsFound
<1> QED BY <1>1, RegistryInvariant, PTL
=============================================================================
