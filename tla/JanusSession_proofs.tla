------------------------ MODULE JanusSession_proofs ------------------------
(* Proofs about the session manager of janus, for every instance of it.    *)
EXTENDS JanusSession, SequenceTheorems, TLAPS

(* The message a handler takes is of the kind it handles, and what is left *)
(* in the port is still a sequence of messages.                            *)
LEMMA ReceiveType ==
  ASSUME TypeOK, NEW w \in {"logout", "auth", "loginOk", "hello",
                            "shutdownFinished"},
         Receive(w)
  PROVE  /\ Head(port) \in Messages
         /\ Head(port).what = w
         /\ port' \in Seq(Messages)
         /\ Len(port') <= PortSize
<1>1. port \in Seq(Messages) /\ port # <<>> /\ port' = Tail(port)
  BY DEF TypeOK, Receive
<1>2. Len(port) \in Nat /\ Len(port') = Len(port) - 1
  BY <1>1
<1>. QED
  BY <1>1, <1>2, ConstantsAssumption DEF TypeOK, Receive

(* What a sender appends leaves the port well typed. *)
LEMMA SendType ==
  ASSUME TypeOK, NEW m \in Messages, Send(m)
  PROVE  port' \in Seq(Messages) /\ Len(port') <= PortSize
<1>1. port \in Seq(Messages) /\ port' = Append(port, m) /\ Len(port) < PortSize
  BY DEF TypeOK, Send
<1>2. Len(port) \in Nat /\ Len(port') = Len(port) + 1
  BY <1>1
<1>. QED
  BY <1>1, <1>2, ConstantsAssumption

(* Stopping a process only moves the process table within its type. *)
LEMMA TerminateType ==
  ASSUME TypeOK, NEW p \in Pids \cup {NoPid}
  PROVE  /\ Terminate(proc, p) \in [Pids -> {"unborn", "up", "stopping", "dead"}]
         /\ \A q \in Pids : (Terminate(proc, p)[q] = "unborn") <=> (proc[q] = "unborn")
BY DEF TypeOK, Terminate

(* Starting a transition leaves the transition threads well typed. *)
LEMMA SpawnType ==
  ASSUME TypeOK, NEW u \in Personas, NEW g \in BOOLEAN, NEW f \in Proofs,
         Spawn(u, g, f)
  PROVE  trans' \in [Threads -> TransitionRecords] /\ overlapped' \in BOOLEAN
<1>1. Transition(u, g, f) \in TransitionRecords
  BY ConstantsAssumption
     DEF Transition, NoTransition, TransitionRecords, Proofs, Nothing, Configured
<1>2. overlapped' \in BOOLEAN
  BY DEF Spawn, TypeOK
<1>3. CASE \E t \in Threads : ~InTransition(t)
  <2>1. PICK t \in Threads : trans' = [trans EXCEPT ![t] = Transition(u, g, f)]
    BY <1>3 DEF Spawn
  <2>. QED
    BY <1>1, <1>2, <2>1 DEF TypeOK
<1>4. CASE ~\E t \in Threads : ~InTransition(t)
  BY <1>2, <1>4 DEF Spawn, TypeOK
<1>. QED
  BY <1>3, <1>4

(* Init is well typed. *)
LEMMA InitType == Init => TypeOK
<1>. SUFFICES ASSUME Init PROVE TypeOK
  OBVIOUS
<1>1. Nothing \in Proofs /\ Configured \in Proofs
  BY ConstantsAssumption DEF Proofs, Nothing, Configured
<1>2. NoTransition \in TransitionRecords
  BY <1>1 DEF NoTransition, TransitionRecords
<1>3. \A u \in Personas : Transition(u, u = Greeter, Configured) \in TransitionRecords
  BY <1>1 DEF NoTransition, Transition, TransitionRecords
<1>4. trans \in [Threads -> TransitionRecords]
  BY <1>2, <1>3 DEF Init
<1>5. port \in Seq(Messages) /\ Len(port) = 0
      /\ passwords \in Seq(Users) /\ Len(passwords) = 0
  BY DEF Init
<1>6. session \in SessionRecords
  BY DEF Init, SessionRecords
<1>7. /\ auth \in [user : Users \cup {NoUser}, proof : Proofs]
      /\ daemon \in [pc : {"idle", "logout", "shutdownWait", "kernShutdown"},
                     old : Pids \cup {NoPid}]
      /\ main \in [pc : {"loop", "stopping", "wait", "exited"},
                   old : Pids \cup {NoPid}]
  BY <1>1 DEF Init, NoAuth, IdleDaemon
<1>8. /\ proc \in [Pids -> {"unborn", "up", "stopping", "dead"}]
      /\ ident \in [Pids -> Personas \cup {NoUser}]
      /\ hello \in [Pids -> {"unsent", "sent", "handled"}]
      /\ proof \in [Pids -> Proofs]
  BY <1>1 DEF Init
<1>9. Len(port) <= PortSize /\ Len(passwords) <= MaxPasswords
  BY <1>5, ConstantsAssumption
<1>. QED
  BY <1>4, <1>5, <1>6, <1>7, <1>8, <1>9 DEF Init, TypeOK

(* Each step of janus and of the sessions' processes preserves the types.  *)
LEMMA SessionStepType ==
  ASSUME TypeOK, NEW p \in Pids, SessionStep(p)
  PROVE  TypeOK'
<1>1. CASE SendHello(p)
  <2>1. [what |-> "hello", pid |-> p] \in Messages
    BY DEF Messages
  <2>. QED
    BY <1>1, <2>1, SendType DEF SendHello, Send, TypeOK, history
<1>2. CASE SendLogout(p)
  <2>1. [what |-> "logout", uid |-> ident[p]] \in Messages
    BY <1>2 DEF SendLogout, Messages, Personas
  <2>. QED
    BY <1>2, <2>1, SendType DEF SendLogout, Send, TypeOK, history
<1>3. CASE SendShutdownFinished(p)
  <2>1. [what |-> "shutdownFinished"] \in Messages
    BY DEF Messages
  <2>. QED
    BY <1>3, <2>1, SendType DEF SendShutdownFinished, Send, TypeOK, history
<1>4. ASSUME NEW u \in Users, SendAuth(p, u)
      PROVE  TypeOK'
  <2>1. [what |-> "auth", uid |-> Greeter, user |-> u] \in Messages
    BY DEF Messages, Personas
  <2>. QED
    BY <1>4, <2>1, SendType DEF SendAuth, Send, TypeOK, history
<1>5. ASSUME NEW u \in Users, NEW live \in BOOLEAN, SendLoginOk(p, u, live)
      PROVE  TypeOK'
  <2>1. [what |-> "loginOk", uid |-> Greeter, user |-> u, live |-> live]
          \in Messages
    BY DEF Messages, Personas
  <2>. QED
    BY <1>5, <2>1, SendType DEF SendLoginOk, Send, TypeOK, history
<1>6. CASE ProcessEnds(p)
  BY <1>6 DEF ProcessEnds, TypeOK, history
<1>. QED
  BY <1>1, <1>2, <1>3, <1>4, <1>5, <1>6 DEF SessionStep

LEMMA DaemonStepType ==
  ASSUME TypeOK, DaemonStep
  PROVE  TypeOK'
<1>0. Nothing \in Proofs
  BY ConstantsAssumption DEF Proofs, Nothing, Configured
<1>1. CASE HandleLogoutRead
  <2>1. port' \in Seq(Messages) /\ Len(port') <= PortSize
    BY <1>1, ReceiveType DEF HandleLogoutRead
  <2>. QED
    BY <1>1, <2>1 DEF HandleLogoutRead, TypeOK, history, processes
<1>2. CASE HandleLogoutDecide
  <2>1. trans' \in [Threads -> TransitionRecords] /\ overlapped' \in BOOLEAN
    BY <1>0, <1>2, SpawnType DEF HandleLogoutDecide, TypeOK, Personas
  <2>. QED
    BY <1>2, <2>1 DEF HandleLogoutDecide, TypeOK, processes, IdleDaemon
<1>3. CASE HandleAuthRequest
  <2>1. /\ Head(port) \in Messages /\ Head(port).what = "auth"
        /\ port' \in Seq(Messages) /\ Len(port') <= PortSize
    BY <1>3, ReceiveType DEF HandleAuthRequest
  <2>2. Head(port).user \in Users
    BY <2>1 DEF Messages
  <2>3. /\ auth' \in [user : Users \cup {NoUser}, proof : Proofs]
        /\ passwords' \in Seq(Users) /\ Len(passwords') <= MaxPasswords
    <3>1. CASE UNCHANGED <<auth, passwords>>
      BY <3>1 DEF TypeOK
    <3>2. CASE auth' = NoAuth /\ UNCHANGED passwords
      BY <3>2, <1>0 DEF TypeOK, NoAuth
    <3>3. CASE /\ Len(passwords) < MaxPasswords
               /\ passwords' = Append(passwords, Head(port).user)
               /\ auth' = [user |-> Head(port).user,
                           proof |-> Len(passwords) + 1]
      <4>1. /\ passwords \in Seq(Users) /\ Len(passwords) \in Nat
            /\ Len(passwords') = Len(passwords) + 1
        BY <2>2, <3>3 DEF TypeOK
      <4>2. Len(passwords) + 1 \in Proofs
        BY <3>3, <4>1, ConstantsAssumption DEF Proofs, Configured, Nothing
      <4>. QED
        BY <2>2, <3>3, <4>1, <4>2, ConstantsAssumption
    <3>. QED
      BY <1>3, <3>1, <3>2, <3>3 DEF HandleAuthRequest
  <2>. QED
    BY <1>3, <2>1, <2>3 DEF HandleAuthRequest, TypeOK, processes
<1>4. CASE HandleLoginOk
  <2>1. /\ Head(port) \in Messages /\ Head(port).what = "loginOk"
        /\ port' \in Seq(Messages) /\ Len(port') <= PortSize
    BY <1>4, ReceiveType DEF HandleLoginOk
  <2>2. Head(port).user \in Personas
    BY <2>1 DEF Messages, Personas
  <2>3. auth' \in [user : Users \cup {NoUser}, proof : Proofs]
    <3>1. auth' = auth \/ auth' = NoAuth
      BY <1>4 DEF HandleLoginOk, ConsumeAuth
    <3>. QED
      BY <1>0, <3>1 DEF TypeOK, NoAuth
  <2>4. auth.proof \in Proofs
    BY DEF TypeOK
  <2>5. trans' \in [Threads -> TransitionRecords] /\ overlapped' \in BOOLEAN
    BY <1>0, <1>4, <2>2, <2>4, SpawnType DEF HandleLoginOk, TypeOK
  <2>. QED
    BY <1>4, <2>1, <2>3, <2>5 DEF HandleLoginOk, TypeOK, processes
<1>5. CASE HandleSessionHello
  <2>1. /\ Head(port) \in Messages /\ Head(port).what = "hello"
        /\ port' \in Seq(Messages) /\ Len(port') <= PortSize
    BY <1>5, ReceiveType DEF HandleSessionHello
  <2>2. Head(port).pid \in Pids
    BY <2>1 DEF Messages
  <2>3. session' \in SessionRecords
    BY <1>5, <2>2 DEF HandleSessionHello, TypeOK, SessionRecords
  <2>. QED
    BY <1>5, <2>1, <2>2, <2>3 DEF HandleSessionHello, TypeOK, history
<1>6. CASE HandleShutdownFinished
  <2>1. port' \in Seq(Messages) /\ Len(port') <= PortSize
    BY <1>6, ReceiveType DEF HandleShutdownFinished
  <2>2. session' \in SessionRecords /\ session.pid \in Pids \cup {NoPid}
    BY <1>6 DEF HandleShutdownFinished, TypeOK, SessionRecords
  <2>3. proc' \in [Pids -> {"unborn", "up", "stopping", "dead"}]
    BY <1>6, <2>2, TerminateType DEF HandleShutdownFinished
  <2>. QED
    BY <1>6, <2>1, <2>2, <2>3 DEF HandleShutdownFinished, TypeOK
<1>7. CASE ShutdownKill
  BY <1>7 DEF ShutdownKill, KillAfterTimeout, TypeOK, history
<1>8. CASE ShutdownWaited
  BY <1>8 DEF ShutdownWaited, TypeOK, processes, history
<1>9. CASE KernShutdown
  BY <1>9 DEF KernShutdown, TypeOK, processes, history, IdleDaemon
<1>. QED
  BY <1>1, <1>2, <1>3, <1>4, <1>5, <1>6, <1>7, <1>8, <1>9 DEF DaemonStep

LEMMA TransitionStepType ==
  ASSUME TypeOK, NEW t \in Threads, TransitionStep(t)
  PROVE  TypeOK'
<1>0. /\ Nothing \in Proofs
      /\ trans[t] \in TransitionRecords /\ session \in SessionRecords
      /\ session.pid \in Pids \cup {NoPid}
  BY ConstantsAssumption
     DEF Proofs, Nothing, Configured, TypeOK, SessionRecords
<1>1. CASE TransitionStart(t)
  <2>1. proc' \in [Pids -> {"unborn", "up", "stopping", "dead"}]
    BY <1>0, <1>1, TerminateType DEF TransitionStart
  <2>2. trans' \in [Threads -> TransitionRecords]
    BY <1>0, <1>1 DEF TransitionStart, TypeOK, TransitionRecords
  <2>. QED
    BY <1>1, <2>1, <2>2 DEF TransitionStart, TypeOK, history
<1>2. CASE TransitionKill(t)
  BY <1>2 DEF TransitionKill, KillAfterTimeout, TypeOK, history
<1>3. CASE TransitionWaited(t)
  <2>1. trans' \in [Threads -> TransitionRecords]
    BY <1>0, <1>3 DEF TransitionWaited, TypeOK, TransitionRecords
  <2>. QED
    BY <1>3, <2>1 DEF TransitionWaited, TypeOK, processes, history
<1>4. CASE TransitionFork(t)
  <2>. PICK p \in Pids :
         /\ proc' = [proc EXCEPT ![p] = "up"]
         /\ ident' = [ident EXCEPT ![p] = trans[t].user]
         /\ proof' = [proof EXCEPT ![p] = trans[t].proof]
         /\ trans' = [trans EXCEPT ![t].pc = "publish", ![t].new = p,
                                   ![t].proof = Nothing]
    BY <1>4 DEF TransitionFork
  <2>1. trans' \in [Threads -> TransitionRecords]
    BY <1>0 DEF TypeOK, TransitionRecords
  <2>2. /\ proc' \in [Pids -> {"unborn", "up", "stopping", "dead"}]
        /\ ident' \in [Pids -> Personas \cup {NoUser}]
        /\ proof' \in [Pids -> Proofs]
    BY <1>0 DEF TypeOK, TransitionRecords
  <2>. QED
    BY <1>4, <2>1, <2>2 DEF TransitionFork, TypeOK
<1>5. CASE TransitionForkFails(t)
  <2>1. trans' \in [Threads -> TransitionRecords]
    BY <1>0, <1>5 DEF TransitionForkFails, TypeOK, TransitionRecords
  <2>. QED
    BY <1>5, <2>1 DEF TransitionForkFails, TypeOK, processes, history
<1>6. CASE TransitionPublish(t)
  <2>1. session' \in SessionRecords
    BY <1>0, <1>6 DEF TransitionPublish, NewSession, SessionRecords,
                      TransitionRecords
  <2>2. trans' \in [Threads -> TransitionRecords]
    BY <1>0, <1>6
       DEF TransitionPublish, TypeOK, TransitionRecords, NoTransition
  <2>. QED
    BY <1>6, <2>1, <2>2 DEF TransitionPublish, TypeOK, processes, history
<1>. QED
  BY <1>1, <1>2, <1>3, <1>4, <1>5, <1>6 DEF TransitionStep

LEMMA MainStepType ==
  ASSUME TypeOK, MainStep
  PROVE  TypeOK'
<1>1. CASE SigTerm
  BY <1>1 DEF SigTerm, TypeOK, processes, history
<1>2. CASE MainTakesSession
  <2>1. session' \in SessionRecords /\ session.pid \in Pids \cup {NoPid}
    BY <1>2 DEF MainTakesSession, TypeOK, SessionRecords
  <2>2. proc' \in [Pids -> {"unborn", "up", "stopping", "dead"}]
    BY <1>2, <2>1, TerminateType DEF MainTakesSession
  <2>. QED
    BY <1>2, <2>1, <2>2 DEF MainTakesSession, TypeOK
<1>3. CASE MainKill
  BY <1>3 DEF MainKill, KillAfterTimeout, TypeOK, history
<1>4. CASE MainExits
  BY <1>4 DEF MainExits, TypeOK, processes, history
<1>. QED
  BY <1>1, <1>2, <1>3, <1>4 DEF MainStep

LEMMA NextType == TypeOK /\ [Next]_vars => TypeOK'
<1>. SUFFICES ASSUME TypeOK, [Next]_vars PROVE TypeOK'
  OBVIOUS
<1>1. CASE PrepareForShutdown
  BY <1>1 DEF PrepareForShutdown, TypeOK, processes, history
<1>2. CASE UNCHANGED vars
  BY <1>2 DEF TypeOK, vars
<1>. QED
  BY <1>1, <1>2, SessionStepType, DaemonStepType, TransitionStepType,
     MainStepType DEF Next

(* The record of the session, the waiting messages, the threads' locals    *)
(* and the process table always have their types; in particular the port   *)
(* never holds more than it can.                                           *)
THEOREM TypeCorrect == Spec => []TypeOK
  BY InitType, NextType, PTL DEF Spec

-----------------------------------------------------------------------------
(* Coherence of sSession. *)

(* A step that changes neither the threads nor the personas, forgets at    *)
(* most the pid, and un-forks nothing.                                     *)
LEMMA CoherenceFrame ==
  ASSUME TypeOK, CoherenceInv, UNCHANGED <<trans, ident>>,
         session' = session \/ session' = [session EXCEPT !.pid = NoPid],
         \A p \in Pids : proc[p] # "unborn" => proc'[p] # "unborn"
  PROVE  CoherenceInv'
<1>1. /\ session \in SessionRecords
      /\ session.pid \in Pids \cup {NoPid}
      /\ session.control \in Pids \cup {NoPid}
      /\ trans \in [Threads -> TransitionRecords]
  BY DEF TypeOK, SessionRecords
<1>2. /\ session'.control = session.control
      /\ session'.user = session.user
      /\ session'.uid = session.uid
      /\ session'.greeter = session.greeter
      /\ session'.pid \in {session.pid, NoPid}
  BY <1>1 DEF SessionRecords
<1>3. SessionCoherent'
  BY <1>1, <1>2 DEF CoherenceInv, SessionCoherent
<1>4. /\ session'.pid # NoPid => proc'[session'.pid] # "unborn"
      /\ session'.control # NoPid => proc'[session'.control] # "unborn"
  BY <1>1, <1>2 DEF CoherenceInv
<1>5. \A t \in Threads : trans[t].new \in Pids \cup {NoPid}
  BY <1>1 DEF TransitionRecords
<1>. QED
  BY <1>3, <1>4, <1>5 DEF CoherenceInv, InTransition

(* Starting a transition keeps it, for the two ways janus starts one. *)
LEMMA CoherenceSpawn ==
  ASSUME TypeOK, CoherenceInv, NEW u \in Personas, NEW f \in Proofs,
         Spawn(u, u = Greeter, f), UNCHANGED <<session, proc, ident>>
  PROVE  CoherenceInv'
<1>1. CASE trans' = trans
  BY <1>1, CoherenceFrame
<1>2. CASE trans' # trans
  <2>. PICK t \in Threads :
         trans' = [trans EXCEPT ![t] = Transition(u, u = Greeter, f)]
    BY <1>2 DEF Spawn
  <2>1. /\ trans'[t].pc = "start"
        /\ trans'[t].user = u
        /\ trans'[t].greeter = (u = Greeter)
    BY DEF TypeOK, Transition, NoTransition
  <2>2. \A x \in Threads : x # t => trans'[x] = trans[x]
    BY DEF TypeOK
  <2>3. SessionCoherent'
    BY DEF CoherenceInv, SessionCoherent
  <2>. QED
    BY <2>1, <2>2, <2>3 DEF CoherenceInv, InTransition
<1>. QED
  BY <1>1, <1>2

LEMMA CoherenceNext == TypeOK /\ CoherenceInv /\ [Next]_vars => CoherenceInv'
<1>. SUFFICES ASSUME TypeOK, CoherenceInv, [Next]_vars
              PROVE  CoherenceInv'
  OBVIOUS
<1>. DEFINE Quiet == /\ UNCHANGED <<trans, ident>>
                     /\ \/ session' = session
                        \/ session' = [session EXCEPT !.pid = NoPid]
                     /\ \A p \in Pids : proc[p] # "unborn" => proc'[p] # "unborn"
<1>0. Quiet => CoherenceInv'
  BY CoherenceFrame
<1>t. /\ session \in SessionRecords
      /\ session.pid \in Pids \cup {NoPid}
      /\ session.control \in Pids \cup {NoPid}
      /\ trans \in [Threads -> TransitionRecords]
  BY DEF TypeOK, SessionRecords
<1>1. ASSUME NEW p \in Pids, SessionStep(p) PROVE CoherenceInv'
  <2>1. Quiet
    BY <1>1 DEF SessionStep, SendHello, SendLogout, SendShutdownFinished,
                SendAuth, SendLoginOk, ProcessEnds, Send, TypeOK
  <2>. QED
    BY <1>0, <2>1
<1>2. CASE DaemonStep
  <2>1. CASE HandleLogoutRead \/ HandleAuthRequest \/ ShutdownWaited \/ KernShutdown
    <3>1. Quiet
      BY <2>1 DEF HandleLogoutRead, HandleAuthRequest, ShutdownWaited,
                  KernShutdown, processes
    <3>. QED
      BY <1>0, <3>1
  <2>2. CASE HandleLogoutDecide
    <3>0. Greeter \in Personas /\ Nothing \in Proofs /\ (Greeter = Greeter) = TRUE
      BY ConstantsAssumption DEF Personas, Proofs, Nothing, Configured
    <3>1. UNCHANGED <<session, proc, ident>>
      BY <2>2 DEF HandleLogoutDecide, processes
    <3>2. CASE UNCHANGED trans
      BY <1>0, <3>1, <3>2
    <3>3. CASE Spawn(Greeter, TRUE, Nothing)
      BY <3>0, <3>1, <3>3, CoherenceSpawn
    <3>. QED
      BY <2>2, <3>2, <3>3 DEF HandleLogoutDecide
  <2>3. CASE HandleLoginOk
    <3>. DEFINE u == Head(port).user
    <3>0. /\ u \in Personas /\ Nothing \in Proofs /\ auth.proof \in Proofs
          /\ (u = Greeter) = FALSE
      <4>1. Head(port) \in Messages /\ Head(port).what = "loginOk"
        BY <2>3, ReceiveType DEF HandleLoginOk
      <4>2. u \in Users
        BY <4>1 DEF Messages
      <4>. QED
        BY <4>2, ConstantsAssumption
           DEF Personas, Proofs, Nothing, Configured, TypeOK
    <3>1. UNCHANGED <<session, proc, ident>>
      BY <2>3 DEF HandleLoginOk, processes
    <3>2. CASE UNCHANGED trans
      BY <1>0, <3>1, <3>2
    <3>3. CASE \E f \in {Nothing, auth.proof} : Spawn(u, FALSE, f)
      <4>. PICK f \in {Nothing, auth.proof} : Spawn(u, FALSE, f)
        BY <3>3
      <4>1. Spawn(u, u = Greeter, f)
        BY <3>0
      <4>. QED
        BY <3>0, <3>1, <4>1, CoherenceSpawn
    <3>. QED
      BY <2>3, <3>2, <3>3 DEF HandleLoginOk
  <2>4. CASE HandleSessionHello
    <3>. DEFINE p == Head(port).pid
    <3>1. UNCHANGED <<trans, proc, ident>>
      BY <2>4 DEF HandleSessionHello
    <3>2. CASE session' = session
      BY <1>0, <3>1, <3>2
    <3>3. CASE /\ p = session.pid
               /\ session' = [session EXCEPT !.control = p,
                                             !.uid = ident[p],
                                             !.greeter = (ident[p] = Greeter)]
      <4>1. p \in Pids
        BY <2>4, ReceiveType DEF HandleSessionHello, Messages
      <4>2. /\ session.pid # NoPid
            /\ session'.pid = p /\ session'.control = p
            /\ session'.user = session.user
            /\ session'.uid = ident[p]
            /\ session'.greeter = (ident[p] = Greeter)
        BY <1>t, <3>3, <4>1, ConstantsAssumption DEF SessionRecords
      <4>3. session.user = ident[p] /\ proc[p] # "unborn"
        BY <3>3, <4>2 DEF CoherenceInv, SessionCoherent
      <4>4. SessionCoherent'
        BY <3>1, <4>2, <4>3 DEF SessionCoherent
      <4>. QED
        BY <3>1, <4>2, <4>3, <4>4 DEF CoherenceInv, InTransition
    <3>. QED
      BY <2>4, <3>2, <3>3 DEF HandleSessionHello, FromSession
  <2>5. CASE HandleShutdownFinished
    <3>1. Quiet
      BY <1>t, <2>5, TerminateType DEF HandleShutdownFinished
    <3>. QED
      BY <1>0, <3>1
  <2>6. CASE ShutdownKill
    <3>1. Quiet
      BY <2>6 DEF ShutdownKill, KillAfterTimeout, TypeOK
    <3>. QED
      BY <1>0, <3>1
  <2>. QED
    BY <1>2, <2>1, <2>2, <2>3, <2>4, <2>5, <2>6 DEF DaemonStep
<1>3. CASE PrepareForShutdown
  <2>1. Quiet
    BY <1>3 DEF PrepareForShutdown, processes
  <2>. QED
    BY <1>0, <2>1
<1>4. ASSUME NEW t \in Threads, TransitionStep(t) PROVE CoherenceInv'
  <2>0. trans[t] \in TransitionRecords
    BY <1>t
  <2>1. CASE TransitionStart(t) \/ TransitionWaited(t)
    <3>1. /\ UNCHANGED <<session, ident>>
          /\ \A p \in Pids : proc[p] # "unborn" => proc'[p] # "unborn"
      BY <1>t, <2>1, TerminateType
         DEF TransitionStart, TransitionWaited, processes
    <3>2. /\ \A x \in Threads : x # t => trans'[x] = trans[x]
          /\ trans[t].pc # "none" /\ trans'[t].pc \notin {"none", "publish"}
          /\ trans'[t].user = trans[t].user
          /\ trans'[t].greeter = trans[t].greeter
      BY <1>t, <2>0, <2>1
         DEF TransitionStart, TransitionWaited, TransitionRecords
    <3>3. SessionCoherent'
      BY <3>1 DEF CoherenceInv, SessionCoherent
    <3>4. \A x \in Threads : trans[x].new \in Pids \cup {NoPid}
      BY <1>t DEF TransitionRecords
    <3>. QED
      BY <1>t, <3>1, <3>2, <3>3, <3>4 DEF CoherenceInv, InTransition
  <2>2. CASE TransitionKill(t)
    <3>1. Quiet
      BY <2>2 DEF TransitionKill, KillAfterTimeout, TypeOK
    <3>. QED
      BY <1>0, <3>1
  <2>3. CASE TransitionFork(t)
    <3>. PICK p \in Pids :
           /\ proc[p] = "unborn"
           /\ proc' = [proc EXCEPT ![p] = "up"]
           /\ ident' = [ident EXCEPT ![p] = trans[t].user]
           /\ trans' = [trans EXCEPT ![t].pc = "publish", ![t].new = p,
                                     ![t].proof = Nothing]
      BY <2>3 DEF TransitionFork
    <3>1. /\ \A q \in Pids : proc[q] # "unborn" => ident'[q] = ident[q]
          /\ \A q \in Pids : proc[q] # "unborn" => proc'[q] # "unborn"
          /\ proc'[p] # "unborn" /\ ident'[p] = trans[t].user
      BY DEF TypeOK
    <3>2. /\ \A x \in Threads : x # t => trans'[x] = trans[x]
          /\ trans[t].pc # "none"
          /\ trans'[t].user = trans[t].user
          /\ trans'[t].greeter = trans[t].greeter
          /\ trans'[t].new = p
      BY <1>t, <2>0, <2>3 DEF TransitionFork, TransitionRecords
    <3>3. UNCHANGED session
      BY <2>3 DEF TransitionFork
    <3>4. SessionCoherent'
      BY <1>t, <3>1, <3>3 DEF CoherenceInv, SessionCoherent
    <3>5. \A x \in Threads : trans[x].new \in Pids \cup {NoPid}
      BY <1>t DEF TransitionRecords
    <3>. QED
      BY <1>t, <3>1, <3>2, <3>3, <3>4, <3>5 DEF CoherenceInv, InTransition
  <2>4. CASE TransitionForkFails(t)
    <3>1. UNCHANGED <<session, proc, ident>>
      BY <2>4 DEF TransitionForkFails, processes
    <3>2. /\ \A x \in Threads : x # t => trans'[x] = trans[x]
          /\ trans[t].pc # "none"
          /\ trans'[t].user = trans[t].user
          /\ trans'[t].greeter = trans[t].greeter
          /\ trans'[t].new = NoPid
      BY <1>t, <2>0, <2>4 DEF TransitionForkFails, TransitionRecords
    <3>3. SessionCoherent'
      BY <3>1 DEF CoherenceInv, SessionCoherent
    <3>. QED
      BY <3>1, <3>2, <3>3 DEF CoherenceInv, InTransition
  <2>5. CASE TransitionPublish(t)
    <3>1. UNCHANGED <<proc, ident>>
      BY <2>5 DEF TransitionPublish, processes
    <3>2. /\ session'.pid = trans[t].new /\ session'.user = trans[t].user
          /\ session'.uid = trans[t].user
          /\ session'.greeter = trans[t].greeter
          /\ session'.control = NoPid
      BY <2>5 DEF TransitionPublish, NewSession
    <3>3. /\ \A x \in Threads : x # t => trans'[x] = trans[x]
          /\ trans'[t].pc = "none"
          /\ trans[t].pc = "publish"
      BY <1>t, <2>5 DEF TransitionPublish, NoTransition
    <3>4. SessionCoherent'
      BY <3>1, <3>2, <3>3 DEF CoherenceInv, SessionCoherent, InTransition
    <3>. QED
      BY <3>1, <3>2, <3>3, <3>4 DEF CoherenceInv, InTransition
  <2>. QED
    BY <1>4, <2>1, <2>2, <2>3, <2>4, <2>5 DEF TransitionStep
<1>5. CASE MainStep
  <2>1. CASE SigTerm \/ MainExits
    <3>1. Quiet
      BY <2>1 DEF SigTerm, MainExits, processes
    <3>. QED
      BY <1>0, <3>1
  <2>2. CASE MainTakesSession
    <3>1. Quiet
      BY <1>t, <2>2, TerminateType DEF MainTakesSession
    <3>. QED
      BY <1>0, <3>1
  <2>3. CASE MainKill
    <3>1. Quiet
      BY <2>3 DEF MainKill, KillAfterTimeout, TypeOK
    <3>. QED
      BY <1>0, <3>1
  <2>. QED
    BY <1>5, <2>1, <2>2, <2>3 DEF MainStep
<1>6. CASE UNCHANGED vars
  BY <1>0, <1>6 DEF vars
<1>. QED
  BY <1>1, <1>2, <1>3, <1>4, <1>5, <1>6 DEF Next

LEMMA CoherenceInit == Init => CoherenceInv
<1>. SUFFICES ASSUME Init PROVE CoherenceInv
  OBVIOUS
<1>1. SessionCoherent
  BY DEF Init, SessionCoherent
<1>2. \A t \in Threads :
        /\ trans[t].pc # "publish"
        /\ InTransition(t) => /\ trans[t].user \in Personas
                              /\ trans[t].greeter = (trans[t].user = Greeter)
  <2>1. CASE trans = [t \in Threads |-> NoTransition]
    BY <2>1 DEF InTransition, NoTransition
  <2>2. ASSUME NEW s \in Threads, NEW u \in Personas,
               trans = [x \in Threads |->
                          IF x = s THEN Transition(u, u = Greeter, Configured)
                                   ELSE NoTransition]
        PROVE  \A t \in Threads :
                 /\ trans[t].pc # "publish"
                 /\ InTransition(t) => t = s
                 /\ trans[s].user = u /\ trans[s].greeter = (u = Greeter)
    <3>1. /\ Transition(u, u = Greeter, Configured).pc = "start"
          /\ Transition(u, u = Greeter, Configured).user = u
          /\ Transition(u, u = Greeter, Configured).greeter = (u = Greeter)
          /\ NoTransition.pc = "none"
      BY DEF Transition, NoTransition
    <3>. QED
      BY <2>2, <3>1 DEF InTransition
  <2>. QED
    BY <2>1, <2>2 DEF Init
<1>. QED
  BY <1>1, <1>2 DEF Init, CoherenceInv

(* sSession always describes the one janus_session it names, whatever the  *)
(* number of transition threads, the order of HELLOs, shutdowns and kills. *)
THEOREM SessionStaysCoherent == Spec => []SessionCoherent
<1>1. CoherenceInv => SessionCoherent
  BY DEF CoherenceInv
<1>. QED
  BY TypeCorrect, CoherenceInit, CoherenceNext, <1>1, PTL DEF Spec

-----------------------------------------------------------------------------
(* One verified password, one session. *)

LEMMA PasswordFrame ==
  ASSUME PasswordInv, UNCHANGED <<auth, trans, ident, passwords, proof>>,
         \A p \in Pids : (proc'[p] = "unborn") <=> (proc[p] = "unborn")
  PROVE  PasswordInv'
BY DEF PasswordInv, Vouches, IsPassword, NeedsProof

(* Changing the places of the threads leaves it alone, as long as users    *)
(* and proofs stay and nothing moves back before the fork.                 *)
LEMMA PasswordTransFrame ==
  ASSUME PasswordInv, UNCHANGED <<auth, ident, passwords, proof>>,
         \A p \in Pids : (proc'[p] = "unborn") <=> (proc[p] = "unborn"),
         NEW t \in Threads,
         trans[t].pc \in {"start", "wait", "fork"},
         trans'[t].proof = trans[t].proof, trans'[t].user = trans[t].user,
         \A x \in Threads : x # t => trans'[x] = trans[x]
  PROVE  PasswordInv'
BY DEF PasswordInv, Vouches, IsPassword, NeedsProof

(* A thread gives its proof up. *)
LEMMA PasswordDropProof ==
  ASSUME PasswordInv, UNCHANGED <<auth, proc, ident, passwords, proof>>,
         NEW t \in Threads,
         trans'[t].proof = Nothing,
         trans'[t].pc \notin {"start", "wait", "fork"},
         \A x \in Threads : x # t => trans'[x] = trans[x]
  PROVE  PasswordInv'
BY DEF PasswordInv, Vouches, IsPassword, NeedsProof

(* A thread starts for a user who needs no password. *)
LEMMA PasswordSpawnFree ==
  ASSUME TypeOK, PasswordInv, NEW u, NEW g \in BOOLEAN, ~NeedsProof(u),
         Spawn(u, g, Nothing),
         UNCHANGED <<auth, proc, ident, passwords, proof>>
  PROVE  PasswordInv'
<1>1. CASE trans' = trans
  BY <1>1, PasswordFrame
<1>2. CASE trans' # trans
  <2>. PICK t \in Threads : trans' = [trans EXCEPT ![t] = Transition(u, g, Nothing)]
    BY <1>2 DEF Spawn
  <2>1. /\ trans'[t].user = u /\ trans'[t].proof = Nothing
        /\ \A x \in Threads : x # t => trans'[x] = trans[x]
    BY DEF TypeOK, Transition, NoTransition
  <2>. QED
    BY <2>1 DEF PasswordInv, Vouches, IsPassword
<1>. QED
  BY <1>1, <1>2

(* The authentication is used up, ... *)
LEMMA PasswordConsume ==
  ASSUME TypeOK, PasswordInv, auth' = NoAuth,
         UNCHANGED <<trans, proc, ident, passwords, proof>>
  PROVE  PasswordInv'
<1>1. auth'.proof = Nothing /\ auth'.user = NoUser
  BY DEF NoAuth
<1>2. ~IsPassword(auth'.proof)
  BY <1>1 DEF IsPassword
<1>. QED
  BY <1>1, <1>2 DEF PasswordInv, Vouches, IsPassword, NeedsProof

(* ... and its password moves into the thread it pays for, ... *)
LEMMA PasswordMovesToThread ==
  ASSUME PasswordInv, NEW t \in Threads, IsPassword(auth.proof),
         trans'[t].proof = auth.proof, trans'[t].user = auth.user,
         \A x \in Threads : x # t => trans'[x] = trans[x],
         auth'.proof = Nothing, auth'.user = NoUser,
         UNCHANGED <<proc, ident, passwords, proof>>
  PROVE  PasswordInv'
<1>1. ~IsPassword(Nothing)
  BY DEF IsPassword
<1>2. \A x \in Threads : x # t =>
        /\ trans'[x].proof = trans[x].proof /\ trans'[x].user = trans[x].user
        /\ trans'[x].pc = trans[x].pc
  OBVIOUS
<1>3. \A x \in Threads : trans'[x].proof # auth'.proof \/ ~IsPassword(trans'[x].proof)
  BY <1>1
<1>4. \A x, y \in Threads :
        IsPassword(trans'[x].proof) /\ trans'[y].proof = trans'[x].proof => y = x
  BY <1>2 DEF PasswordInv
<1>5. \A p \in Pids : IsPassword(proof[p]) => \A x \in Threads : trans'[x].proof # proof[p]
  BY <1>2 DEF PasswordInv
<1>6. \A x \in Threads :
        /\ Vouches(passwords, trans'[x].proof, trans'[x].user)
        /\ trans'[x].pc \in {"start", "wait", "fork"} /\ NeedsProof(trans'[x].user)
             => trans'[x].proof # Nothing
  BY <1>1, <1>2 DEF PasswordInv
<1>. QED
  BY <1>1, <1>3, <1>4, <1>5, <1>6 DEF PasswordInv, Vouches

LEMMA PasswordSpawnPaid ==
  ASSUME TypeOK, PasswordInv, NEW u \in Users, auth.user = u,
         Spawn(u, FALSE, auth.proof), auth' = NoAuth,
         UNCHANGED <<proc, ident, passwords, proof>>
  PROVE  PasswordInv'
<1>1. CASE trans' = trans
  BY <1>1, PasswordConsume
<1>2. CASE trans' # trans
  <2>. PICK t \in Threads :
         trans' = [trans EXCEPT ![t] = Transition(u, FALSE, auth.proof)]
    BY <1>2 DEF Spawn
  <2>1. /\ trans'[t].user = u /\ trans'[t].proof = auth.proof
        /\ \A x \in Threads : x # t => trans'[x] = trans[x]
    BY DEF TypeOK, Transition, NoTransition
  <2>2. IsPassword(auth.proof)
    BY ConstantsAssumption DEF PasswordInv
  <2>3. auth'.user = NoUser /\ auth'.proof = Nothing
    BY DEF NoAuth
  <2>. QED
    BY <2>1, <2>2, <2>3, PasswordMovesToThread
<1>. QED
  BY <1>1, <1>2

(* ... and from the thread into the session it forks. *)
LEMMA PasswordMovesToSession ==
  ASSUME PasswordInv, NEW t \in Threads, NEW p \in Pids,
         trans[t].pc = "fork", proc[p] = "unborn",
         proc'[p] = "up", proof'[p] = trans[t].proof, ident'[p] = trans[t].user,
         \A q \in Pids : q # p => /\ proof'[q] = proof[q]
                                  /\ ident'[q] = ident[q]
                                  /\ proc'[q] = proc[q],
         trans'[t].proof = Nothing, trans'[t].pc = "publish",
         \A x \in Threads : x # t => trans'[x] = trans[x],
         UNCHANGED <<auth, passwords>>
  PROVE  PasswordInv'
<1>1. ~IsPassword(Nothing) /\ proof[p] = Nothing
  BY DEF IsPassword, PasswordInv
<1>2. \A x \in Threads : x # t =>
        /\ trans'[x].proof = trans[x].proof /\ trans'[x].user = trans[x].user
        /\ trans'[x].pc = trans[x].pc
  OBVIOUS
<1>3. \A x \in Threads :
        /\ IsPassword(trans'[x].proof) => trans'[x].proof # auth.proof
        /\ trans'[x].pc \in {"start", "wait", "fork"} /\ NeedsProof(trans'[x].user)
             => trans'[x].proof # Nothing
  BY <1>1, <1>2 DEF PasswordInv
<1>4. \A x \in Threads : Vouches(passwords, trans'[x].proof, trans'[x].user)
  BY <1>1, <1>2 DEF PasswordInv, Vouches
<1>5. \A x, y \in Threads :
        IsPassword(trans'[x].proof) /\ trans'[y].proof = trans'[x].proof => y = x
  BY <1>1, <1>2 DEF PasswordInv
<1>6. \A q \in Pids :
        /\ proc'[q] = "unborn" => proof'[q] = Nothing
        /\ proc'[q] # "unborn" /\ NeedsProof(ident'[q]) => proof'[q] # Nothing
        /\ Vouches(passwords, proof'[q], ident'[q])
        /\ IsPassword(proof'[q]) => proof'[q] # auth.proof
  BY DEF PasswordInv
<1>7. \A q \in Pids, x \in Threads :
        IsPassword(proof'[q]) => trans'[x].proof # proof'[q]
  <2>. SUFFICES ASSUME NEW q \in Pids, NEW x \in Threads, IsPassword(proof'[q])
                PROVE  trans'[x].proof # proof'[q]
    OBVIOUS
  <2>1. CASE x = t
    BY <1>1, <2>1
  <2>2. CASE x # t /\ q = p
    <3>1. IsPassword(trans[t].proof)
      BY <2>2
    <3>2. trans[x].proof # trans[t].proof
      BY <2>2, <3>1 DEF PasswordInv
    <3>. QED
      BY <1>2, <2>2, <3>2
  <2>3. CASE x # t /\ q # p
    BY <1>2, <2>3 DEF PasswordInv
  <2>. QED
    BY <2>1, <2>2, <2>3
<1>8. \A q, r \in Pids :
        IsPassword(proof'[q]) /\ proof'[r] = proof'[q] => r = q
  <2>. SUFFICES ASSUME NEW q \in Pids, NEW r \in Pids, r # q,
                       IsPassword(proof'[q])
                PROVE  proof'[r] # proof'[q]
    OBVIOUS
  <2>1. CASE q = p
    <3>1. IsPassword(trans[t].proof)
      BY <2>1
    <3>. QED
      BY <2>1, <3>1 DEF PasswordInv
  <2>2. CASE r = p
    BY <2>2 DEF PasswordInv
  <2>3. CASE q # p /\ r # p
    BY <2>3 DEF PasswordInv
  <2>. QED
    BY <2>1, <2>2, <2>3
<1>. QED
  BY <1>3, <1>4, <1>5, <1>6, <1>7, <1>8 DEF PasswordInv

(* A new password is verified: its number is not used anywhere yet. *)
LEMMA PasswordVerified ==
  ASSUME TypeOK, PasswordInv, NEW u \in Users,
         Len(passwords) < MaxPasswords,
         passwords' = Append(passwords, u),
         auth' = [user |-> u, proof |-> Len(passwords) + 1],
         UNCHANGED <<trans, proc, ident, proof>>
  PROVE  PasswordInv'
<1>. DEFINE n == Len(passwords) + 1
<1>1. /\ n \in Nat /\ n # Nothing /\ n # Configured
      /\ DOMAIN passwords = 1 .. (n - 1)
      /\ DOMAIN passwords' = 1 .. n
      /\ passwords'[n] = u
      /\ \A i \in 1 .. (n - 1) : passwords'[i] = passwords[i]
  BY ConstantsAssumption DEF TypeOK, Nothing, Configured
<1>2. n \notin DOMAIN passwords
  BY <1>1
<1>3. ASSUME NEW f, NEW v, Vouches(passwords, f, v)
      PROVE  Vouches(passwords', f, v) /\ (IsPassword(f) => f # n)
  BY <1>1, <1>2, <1>3 DEF Vouches
<1>4. IsPassword(n) /\ n \in DOMAIN passwords'
  BY <1>1 DEF IsPassword
<1>5. auth'.proof = n /\ auth'.user = u
  OBVIOUS
<1>6. Vouches(passwords', auth'.proof, auth'.user)
  BY <1>1, <1>4, <1>5 DEF Vouches
<1>. HIDE DEF n
<1>7. \A t \in Threads :
        /\ Vouches(passwords', trans'[t].proof, trans'[t].user)
        /\ IsPassword(trans[t].proof) => trans[t].proof # n
  BY <1>3 DEF PasswordInv
<1>8. \A p \in Pids :
        /\ Vouches(passwords', proof'[p], ident'[p])
        /\ IsPassword(proof[p]) => proof[p] # n
  BY <1>3 DEF PasswordInv
<1>. QED
  BY <1>4, <1>5, <1>6, <1>7, <1>8 DEF PasswordInv, IsPassword, NeedsProof

LEMMA PasswordNext == TypeOK /\ PasswordInv /\ [Next]_vars => PasswordInv'
<1>. SUFFICES ASSUME TypeOK, PasswordInv, [Next]_vars
              PROVE  PasswordInv'
  OBVIOUS
<1>. DEFINE Quiet ==
       /\ UNCHANGED <<auth, trans, ident, passwords, proof>>
       /\ \A p \in Pids : (proc'[p] = "unborn") <=> (proc[p] = "unborn")
<1>0. Quiet => PasswordInv'
  BY PasswordFrame
<1>t. /\ session.pid \in Pids \cup {NoPid}
      /\ trans \in [Threads -> TransitionRecords]
  BY DEF TypeOK, SessionRecords
<1>1. ASSUME NEW p \in Pids, SessionStep(p) PROVE PasswordInv'
  <2>1. Quiet
    BY <1>1 DEF SessionStep, SendHello, SendLogout, SendShutdownFinished,
                SendAuth, SendLoginOk, ProcessEnds, Send, TypeOK, history
  <2>. QED
    BY <1>0, <2>1
<1>2. CASE DaemonStep
  <2>1. CASE \/ HandleLogoutRead \/ HandleSessionHello
             \/ ShutdownWaited \/ KernShutdown
    <3>1. Quiet
      BY <2>1 DEF HandleLogoutRead, HandleSessionHello, ShutdownWaited,
                  KernShutdown, processes, history
    <3>. QED
      BY <1>0, <3>1
  <2>2. CASE HandleLogoutDecide
    <3>1. UNCHANGED <<auth, proc, ident, passwords, proof>>
      BY <2>2 DEF HandleLogoutDecide, processes
    <3>2. CASE UNCHANGED trans
      BY <1>0, <3>1, <3>2
    <3>3. CASE Spawn(Greeter, TRUE, Nothing)
      BY <3>1, <3>3, PasswordSpawnFree, ConstantsAssumption DEF NeedsProof
    <3>. QED
      BY <2>2, <3>2, <3>3 DEF HandleLogoutDecide
  <2>3. CASE HandleAuthRequest
    <3>1. UNCHANGED <<trans, proc, ident, proof>>
      BY <2>3 DEF HandleAuthRequest, processes
    <3>2. Head(port).user \in Users
      BY <2>3, ReceiveType DEF HandleAuthRequest, Messages
    <3>3. CASE UNCHANGED <<auth, passwords>>
      BY <1>0, <3>1, <3>3
    <3>4. CASE auth' = NoAuth /\ UNCHANGED passwords
      BY <3>1, <3>4, PasswordConsume
    <3>5. CASE /\ Len(passwords) < MaxPasswords
               /\ passwords' = Append(passwords, Head(port).user)
               /\ auth' = [user |-> Head(port).user,
                           proof |-> Len(passwords) + 1]
      BY <3>1, <3>2, <3>5, PasswordVerified
    <3>. QED
      BY <2>3, <3>3, <3>4, <3>5 DEF HandleAuthRequest
  <2>4. CASE HandleLoginOk
    <3>. DEFINE u == Head(port).user
    <3>1. UNCHANGED <<proc, ident, passwords, proof>>
      BY <2>4 DEF HandleLoginOk, processes
    <3>2. u \in Users
      BY <2>4, ReceiveType DEF HandleLoginOk, Messages
    <3>3. CASE UNCHANGED <<auth, trans>>
      BY <1>0, <3>1, <3>3
    <3>4. CASE u = LiveUser /\ UNCHANGED auth /\ Spawn(u, FALSE, Nothing)
      BY <3>1, <3>4, PasswordSpawnFree DEF NeedsProof
    <3>5. CASE auth' = NoAuth /\ UNCHANGED trans
      BY <3>1, <3>5, PasswordConsume
    <3>6. CASE auth' = NoAuth /\ auth.user = u /\ Spawn(u, FALSE, auth.proof)
      BY <3>1, <3>2, <3>6, PasswordSpawnPaid
    <3>. QED
      BY <2>4, <3>3, <3>4, <3>5, <3>6 DEF HandleLoginOk, ConsumeAuth
  <2>5. CASE HandleShutdownFinished
    <3>1. Quiet
      BY <1>t, <2>5, TerminateType DEF HandleShutdownFinished
    <3>. QED
      BY <1>0, <3>1
  <2>6. CASE ShutdownKill
    <3>1. Quiet
      BY <2>6 DEF ShutdownKill, KillAfterTimeout, TypeOK, history, Alive
    <3>. QED
      BY <1>0, <3>1
  <2>. QED
    BY <1>2, <2>1, <2>2, <2>3, <2>4, <2>5, <2>6 DEF DaemonStep
<1>3. CASE PrepareForShutdown
  <2>1. Quiet
    BY <1>3 DEF PrepareForShutdown, processes, history
  <2>. QED
    BY <1>0, <2>1
<1>4. ASSUME NEW t \in Threads, TransitionStep(t) PROVE PasswordInv'
  <2>0. trans[t] \in TransitionRecords
    BY <1>t
  <2>1. CASE TransitionStart(t) \/ TransitionWaited(t)
    <3>1. /\ UNCHANGED <<auth, ident, passwords, proof>>
          /\ \A p \in Pids : (proc'[p] = "unborn") <=> (proc[p] = "unborn")
      BY <1>t, <2>1, TerminateType
         DEF TransitionStart, TransitionWaited, processes, history
    <3>2. /\ \A x \in Threads : x # t => trans'[x] = trans[x]
          /\ trans[t].pc \in {"start", "wait", "fork"}
          /\ trans'[t].user = trans[t].user
          /\ trans'[t].proof = trans[t].proof
      BY <1>t, <2>0, <2>1
         DEF TransitionStart, TransitionWaited, TransitionRecords
    <3>. QED
      BY <3>1, <3>2, PasswordTransFrame
  <2>2. CASE TransitionKill(t)
    <3>1. Quiet
      BY <2>2 DEF TransitionKill, KillAfterTimeout, TypeOK, history, Alive
    <3>. QED
      BY <1>0, <3>1
  <2>3. CASE TransitionFork(t)
    <3>. PICK p \in Pids :
           /\ proc[p] = "unborn"
           /\ proc' = [proc EXCEPT ![p] = "up"]
           /\ ident' = [ident EXCEPT ![p] = trans[t].user]
           /\ proof' = [proof EXCEPT ![p] = trans[t].proof]
           /\ trans' = [trans EXCEPT ![t].pc = "publish", ![t].new = p,
                                     ![t].proof = Nothing]
      BY <2>3 DEF TransitionFork
    <3>1. UNCHANGED <<auth, passwords>> /\ trans[t].pc = "fork"
      BY <2>3 DEF TransitionFork
    <3>2. /\ proof'[p] = trans[t].proof /\ ident'[p] = trans[t].user
          /\ proc'[p] = "up"
          /\ \A q \in Pids : q # p => /\ proof'[q] = proof[q]
                                      /\ ident'[q] = ident[q]
                                      /\ proc'[q] = proc[q]
      BY DEF TypeOK
    <3>3. /\ \A x \in Threads : x # t => trans'[x] = trans[x]
          /\ trans'[t].user = trans[t].user
          /\ trans'[t].pc = "publish"
          /\ trans'[t].proof = Nothing
      BY <1>t, <2>0 DEF TransitionRecords
    <3>. QED
      BY <3>1, <3>2, <3>3, PasswordMovesToSession
  <2>4. CASE TransitionForkFails(t)
    <3>1. UNCHANGED <<auth, proc, ident, passwords, proof>>
      BY <2>4 DEF TransitionForkFails, processes, history
    <3>2. /\ \A x \in Threads : x # t => trans'[x] = trans[x]
          /\ trans'[t].pc = "publish" /\ trans'[t].proof = Nothing
      BY <1>t, <2>0, <2>4 DEF TransitionForkFails, TransitionRecords
    <3>. QED
      BY <3>1, <3>2, PasswordDropProof
  <2>5. CASE TransitionPublish(t)
    <3>1. UNCHANGED <<auth, proc, ident, passwords, proof>>
      BY <2>5 DEF TransitionPublish, processes, history
    <3>2. /\ \A x \in Threads : x # t => trans'[x] = trans[x]
          /\ trans'[t].pc = "none" /\ trans'[t].proof = Nothing
      BY <1>t, <2>5 DEF TransitionPublish, NoTransition
    <3>. QED
      BY <3>1, <3>2, PasswordDropProof
  <2>. QED
    BY <1>4, <2>1, <2>2, <2>3, <2>4, <2>5 DEF TransitionStep
<1>5. CASE MainStep
  <2>1. CASE SigTerm \/ MainExits
    <3>1. Quiet
      BY <2>1 DEF SigTerm, MainExits, processes, history
    <3>. QED
      BY <1>0, <3>1
  <2>2. CASE MainTakesSession
    <3>1. Quiet
      BY <1>t, <2>2, TerminateType DEF MainTakesSession
    <3>. QED
      BY <1>0, <3>1
  <2>3. CASE MainKill
    <3>1. Quiet
      BY <2>3 DEF MainKill, KillAfterTimeout, TypeOK, history, Alive
    <3>. QED
      BY <1>0, <3>1
  <2>. QED
    BY <1>5, <2>1, <2>2, <2>3 DEF MainStep
<1>6. CASE UNCHANGED vars
  BY <1>0, <1>6 DEF vars
<1>. QED
  BY <1>1, <1>2, <1>3, <1>4, <1>5, <1>6 DEF Next

LEMMA PasswordInit == Init => PasswordInv
<1>. SUFFICES ASSUME Init PROVE PasswordInv
  OBVIOUS
<1>0. /\ ~IsPassword(Nothing) /\ ~IsPassword(Configured)
      /\ Nothing # Configured
  BY ConstantsAssumption DEF IsPassword, Nothing, Configured
<1>1. \A t \in Threads :
        /\ trans[t].proof \in {Nothing, Configured}
        /\ trans[t].pc \in {"start", "wait", "fork"}
             => trans[t].proof = Configured
  <2>1. /\ NoTransition.pc = "none" /\ NoTransition.proof = Nothing
        /\ \A u, g : Transition(u, g, Configured).proof = Configured
    BY DEF NoTransition, Transition
  <2>. QED
    BY <2>1 DEF Init
<1>2. /\ auth.user = NoUser /\ auth.proof = Nothing
      /\ \A p \in Pids : proof[p] = Nothing /\ proc[p] = "unborn"
  BY DEF Init, NoAuth
<1>. QED
  BY <1>0, <1>1, <1>2 DEF PasswordInv, Vouches, IsPassword

(* No desktop of a user opens without that user's password verified once   *)
(* for this very desktop, except the first (autologin) and the live        *)
(* persona's: two LOGIN_OKs never share one AUTH.                          *)
THEOREM OnePasswordOneSession == Spec => []OnePasswordPerSession
<1>1. PasswordInv => OnePasswordPerSession
  BY DEF PasswordInv, OnePasswordPerSession, Vouches, NeedsProof
<1>. QED
  BY TypeCorrect, PasswordInit, PasswordNext, <1>1, PTL DEF Spec
-----------------------------------------------------------------------------
(* One session at a time.                                                  *)

(* At most one of the threads, the daemon and main() changes the session.  *)
DaemonStops == daemon.pc \in {"shutdownWait", "kernShutdown"}
MainStops == main.pc \in {"wait", "exited"}
Alone ==
  /\ \A t, u \in Threads : InTransition(t) /\ InTransition(u) => t = u
  /\ \A t \in Threads : InTransition(t) => ~DaemonStops /\ ~MainStops
  /\ ~(DaemonStops /\ MainStops)

(* Whoever changes the session knows the one process that may live: it is  *)
(* the recorded one before he begins and after he has finished.            *)
Holds(p) ==
  /\ \A t \in Threads :
       /\ trans[t].pc = "start" => p = session.pid
       /\ trans[t].pc = "wait" => p = trans[t].old
       /\ trans[t].pc # "fork"
       /\ trans[t].pc = "publish" => p = trans[t].new
  /\ daemon.pc = "shutdownWait" => p = daemon.old
  /\ daemon.pc # "kernShutdown"
  /\ main.pc = "wait" => p = main.old
  /\ main.pc # "exited"
  /\ ~DaemonStops /\ ~MainStops /\ (\A t \in Threads : ~InTransition(t))
       => p = session.pid
SeatHeld == \A p \in Pids : Alive(p) => Holds(p)

OverlapInv == overlapped \/ (Alone /\ SeatHeld)

LEMMA OverlapInit == Init => OverlapInv
<1>. SUFFICES ASSUME Init PROVE OverlapInv
  OBVIOUS
<1>1. daemon.pc = "idle" /\ main.pc = "loop"
  BY DEF Init, IdleDaemon
<1>2. \A p \in Pids : ~Alive(p)
  BY DEF Init, Alive
<1>3. \A t, u \in Threads : InTransition(t) /\ InTransition(u) => t = u
  BY DEF Init, InTransition, NoTransition
<1>. QED
  BY <1>1, <1>2, <1>3 DEF OverlapInv, Alone, SeatHeld, DaemonStops, MainStops

(* Nobody begins, goes on or finishes. *)
LEMMA OverlapFrame ==
  ASSUME Alone, SeatHeld, UNCHANGED <<trans, main>>, session'.pid = session.pid,
         \/ UNCHANGED daemon
         \/ ~DaemonStops /\ ~DaemonStops',
         \A p \in Pids : Alive(p)' => Alive(p)
  PROVE  Alone' /\ SeatHeld'
<1>1. Alone'
  BY DEF Alone, InTransition, DaemonStops, MainStops
<1>2. ASSUME NEW p \in Pids, Alive(p)' PROVE Holds(p)'
  <2>1. Holds(p)
    BY <1>2 DEF SeatHeld
  <2>. QED BY <2>1 DEF Holds, InTransition, DaemonStops, MainStops
<1>. QED BY <1>1, <1>2 DEF SeatHeld

(* A process is only signalled or ends. *)
LEMMA NobodyIsBorn ==
  ASSUME TypeOK,
         \/ UNCHANGED proc
         \/ \E p \in Pids \cup {NoPid} : proc' = Terminate(proc, p)
         \/ \E p \in Pids : KillAfterTimeout(p)
         \/ \E p \in Pids : ProcessEnds(p)
  PROVE  \A q \in Pids : Alive(q)' => Alive(q)
BY DEF TypeOK, Terminate, KillAfterTimeout, ProcessEnds, Alive

(* A thread begins with the recorded session. *)
LEMMA OverlapSpawn ==
  ASSUME TypeOK, OverlapInv, NEW u, NEW g, NEW f, Spawn(u, g, f), ~DaemonStops,
         ~DaemonStops', UNCHANGED <<session, main, proc>>
  PROVE  OverlapInv'
<1>1. CASE overlapped'
  BY <1>1 DEF OverlapInv
<1>2. CASE ~overlapped'
  <2>1. /\ ~overlapped /\ main.pc = "loop"
        /\ \A t \in Threads : ~InTransition(t)
    BY <1>2 DEF Spawn
  <2>2. Alone /\ SeatHeld
    BY <2>1 DEF OverlapInv
  <2>3. CASE trans' = trans
    BY <2>2, <2>3, OverlapFrame DEF Alive, OverlapInv
  <2>4. CASE trans' # trans
    <3>1. PICK t \in Threads : trans' = [trans EXCEPT ![t] = Transition(u, g, f)]
      BY <2>4 DEF Spawn
    <3>2. /\ trans'[t].pc = "start"
          /\ \A x \in Threads : x # t => trans'[x] = trans[x]
      BY <3>1 DEF TypeOK, Transition, NoTransition
    <3>3. \A x \in Threads : InTransition(x)' <=> x = t
      BY <2>1, <3>2 DEF InTransition
    <3>4. Alone'
      BY <2>1, <3>3 DEF Alone, DaemonStops, MainStops
    <3>5. ASSUME NEW p \in Pids, Alive(p)' PROVE Holds(p)'
      <4>1. Alive(p)
        BY <3>5 DEF Alive
      <4>2. p = session.pid
        BY <2>1, <2>2, <4>1 DEF SeatHeld, Holds, MainStops
      <4>3. \A x \in Threads : x # t => trans'[x].pc = "none"
        BY <3>3 DEF InTransition
      <4>. QED
        BY <2>1, <3>2, <4>2, <4>3 DEF Holds, DaemonStops, MainStops
    <3>. QED BY <3>4, <3>5 DEF OverlapInv, SeatHeld
  <2>. QED BY <2>3, <2>4
<1>. QED BY <1>1, <1>2

(* The thread that is under way goes on, and the process that it knows is  *)
(* the one that may live.                                                  *)
LEMMA OverlapThread ==
  ASSUME TypeOK, OverlapInv, NEW t \in Threads, TransitionStep(t)
  PROVE  OverlapInv'
<1>0. /\ trans \in [Threads -> TransitionRecords] /\ trans[t] \in TransitionRecords
      /\ session.pid \in Pids \cup {NoPid}
  BY DEF TypeOK, SessionRecords
<1>1. /\ InTransition(t)
      /\ UNCHANGED <<overlapped, daemon, main>>
  BY DEF TransitionStep, TransitionStart, TransitionKill, TransitionWaited,
         TransitionFork, TransitionForkFails, TransitionPublish, history, InTransition
<1>2. CASE overlapped
  BY <1>1, <1>2 DEF OverlapInv
<1>3. CASE ~overlapped
  <2>1. Alone /\ SeatHeld
    BY <1>3 DEF OverlapInv
  <2>2. /\ ~DaemonStops /\ ~MainStops
        /\ \A x \in Threads : x # t => trans[x].pc = "none"
    BY <1>1, <2>1 DEF Alone, InTransition
  <2>3. \A x \in Threads : x # t => trans'[x] = trans[x]
    BY <1>0 DEF TransitionStep, TransitionStart, TransitionKill, TransitionWaited,
           TransitionFork, TransitionForkFails, TransitionPublish
  <2>4. Alone'
    BY <1>1, <2>2, <2>3 DEF Alone, InTransition, DaemonStops, MainStops
  <2>. DEFINE Knows(p) ==
         /\ trans'[t].pc = "start" => p = session'.pid
         /\ trans'[t].pc = "wait" => p = trans'[t].old
         /\ trans'[t].pc # "fork"
         /\ trans'[t].pc = "publish" => p = trans'[t].new
         /\ trans'[t].pc = "none" => p = session'.pid
  <2>5. ASSUME NEW p \in Pids, Alive(p)', Knows(p) PROVE Holds(p)'
    BY <1>1, <2>2, <2>3, <2>5 DEF Holds, InTransition, DaemonStops, MainStops
  <2>6. ASSUME NEW p \in Pids, Alive(p)' PROVE Knows(p)
    <3>1. CASE TransitionStart(t)
      <4>1. Alive(p)
        BY <1>0, <2>6, <3>1, NobodyIsBorn DEF TransitionStart
      <4>2. p = session.pid
        BY <2>1, <3>1, <4>1 DEF SeatHeld, Holds, TransitionStart
      <4>. QED BY <1>0, <3>1, <4>2 DEF TransitionStart, TransitionRecords
    <3>2. CASE TransitionKill(t)
      <4>1. Alive(p)
        BY <2>6, <3>2 DEF TransitionKill, KillAfterTimeout, Alive, TypeOK
      <4>2. p = trans[t].old
        BY <2>1, <3>2, <4>1 DEF SeatHeld, Holds, TransitionKill
      <4>. QED BY <3>2, <4>2 DEF TransitionKill
    <3>3. CASE TransitionWaited(t)
      <4>1. Alive(p)
        BY <2>6, <3>3 DEF TransitionWaited, processes, Alive
      <4>2. p = trans[t].old
        BY <2>1, <3>3, <4>1 DEF SeatHeld, Holds, TransitionWaited
      <4>. QED BY <3>3, <4>1, <4>2 DEF TransitionWaited, Gone, Alive
    <3>4. CASE TransitionFork(t)
      <4>1. PICK n \in Pids :
              /\ proc' = [proc EXCEPT ![n] = "up"]
              /\ trans' = [trans EXCEPT ![t].pc = "publish", ![t].new = n,
                                        ![t].proof = Nothing]
        BY <3>4 DEF TransitionFork
      <4>2. p = n
        <5>1. ~Alive(p)
          BY <2>1, <3>4 DEF SeatHeld, Holds, TransitionFork
        <5>. QED BY <2>6, <4>1, <5>1 DEF Alive, TypeOK
      <4>. QED BY <1>0, <4>1, <4>2 DEF TransitionRecords
    <3>5. CASE TransitionForkFails(t)
      <4>1. Alive(p)
        BY <2>6, <3>5 DEF TransitionForkFails, processes, Alive
      <4>. QED BY <2>1, <3>5, <4>1 DEF SeatHeld, Holds, TransitionForkFails
    <3>6. CASE TransitionPublish(t)
      <4>1. Alive(p)
        BY <2>6, <3>6 DEF TransitionPublish, processes, Alive
      <4>2. p = trans[t].new
        BY <2>1, <3>6, <4>1 DEF SeatHeld, Holds, TransitionPublish
      <4>3. session'.pid = trans[t].new /\ trans'[t].pc = "none"
        BY <1>0, <3>6 DEF TransitionPublish, NewSession, NoTransition
      <4>. QED BY <4>2, <4>3
    <3>. QED BY <3>1, <3>2, <3>3, <3>4, <3>5, <3>6 DEF TransitionStep
  <2>. QED BY <2>4, <2>5, <2>6 DEF OverlapInv, SeatHeld
<1>. QED BY <1>2, <1>3

(* The daemon takes the session out of the record and stops it. *)
LEMMA OverlapDaemon ==
  ASSUME TypeOK, OverlapInv, DaemonStep
  PROVE  OverlapInv'
<1>0. session \in SessionRecords /\ session.pid \in Pids \cup {NoPid}
  BY DEF TypeOK, SessionRecords
<1>1. CASE HandleLogoutDecide
  <2>1. ~DaemonStops /\ ~DaemonStops' /\ UNCHANGED <<session, main, proc>>
    BY <1>1 DEF HandleLogoutDecide, DaemonStops, IdleDaemon, processes
  <2>2. CASE UNCHANGED <<trans, overlapped>>
    BY <2>1, <2>2, OverlapFrame DEF OverlapInv, Alive
  <2>3. CASE Spawn(Greeter, TRUE, Nothing)
    BY <2>1, <2>3, OverlapSpawn
  <2>. QED BY <1>1, <2>2, <2>3 DEF HandleLogoutDecide
<1>2. CASE HandleLoginOk
  <2>1. ~DaemonStops /\ ~DaemonStops' /\ UNCHANGED <<session, main, proc>>
    BY <1>2 DEF HandleLoginOk, Receive, DaemonStops, processes
  <2>2. CASE UNCHANGED <<trans, overlapped>>
    BY <2>1, <2>2, OverlapFrame DEF OverlapInv, Alive
  <2>3. ASSUME NEW f, Spawn(Head(port).user, FALSE, f) PROVE OverlapInv'
    BY <2>1, <2>3, OverlapSpawn
  <2>. QED BY <1>2, <2>2, <2>3 DEF HandleLoginOk
<1>3. CASE HandleLogoutRead \/ HandleAuthRequest \/ HandleSessionHello
  <2>1. /\ ~DaemonStops /\ ~DaemonStops' /\ session'.pid = session.pid
        /\ UNCHANGED <<trans, main, proc, overlapped>>
    BY <1>0, <1>3 DEF HandleLogoutRead, HandleAuthRequest, HandleSessionHello, Receive,
       DaemonStops, processes, history, TypeOK, SessionRecords
  <2>. QED BY <2>1, OverlapFrame DEF OverlapInv, Alive
<1>4. CASE HandleShutdownFinished
  <2>1. CASE overlapped'
    BY <2>1 DEF OverlapInv
  <2>2. CASE ~overlapped'
    <3>1. /\ ~overlapped /\ main.pc = "loop" /\ ~DaemonStops
          /\ \A t \in Threads : ~InTransition(t)
      BY <1>4, <2>2 DEF HandleShutdownFinished, Receive, DaemonStops
    <3>2. Alone /\ SeatHeld
      BY <3>1 DEF OverlapInv
    <3>3. /\ daemon'.pc = "shutdownWait" /\ daemon'.old = session.pid
          /\ UNCHANGED <<trans, main>>
      BY <1>4 DEF HandleShutdownFinished, TypeOK
    <3>4. Alone'
      BY <3>1, <3>3 DEF Alone, InTransition, MainStops
    <3>5. ASSUME NEW p \in Pids, Alive(p)' PROVE Holds(p)'
      <4>1. Alive(p)
        BY <1>0, <1>4, <3>5, NobodyIsBorn DEF HandleShutdownFinished
      <4>2. p = session.pid
        BY <3>1, <3>2, <4>1 DEF SeatHeld, Holds, MainStops
      <4>. QED
        BY <3>1, <3>3, <4>2 DEF Holds, InTransition, DaemonStops
    <3>. QED BY <3>4, <3>5 DEF OverlapInv, SeatHeld
  <2>. QED BY <2>1, <2>2
<1>5. CASE ShutdownKill
  <2>1. /\ UNCHANGED <<session, daemon, trans, main, overlapped>>
        /\ \A p \in Pids : Alive(p)' => Alive(p)
    BY <1>5 DEF ShutdownKill, history, KillAfterTimeout, Alive, TypeOK
  <2>. QED BY <2>1, OverlapFrame DEF OverlapInv
<1>6. CASE ShutdownWaited \/ KernShutdown
  <2>1. /\ UNCHANGED <<session, trans, main, overlapped, proc>>
        /\ DaemonStops
    BY <1>6 DEF ShutdownWaited, KernShutdown, history, processes, DaemonStops
  <2>2. CASE overlapped
    BY <2>1, <2>2 DEF OverlapInv
  <2>3. CASE ~overlapped
    <3>1. Alone /\ SeatHeld
      BY <2>3 DEF OverlapInv
    <3>2. \A p \in Pids : ~Alive(p)'
      <4>. SUFFICES ASSUME NEW p \in Pids, Alive(p) PROVE FALSE
        BY <2>1 DEF Alive
      <4>1. Holds(p)
        BY <3>1 DEF SeatHeld
      <4>. QED
        BY <1>6, <4>1 DEF Holds, ShutdownWaited, KernShutdown, Gone, Alive
    <3>3. Alone'
      BY <2>1, <3>1 DEF Alone, InTransition, MainStops
    <3>. QED BY <3>2, <3>3 DEF OverlapInv, SeatHeld
  <2>. QED BY <2>2, <2>3
<1>. QED
  BY <1>1, <1>2, <1>3, <1>4, <1>5, <1>6 DEF DaemonStep

(* main() does the same at its end. *)
LEMMA OverlapMain ==
  ASSUME TypeOK, OverlapInv, MainStep
  PROVE  OverlapInv'
<1>0. session.pid \in Pids \cup {NoPid}
  BY DEF TypeOK, SessionRecords
<1>1. CASE SigTerm
  <2>1. /\ UNCHANGED <<session, trans, daemon, overlapped, proc>>
        /\ main.pc = "loop" /\ main'.pc = "stopping"
    BY <1>1 DEF SigTerm, processes, history, TypeOK
  <2>. QED
    BY <2>1 DEF OverlapInv, Alone, SeatHeld, Holds, DaemonStops, MainStops,
                InTransition, Alive
<1>2. CASE MainTakesSession
  <2>1. CASE overlapped'
    BY <2>1 DEF OverlapInv
  <2>2. CASE ~overlapped'
    <3>1. /\ ~overlapped /\ main.pc = "stopping" /\ daemon.pc = "idle"
          /\ \A t \in Threads : ~InTransition(t)
      BY <1>2, <2>2 DEF MainTakesSession
    <3>2. Alone /\ SeatHeld
      BY <3>1 DEF OverlapInv
    <3>3. /\ main'.pc = "wait" /\ main'.old = session.pid
          /\ UNCHANGED <<trans, daemon>>
      BY <1>2 DEF MainTakesSession
    <3>4. Alone'
      BY <3>1, <3>3 DEF Alone, InTransition, DaemonStops
    <3>5. ASSUME NEW p \in Pids, Alive(p)' PROVE Holds(p)'
      <4>1. Alive(p)
        BY <1>0, <1>2, <3>5, NobodyIsBorn DEF MainTakesSession
      <4>2. p = session.pid
        BY <3>1, <3>2, <4>1 DEF SeatHeld, Holds, MainStops, DaemonStops
      <4>. QED
        BY <3>1, <3>3, <4>2 DEF Holds, InTransition, MainStops
    <3>. QED BY <3>4, <3>5 DEF OverlapInv, SeatHeld
  <2>. QED BY <2>1, <2>2
<1>3. CASE MainKill
  <2>1. /\ UNCHANGED <<session, daemon, trans, main, overlapped>>
        /\ \A p \in Pids : Alive(p)' => Alive(p)
    BY <1>3 DEF MainKill, history, KillAfterTimeout, Alive, TypeOK
  <2>. QED BY <2>1, OverlapFrame DEF OverlapInv
<1>4. CASE MainExits
  <2>1. /\ UNCHANGED <<session, trans, daemon, overlapped, proc>>
        /\ main.pc = "wait" /\ main'.pc = "exited"
    BY <1>4 DEF MainExits, history, processes, TypeOK
  <2>2. CASE overlapped
    BY <2>1, <2>2 DEF OverlapInv
  <2>3. CASE ~overlapped
    <3>1. Alone /\ SeatHeld
      BY <2>3 DEF OverlapInv
    <3>2. \A p \in Pids : ~Alive(p)'
      <4>. SUFFICES ASSUME NEW p \in Pids, Alive(p) PROVE FALSE
        BY <2>1 DEF Alive
      <4>1. Holds(p)
        BY <3>1 DEF SeatHeld
      <4>. QED
        BY <1>4, <2>1, <4>1 DEF Holds, MainExits, Gone, Alive
    <3>3. Alone'
      BY <2>1, <3>1 DEF Alone, InTransition, MainStops, DaemonStops
    <3>. QED BY <3>2, <3>3 DEF OverlapInv, SeatHeld
  <2>. QED BY <2>2, <2>3
<1>. QED BY <1>1, <1>2, <1>3, <1>4 DEF MainStep

LEMMA OverlapNext == TypeOK /\ OverlapInv /\ [Next]_vars => OverlapInv'
<1>. SUFFICES ASSUME TypeOK, OverlapInv, [Next]_vars PROVE OverlapInv'
  OBVIOUS
<1>1. ASSUME NEW p \in Pids, SessionStep(p) PROVE OverlapInv'
  <2>1. /\ UNCHANGED <<session, daemon, trans, main, overlapped>>
        /\ UNCHANGED proc \/ ProcessEnds(p)
    BY <1>1 DEF SessionStep, SendHello, SendLogout, SendShutdownFinished, SendAuth,
         SendLoginOk, ProcessEnds, Send, history
  <2>2. \A q \in Pids : Alive(q)' => Alive(q)
    BY <2>1, NobodyIsBorn
  <2>. QED BY <2>1, <2>2, OverlapFrame DEF OverlapInv
<1>2. CASE PrepareForShutdown \/ UNCHANGED vars
  <2>1. UNCHANGED <<session, daemon, trans, main, overlapped, proc>>
    BY <1>2 DEF PrepareForShutdown, processes, history, vars
  <2>. QED BY <2>1, OverlapFrame DEF OverlapInv, Alive
<1>. QED
  BY <1>1, <1>2, OverlapDaemon, OverlapThread, OverlapMain DEF Next

(* Two janus_sessions are never alive at once, unless a session change     *)
(* began before the last one was finished.                                 *)
THEOREM OneSession == Spec => []OneSessionWithoutOverlap
<1>1. TypeOK /\ OverlapInv => OneSessionWithoutOverlap
  <2>. SUFFICES ASSUME TypeOK, Alone, SeatHeld, NEW p \in Pids, NEW q \in Pids,
                       Alive(p), Alive(q)
                PROVE  p = q
    BY DEF OverlapInv, OneSessionWithoutOverlap, OneSessionAlive
  <2>1. Holds(p) /\ Holds(q)
    BY DEF SeatHeld
  <2>2. CASE \E t \in Threads : InTransition(t)
    <3>1. PICK t \in Threads : InTransition(t)
      BY <2>2
    <3>2. trans[t].pc \in {"start", "wait", "fork", "publish"}
      BY <3>1 DEF InTransition, TypeOK, TransitionRecords
    <3>. QED BY <2>1, <3>2 DEF Holds
  <2>3. CASE \A t \in Threads : ~InTransition(t)
    BY <2>1, <2>3 DEF Holds, DaemonStops, MainStops
  <2>. QED BY <2>2, <2>3
<1>. QED
  BY TypeCorrect, OverlapInit, OverlapNext, <1>1, PTL DEF Spec

-----------------------------------------------------------------------------
(* janus implements LoginService. *)

LEMMA ConfiguredInit == Init => ConfiguredInv
<1>. SUFFICES ASSUME Init PROVE ConfiguredInv
  OBVIOUS
<1>1. Nothing # Configured
  BY ConstantsAssumption DEF Nothing, Configured
<1>2. auth.proof = Nothing /\ \A p \in Pids : proof[p] = Nothing
  BY DEF Init, NoAuth
<1>3. \A t, u \in Threads :
        trans[t].proof = Configured /\ trans[u].proof = Configured => u = t
  BY <1>1 DEF Init, NoTransition
<1>. QED
  BY <1>1, <1>2, <1>3 DEF ConfiguredInv

(* No step but a fork gives the configuration to anybody. *)
LEMMA ConfiguredFrame ==
  ASSUME ConfiguredInv, auth'.proof # Configured, UNCHANGED proof,
         \A t \in Threads : trans'[t].proof = Configured
                              => trans[t].proof = Configured
  PROVE  ConfiguredInv'
BY DEF ConfiguredInv

LEMMA ConfiguredSpawn ==
  ASSUME TypeOK, NEW u, NEW g, NEW f, f # Configured, Spawn(u, g, f)
  PROVE  \A t \in Threads : trans'[t].proof = Configured
                             => trans[t].proof = Configured
<1>1. Transition(u, g, f).proof = f
  BY DEF Transition, NoTransition
<1>2. overlapped' \in BOOLEAN
  BY DEF Spawn, TypeOK
<1>3. CASE \E t \in Threads : ~InTransition(t)
  <2>1. PICK t \in Threads : trans' = [trans EXCEPT ![t] = Transition(u, g, f)]
    BY <1>3 DEF Spawn
  <2>. QED
    BY <1>1, <1>2, <2>1 DEF TypeOK
<1>4. CASE ~\E t \in Threads : ~InTransition(t)
  BY <1>2, <1>4 DEF Spawn, TypeOK
<1>. QED
  BY <1>3, <1>4

LEMMA ConfiguredDaemon ==
  ASSUME TypeOK, ConfiguredInv, DaemonStep
  PROVE  ConfiguredInv'
<1>1. Nothing # Configured /\ auth.proof # Configured
  BY ConstantsAssumption DEF Nothing, Configured, ConfiguredInv
<1>2. CASE HandleLogoutDecide
  BY <1>1, <1>2, ConfiguredSpawn, ConfiguredFrame
     DEF HandleLogoutDecide
<1>3. CASE HandleAuthRequest
  <2>1. Len(passwords) \in Nat
    BY DEF TypeOK
  <2>2. auth'.proof # Configured
    BY <1>1, <1>3, <2>1, ConstantsAssumption
       DEF HandleAuthRequest, NoAuth, Configured
  <2>. QED
    BY <1>3, <2>2, ConfiguredFrame DEF HandleAuthRequest
<1>4. CASE HandleLoginOk
  <2>0. auth' = auth \/ auth' = NoAuth
    BY <1>4 DEF HandleLoginOk, ConsumeAuth
  <2>1. auth'.proof # Configured
    BY <1>1, <2>0 DEF NoAuth
  <2>2. \A t \in Threads : trans'[t].proof = Configured
                            => trans[t].proof = Configured
    BY <1>1, <1>4, ConfiguredSpawn DEF HandleLoginOk
  <2>. QED
    BY <1>4, <2>1, <2>2, ConfiguredFrame DEF HandleLoginOk
<1>5. CASE \/ HandleLogoutRead \/ HandleSessionHello
           \/ HandleShutdownFinished \/ ShutdownKill \/ ShutdownWaited
           \/ KernShutdown
  <2>1. UNCHANGED <<auth, trans, proof>>
    BY <1>5 DEF HandleLogoutRead, HandleSessionHello, HandleShutdownFinished,
                ShutdownKill, ShutdownWaited, KernShutdown, history
  <2>. QED
    BY <1>1, <2>1, ConfiguredFrame
<1>. QED
  BY <1>2, <1>3, <1>4, <1>5 DEF DaemonStep

LEMMA ConfiguredThread ==
  ASSUME TypeOK, ConfiguredInv, NEW t \in Threads, TransitionStep(t)
  PROVE  ConfiguredInv'
<1>a. UNCHANGED auth
  BY DEF TransitionStep, TransitionStart, TransitionKill, TransitionWaited,
         TransitionFork, TransitionForkFails, TransitionPublish
<1>0. /\ Nothing # Configured /\ auth'.proof # Configured
      /\ trans \in [Threads -> TransitionRecords]
      /\ trans[t] \in TransitionRecords
  BY <1>a, ConstantsAssumption DEF Nothing, Configured, ConfiguredInv, TypeOK
<1>1. CASE ~TransitionFork(t)
  <2>1. UNCHANGED proof
    BY <1>1 DEF TransitionStep, TransitionStart, TransitionKill,
                TransitionWaited, TransitionForkFails, TransitionPublish, history
  <2>2. \A x \in Threads : trans'[x].proof \in {trans[x].proof, Nothing}
    BY <1>0, <1>1
       DEF TransitionStep, TransitionStart, TransitionKill, TransitionWaited,
           TransitionForkFails, TransitionPublish, NoTransition,
           TransitionRecords
  <2>. QED
    BY <1>0, <2>1, <2>2, ConfiguredFrame
<1>2. CASE TransitionFork(t)
  <2>1. PICK p \in Pids :
          /\ proof' = [proof EXCEPT ![p] = trans[t].proof]
          /\ trans' = [trans EXCEPT ![t].pc = "publish", ![t].new = p,
                                    ![t].proof = Nothing]
    BY <1>2 DEF TransitionFork
  <2>2. /\ proof'[p] = trans[t].proof
        /\ \A q \in Pids : q # p => proof'[q] = proof[q]
    BY <2>1 DEF TypeOK
  <2>3. /\ trans'[t].proof = Nothing
        /\ \A x \in Threads : x # t => trans'[x] = trans[x]
    BY <1>0, <2>1 DEF TransitionRecords
  <2>. QED
    BY <1>0, <1>a, <2>2, <2>3 DEF ConfiguredInv
<1>. QED
  BY <1>1, <1>2

LEMMA ConfiguredNext == TypeOK /\ ConfiguredInv /\ [Next]_vars => ConfiguredInv'
<1>. SUFFICES ASSUME TypeOK, ConfiguredInv, [Next]_vars PROVE ConfiguredInv'
  OBVIOUS
<1>1. ASSUME NEW p \in Pids, SessionStep(p) PROVE ConfiguredInv'
  <2>1. UNCHANGED <<auth, trans, proof>>
    BY <1>1 DEF SessionStep, SendHello, SendLogout, SendShutdownFinished,
                SendAuth, SendLoginOk, ProcessEnds, Send, history
  <2>. QED
    BY <2>1 DEF ConfiguredInv
<1>2. CASE PrepareForShutdown \/ MainStep \/ UNCHANGED vars
  <2>1. UNCHANGED <<auth, trans, proof>>
    BY <1>2 DEF PrepareForShutdown, MainStep, SigTerm, MainTakesSession,
                MainKill, MainExits, history, vars
  <2>. QED
    BY <2>1 DEF ConfiguredInv
<1>. QED
  BY <1>1, <1>2, ConfiguredDaemon, ConfiguredThread DEF Next

(* What LoginService sees does not change, or two changes overlap. *)
LEMMA ServiceRests ==
  ASSUME UNCHANGED <<passwords, ident, proof>>, Stage' = Stage,
         overlapped' = overlapped \/ overlapped' = TRUE
  PROVE  [Service!Next]_(Service!vars)
BY DEF Service!Next, Service!Overlap, Service!vars

LEMMA StageRests ==
  ASSUME \/ UNCHANGED proc
         \/ \E p \in Pids \cup {NoPid} : proc' = Terminate(proc, p),
         TypeOK
  PROVE  Stage' = Stage
BY DEF Stage, Terminate, TypeOK

LEMMA ServiceSpawn ==
  ASSUME TypeOK, NEW u, NEW g, NEW f, Spawn(u, g, f)
  PROVE  overlapped' = overlapped \/ overlapped' = TRUE
BY DEF Spawn, TypeOK

(* A janus_session that is alive dies. *)
LEMMA ServiceCloses ==
  ASSUME TypeOK, NEW p \in Pids, Alive(p),
         proc' = [proc EXCEPT ![p] = "dead"],
         UNCHANGED <<passwords, ident, proof, overlapped>>
  PROVE  [Service!Next]_(Service!vars)
<1>1. Stage[p] = "open" /\ Stage' = [Stage EXCEPT ![p] = "closed"]
  BY DEF TypeOK, Alive, Stage
<1>2. Service!Close(p)
  BY <1>1 DEF Service!Close
<1>. QED
  BY <1>2 DEF Service!Next

(* A thread forks one: it is paid for, and nobody else is alive. *)
LEMMA ServiceOpens ==
  ASSUME TypeOK, CoherenceInv, PasswordInv, ConfiguredInv, OverlapInv,
         NEW t \in Threads, TransitionFork(t)
  PROVE  [Service!Next]_(Service!vars)
<1>. PICK p \in Pids :
       /\ proc[p] = "unborn"
       /\ proc' = [proc EXCEPT ![p] = "up"]
       /\ ident' = [ident EXCEPT ![p] = trans[t].user]
       /\ proof' = [proof EXCEPT ![p] = trans[t].proof]
  BY DEF TransitionFork
<1>. DEFINE u == trans[t].user
            f == trans[t].proof
<1>0. trans[t].pc = "fork" /\ UNCHANGED <<passwords, overlapped>>
  BY DEF TransitionFork
<1>1. Stage[p] = "none" /\ Stage' = [Stage EXCEPT ![p] = "open"]
  BY DEF TypeOK, Stage
<1>2. u \in Personas
  BY <1>0 DEF CoherenceInv, InTransition
<1>3. overlapped \/ \A q \in Pids : Stage[q] # "open"
  BY <1>0 DEF OverlapInv, SeatHeld, Holds, Stage, Alive, TypeOK
<1>4. /\ f \in DOMAIN passwords \cup {Nothing, Configured}
      /\ Service!Pays(f, u)
  <2>1. CASE f = Nothing
    <3>1. u \in {LiveUser, Greeter}
      BY <1>0, <1>2, <2>1 DEF PasswordInv, NeedsProof, Personas
    <3>. QED
      BY <2>1, <3>1 DEF Service!Pays
  <2>2. CASE f = Configured
    <3>1. \A q \in Pids : proof[q] # f
      BY <2>2 DEF ConfiguredInv
    <3>. QED
      BY <2>2, <3>1 DEF Service!Pays
  <2>3. CASE IsPassword(f)
    <3>1. f \in DOMAIN passwords /\ passwords[f] = u
      BY <2>3 DEF PasswordInv, Vouches
    <3>2. \A q \in Pids : proof[q] # f
      BY <2>3 DEF PasswordInv
    <3>. QED
      BY <3>1, <3>2 DEF Service!Pays
  <2>. QED
    BY <2>1, <2>2, <2>3 DEF IsPassword
<1>5. Service!Open(p)
  BY <1>0, <1>1, <1>2, <1>3, <1>4 DEF Service!Open, Personas
<1>. QED
  BY <1>5 DEF Service!Next

(* Every step is one of LoginService, or changes nothing it sees. *)
LEMMA ServiceNext ==
  TypeOK /\ CoherenceInv /\ PasswordInv /\ ConfiguredInv /\ OverlapInv
    /\ [Next]_vars => [Service!Next]_(Service!vars)
<1>. SUFFICES ASSUME TypeOK, CoherenceInv, PasswordInv, ConfiguredInv,
                     OverlapInv, [Next]_vars
              PROVE  [Service!Next]_(Service!vars)
  OBVIOUS
<1>. DEFINE Goal == [Service!Next]_(Service!vars)
            Rests == /\ UNCHANGED <<passwords, ident, proof>>
                     /\ \/ UNCHANGED proc
                        \/ \E p \in Pids \cup {NoPid} :
                             proc' = Terminate(proc, p)
                     /\ overlapped' = overlapped \/ overlapped' = TRUE
            Dies == /\ UNCHANGED <<passwords, ident, proof, overlapped>>
                    /\ \E p \in Pids : /\ Alive(p)
                                       /\ proc' = [proc EXCEPT ![p] = "dead"]
<1>0. session.pid \in Pids \cup {NoPid} /\ overlapped \in BOOLEAN
  BY DEF TypeOK, SessionRecords
<1>1. Rests => Goal
  BY ServiceRests, StageRests
<1>2. Dies => Goal
  BY ServiceCloses
<1>. SUFFICES Goal
  OBVIOUS
<1>. HIDE DEF Goal
<1>3. ASSUME NEW p \in Pids, SessionStep(p) PROVE Goal
  <2>1. Rests \/ Dies
    BY <1>3 DEF SessionStep, SendHello, SendLogout, SendShutdownFinished,
                SendAuth, SendLoginOk, ProcessEnds, Send, history, Alive
  <2>. QED
    BY <1>1, <1>2, <2>1
<1>4. CASE DaemonStep
  <2>1. CASE HandleLogoutDecide
    <3>1. Rests
      BY <2>1, ServiceSpawn DEF HandleLogoutDecide, processes
    <3>. QED
      BY <1>1, <3>1
  <2>2. CASE HandleLoginOk
    <3>1. Rests
      BY <2>2, ServiceSpawn DEF HandleLoginOk, processes
    <3>. QED
      BY <1>1, <3>1
  <2>3. CASE HandleAuthRequest
    <3>0. UNCHANGED <<proc, ident, proof, overlapped>>
      BY <2>3 DEF HandleAuthRequest, processes
    <3>1. CASE UNCHANGED passwords
      BY <1>1, <3>0, <3>1
    <3>2. CASE passwords' = Append(passwords, Head(port).user)
      <4>1. Head(port).user \in Users
        BY <2>3, ReceiveType DEF HandleAuthRequest, Messages
      <4>2. Stage' = Stage
        BY <3>0 DEF Stage
      <4>. QED
        BY <3>0, <3>2, <4>1, <4>2
           DEF Goal, Service!Next, Service!Check
    <3>. QED
      BY <2>3, <3>1, <3>2 DEF HandleAuthRequest
  <2>4. CASE HandleShutdownFinished
    <3>1. Rests
      BY <1>0, <2>4 DEF HandleShutdownFinished
    <3>. QED
      BY <1>1, <3>1
  <2>5. CASE ShutdownKill
    <3>1. Dies
      BY <2>5 DEF ShutdownKill, KillAfterTimeout, history
    <3>. QED
      BY <1>2, <3>1
  <2>6. CASE \/ HandleLogoutRead \/ HandleSessionHello \/ ShutdownWaited
             \/ KernShutdown
    <3>1. Rests
      BY <2>6 DEF HandleLogoutRead, HandleSessionHello, ShutdownWaited,
                  KernShutdown, processes, history
    <3>. QED
      BY <1>1, <3>1
  <2>. QED
    BY <1>4, <2>1, <2>2, <2>3, <2>4, <2>5, <2>6 DEF DaemonStep
<1>5. ASSUME NEW t \in Threads, TransitionStep(t) PROVE Goal
  <2>1. CASE TransitionFork(t)
    BY <2>1, ServiceOpens DEF Goal
  <2>2. CASE TransitionKill(t)
    <3>1. Dies
      BY <2>2 DEF TransitionKill, KillAfterTimeout, history
    <3>. QED
      BY <1>2, <3>1
  <2>3. CASE \/ TransitionStart(t) \/ TransitionWaited(t)
             \/ TransitionForkFails(t) \/ TransitionPublish(t)
    <3>1. Rests
      BY <1>0, <2>3 DEF TransitionStart, TransitionWaited,
                  TransitionForkFails, TransitionPublish, processes, history
    <3>. QED
      BY <1>1, <3>1
  <2>. QED
    BY <1>5, <2>1, <2>2, <2>3 DEF TransitionStep
<1>6. CASE MainStep
  <2>1. CASE MainKill
    <3>1. Dies
      BY <2>1 DEF MainKill, KillAfterTimeout, history
    <3>. QED
      BY <1>2, <3>1
  <2>2. CASE SigTerm \/ MainTakesSession \/ MainExits
    <3>1. Rests
      BY <1>0, <2>2 DEF SigTerm, MainTakesSession, MainExits, processes, history
    <3>. QED
      BY <1>1, <3>1
  <2>. QED
    BY <1>6, <2>1, <2>2 DEF MainStep
<1>7. CASE PrepareForShutdown \/ UNCHANGED vars
  <2>1. Rests
    BY <1>7 DEF PrepareForShutdown, processes, history, vars
  <2>. QED
    BY <1>1, <2>1
<1>. QED
  BY <1>3, <1>4, <1>5, <1>6, <1>7 DEF Next

(* janus keeps the promise of LoginService for every number of users,      *)
(* processes and transition threads, whatever crashes, hangs, failed       *)
(* forks, shutdowns and signals happen.                                    *)
THEOREM Refinement == Spec => IsLoginService
<1>1. Init => Service!Init
  BY DEF Init, Service!Init, Stage
<1>. QED
  BY TypeCorrect, CoherenceInit, CoherenceNext, PasswordInit, PasswordNext,
     ConfiguredInit, ConfiguredNext, OverlapInit, OverlapNext, ServiceNext,
     <1>1, PTL DEF Spec, IsLoginService, Service!Spec
=============================================================================
