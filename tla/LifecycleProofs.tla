-------------------------- MODULE LifecycleProofs --------------------------
(***************************************************************************)
(* Proofs about Lifecycle for any number of workspaces, starts and faults: *)
(* for any daemons and commands, the types, and that every mount is        *)
(* recorded by its daemon; for a daemon alone on its machine, that it is   *)
(* reachable while it waits and leaves nothing stale; with one command at  *)
(* a time, that its records are complete, that up --detach can be trusted, *)
(* and that an edit takes effect.                                          *)
(***************************************************************************)
EXTENDS Lifecycle, TLAPS

----------------------------------------------------------------------------
\* The operators that several actions share keep the types.

\* A pass leaves each workspace unmounted, mounted as it was, or mounted by p.
LEMMA PassKeepsType ==
    ASSUME MachineType, DaemonType, NEW p \in Daemons, NEW v \in SUBSET Names, Pass(p, v)
    PROVE  /\ mounts' \in [Names -> {"none", "stale"} \cup Daemons]
           /\ served' \in [Daemons -> SUBSET Names]
           /\ failed' \in [Daemons -> SUBSET Names]
  BY DEF MachineType, DaemonType, Pass

LEMMA ReleaseKeepsType ==
    ASSUME MachineType, DaemonType, NEW p \in Daemons, ReleaseEverything(p)
    PROVE  /\ mounts' \in [Names -> {"none", "stale"} \cup Daemons]
           /\ served' \in [Daemons -> SUBSET Names]
  BY DEF MachineType, DaemonType, ReleaseEverything

\* Breaking connections ends handlers and starts none.
LEMMA BreakKeepsType ==
    ASSUME ClientType, NEW cs, Break(cs)
    PROVE  /\ hpc' \in [Clients -> {"none", "sent", "load", "set", "pass", "reply", "stop"}]
           /\ cpc' \in [Clients -> {"idle", "edit", "dial", "send", "asking", "waiting",
                                    "sweeping"}]
           /\ result' \in [Clients -> {"none", "ok", "failed", "nodaemon", "broken"}]
           /\ \A c \in Clients : hpc'[c] # "none" => c \notin cs /\ hpc[c] # "none"
  BY DEF ClientType, Break

LEMMA CloseKeepsType ==
    ASSUME DaemonType, NEW p \in Daemons, CloseListener(p)
    PROVE  /\ sock' \in Daemons \cup {None}
           /\ listening' \subseteq Daemons /\ stopped' \subseteq Daemons
           /\ listening' = listening \ {p} /\ stopped' = stopped \cup {p}
           /\ parent' \in [Daemons -> ParentStates] /\ asked' = asked
           /\ \A q \in Daemons : parent'[q] # parent[q] =>
                parent'[q] = "failed" /\ asked[q] = p
  BY DEF DaemonType, ParentStates, CloseListener, Fail, Queued

\* The process of p is gone, with what it listened to and handled.
LEMMA ExitKeepsType ==
    ASSUME TypeOK, NEW p \in Daemons, Exit(p), faults' \in Nat,
           parent' \in [Daemons -> ParentStates], asked' = asked,
           \A q \in Asking(p) : parent'[q] = "failed",
           \A q \in Daemons : parent'[q] \in {"asking", "handled"} => parent'[q] = parent[q]
    PROVE  TypeOK'
  <1> USE DEF TypeOK
  <1>1. MachineType'
    BY DEF MachineType, Exit
  <1>2. DaemonType'
    BY DEF DaemonType, Exit, States
  <1>3. /\ ClientType'
        /\ \A c \in Clients : hpc'[c] # "none" => to[c] # p /\ hpc[c] # "none"
    BY BreakKeepsType DEF ClientType, Exit, Handled
  <1>4. ListenersRun' /\ StoppedRun'
    BY DEF DaemonType, Exit, ListenersRun, StoppedRun
  <1>5. HandledRun'
    <2>1. \A q \in Daemons : parent'[q] \in {"asking", "handled"} =>
              asked[q] # p /\ parent[q] \in {"asking", "handled"}
      BY DEF Asking
    <2> QED BY <1>3, <2>1 DEF DaemonType, Exit, HandledRun
  <1> QED BY <1>1, <1>2, <1>3, <1>4, <1>5

LEMMA TypeInit == Init => TypeOK
  BY BoundAssumption
  DEF Init, TypeOK, MachineType, DaemonType, ClientType, ListenersRun, StoppedRun, HandledRun,
      States, ParentStates

\* Every step of the main goroutine of a daemon keeps the types.
LEMMA MainKeepsType ==
    ASSUME TypeOK, NEW p \in Daemons,
           \/ \E d \in Detaching : Up(p, d)
           \/ MainStep(p)
           \/ AcceptFails(p) \/ Signal(p) \/ Kill(p)
           \/ ParentDeadline(p) \/ ParentStep(p)
    PROVE  TypeOK'
  <1> USE DEF TypeOK, machine, clientVars, parentVars, At, Goto
  <1> USE DEF MachineType, DaemonType, ClientType, ListenersRun, StoppedRun, HandledRun
  <1> USE DEF States, PastBind
  <1>1. ASSUME NEW d \in Detaching, Up(p, d) PROVE TypeOK'
    BY <1>1, BoundAssumption DEF Up, ParentStates
  <1>2. CASE CheckRunning(p)
    BY <1>2 DEF CheckRunning
  <1>3. CASE LoadConfig(p)
    BY <1>3 DEF LoadConfig
  <1>4. CASE FirstPass(p)
    <2>1. /\ mounts' \in [Names -> {"none", "stale"} \cup Daemons]
          /\ served' \in [Daemons -> SUBSET Names]
          /\ failed' \in [Daemons -> SUBSET Names]
      BY <1>4, PassKeepsType DEF FirstPass
    <2> QED BY <1>4, <2>1 DEF FirstPass
  <1>5. CASE RemoveSocket(p)
    BY <1>5 DEF RemoveSocket
  <1>6. CASE Bind(p)
    BY <1>6 DEF Bind
  <1>7. CASE BindFails(p) \/ Release(p)
    <2>1. /\ mounts' \in [Names -> {"none", "stale"} \cup Daemons]
          /\ served' \in [Daemons -> SUBSET Names]
      BY <1>7, ReleaseKeepsType DEF BindFails, Release
    <2>2. p \notin listening
      BY <1>7 DEF BindFails, Release
    <2>3. /\ pc' = [pc EXCEPT ![p] = "released"]
          /\ UNCHANGED <<file, parentVars, config, failed, stopped, listening, sock, clientVars,
                         starts, faults>>
      BY <1>7 DEF BindFails, Release
    <2> QED BY <2>1, <2>2, <2>3
  <1>8. CASE GiveUp(p) \/ Signal(p)
    <2>1. Break(Unaccepted(p)) /\ CloseListener(p)
      BY <1>8 DEF GiveUp, Signal
    <2>2. /\ sock' \in Daemons \cup {None}
          /\ listening' = listening \ {p} /\ stopped' = stopped \cup {p}
          /\ parent' \in [Daemons -> ParentStates] /\ asked' = asked
          /\ \A q \in Daemons : parent'[q] # parent[q] =>
                parent'[q] = "failed" /\ asked[q] = p
      BY <2>1, CloseKeepsType
    <2>3. /\ hpc' \in [Clients -> {"none", "sent", "load", "set", "pass", "reply", "stop"}]
          /\ cpc' \in [Clients -> {"idle", "edit", "dial", "send", "asking", "waiting",
                                   "sweeping"}]
          /\ result' \in [Clients -> {"none", "ok", "failed", "nodaemon", "broken"}]
          /\ \A c \in Clients : hpc'[c] # "none" => hpc[c] # "none"
      BY <2>1, BreakKeepsType
    <2> QED BY <1>8, <2>2, <2>3 DEF GiveUp, Signal
  <1>9. CASE Wait(p)
    BY <1>9 DEF Wait
  <1>10. CASE AcceptFails(p)
    BY <1>10 DEF AcceptFails
  <1>11. CASE Return(p) \/ Kill(p) \/ ParentDeadline(p)
    <2>1. Exit(p) /\ faults' \in Nat
      BY <1>11 DEF Return, Kill, ParentDeadline
    <2>2. PICK ds : Fail(ds) /\ Asking(p) \subseteq ds
      BY <1>11 DEF Return, Kill, ParentDeadline
    <2>3. /\ parent' \in [Daemons -> ParentStates] /\ asked' = asked
          /\ \A q \in Asking(p) : parent'[q] = "failed"
          /\ \A q \in Daemons : parent'[q] \in {"asking", "handled"} => parent'[q] = parent[q]
      BY <2>2 DEF Fail, Asking, ParentStates
    <2> QED BY <2>1, <2>3, ExitKeepsType
  <1>12. CASE ParentStep(p)
    <2>1. UNCHANGED <<machine, pc, config, served, failed, stopped, listening, clientVars, sock,
                      starts, faults>>
      BY <1>12 DEF ParentStep, ParentSees, ParentLoses, ParentDials, ParentAsks, ParentHandled,
                   ParentAnswered, ParentGoes
    <2>2. DaemonType'
      BY <1>12, <2>1 DEF ParentStates, ParentStep, ParentSees, ParentLoses, ParentDials,
         ParentAsks, ParentHandled, ParentAnswered, ParentGoes
    <2>3. \A q \in Daemons : parent'[q] \in {"asking", "handled"} =>
            asked'[q] \in Daemons /\ pc[asked'[q]] \in PastBind
      BY <1>12 DEF Running, ParentStep, ParentSees, ParentLoses, ParentDials,
         ParentAsks, ParentHandled, ParentAnswered, ParentGoes
    <2> QED BY <2>1, <2>2, <2>3
  <1> QED BY <1>1, <1>2, <1>3, <1>4, <1>5, <1>6, <1>7, <1>8, <1>9, <1>10, <1>11, <1>12
          DEF MainStep

\* Every step of a command and of the handler of its request keeps the types.
LEMMA ClientKeepsType ==
    ASSUME TypeOK, NEW c \in Clients,
           (\E k \in Commands : Run(c, k)) \/ CommandStep(c) \/ HandlerStep(c)
    PROVE  TypeOK'
  <1> USE DEF TypeOK, machine, daemonVars, parentVars, Moves, Handles, Ends
  <1> USE DEF MachineType, DaemonType, ClientType, ListenersRun, StoppedRun, HandledRun
  <1> USE DEF States, PastBind
  <1>1. ASSUME NEW k \in Commands, Run(c, k) PROVE TypeOK'
    BY <1>1 DEF Run
  <1>2. CASE Write(c)
    <2>1. cmd[c].name \in Names
      BY CommandAssumption
    <2>2. file' \subseteq Names
      BY <1>2, <2>1 DEF Write, Apply
    <2> QED BY <1>2, <2>2 DEF Write
  <1>3. CASE Dial(c)
    BY <1>3 DEF Dial
  <1>4. CASE Send(c)
    BY <1>4, NoneAssumption DEF Send, Running
  <1>5. CASE WaitForRelease(c)
    BY <1>5 DEF WaitForRelease
  <1>6. CASE UnmountAll(c)
    BY <1>6 DEF UnmountAll
  <1>7. CASE Accept(c)
    BY <1>7 DEF Accept
  <1>8. CASE HandlerLoad(c)
    BY <1>8 DEF HandlerLoad
  <1>9. CASE HandlerSet(c)
    BY <1>9 DEF HandlerSet
  <1>10. CASE HandlerPass(c)
    <2>1. to[c] \in Daemons /\ got[c] \in SUBSET Names /\ Pass(to[c], got[c])
      BY <1>10 DEF HandlerPass
    <2>2. /\ mounts' \in [Names -> {"none", "stale"} \cup Daemons]
          /\ served' \in [Daemons -> SUBSET Names]
          /\ failed' \in [Daemons -> SUBSET Names]
      BY <2>1, PassKeepsType
    <2> QED BY <1>10, <2>1, <2>2 DEF HandlerPass
  <1>11. CASE HandlerReply(c)
    BY <1>11 DEF HandlerReply
  <1>12. CASE HandlerStop(c)
    <2>1. to[c] \in Daemons /\ CloseListener(to[c])
      BY <1>12 DEF HandlerStop
    <2>2. /\ sock' \in Daemons \cup {None}
          /\ listening' = listening \ {to[c]} /\ stopped' = stopped \cup {to[c]}
          /\ parent' \in [Daemons -> ParentStates] /\ asked' = asked
          /\ \A q \in Daemons : parent'[q] # parent[q] =>
                parent'[q] = "failed" /\ asked[q] = to[c]
      BY <2>1, CloseKeepsType
    <2>3. ClientType' /\ \A e \in Clients : hpc'[e] # "none" => hpc[e] # "none"
      BY <1>12 DEF HandlerStop
    <2>4. pc[to[c]] \in PastBind
      BY <1>12 DEF HandlerStop
    <2> QED BY <1>12, <2>1, <2>2, <2>3, <2>4 DEF HandlerStop
  <1> QED BY <1>1, <1>2, <1>3, <1>4, <1>5, <1>6, <1>7, <1>8, <1>9, <1>10, <1>11, <1>12
          DEF CommandStep, HandlerStep

\* Types, and: a daemon listens from its bind until it is told to stop, and no
\* handler outlives the process it runs in.
THEOREM LifecycleTypeCorrect == Spec => []TypeOK
  <1>1. TypeOK /\ [Next]_vars => TypeOK'
    <2> SUFFICES ASSUME TypeOK, [Next]_vars PROVE TypeOK'
      OBVIOUS
    <2>1. CASE Next
      BY <2>1, MainKeepsType, ClientKeepsType DEF Next
    <2>2. CASE UNCHANGED vars
      BY <2>2 DEF vars, machine, daemonVars, parentVars, clientVars, TypeOK, MachineType, DaemonType,
                  ClientType, ListenersRun, StoppedRun, HandledRun
    <2> QED BY <2>1, <2>2
  <1> QED BY TypeInit, <1>1, PTL DEF Spec

----------------------------------------------------------------------------
\* Every mount is on its daemon's records.  A daemon unmounts by path and may
\* take another's mount away, but whatever it leaves mounted is not its own, or
\* stays on record: nothing else about the other daemons is needed.

LEMMA PassRecords ==
    ASSUME TypeOK, MountsAreRecorded, NEW p \in Daemons, NEW v \in SUBSET Names, Pass(p, v)
    PROVE  MountsAreRecorded'
  <1> SUFFICES ASSUME NEW q \in Daemons, NEW n \in Names, mounts'[n] = q
               PROVE  n \in served'[q]
    BY DEF MountsAreRecorded
  <1> DEFINE kept == {m \in v \cap served[p] : mounts[m] \in Daemons}
  <1>1. PICK bad \in SUBSET ((v \ kept) \cap Flaky) :
             /\ mounts' = [m \in Names |-> IF m \in kept THEN mounts[m]
                                           ELSE IF m \in v \ bad THEN p ELSE "none"]
             /\ served' = [served EXCEPT ![p] = v \ bad]
    BY DEF Pass
  <1>2. CASE n \in kept
    BY <1>1, <1>2 DEF TypeOK, DaemonType, MountsAreRecorded
  <1>3. CASE n \notin kept
    <2>1. n \in v \ bad /\ q = p
      BY <1>1, <1>3, MountAssumption
    <2> QED BY <1>1, <2>1 DEF TypeOK, DaemonType
  <1> QED BY <1>2, <1>3

LEMMA ReleaseRecords ==
    ASSUME TypeOK, MountsAreRecorded, NEW p \in Daemons, ReleaseEverything(p)
    PROVE  MountsAreRecorded'
  BY MountAssumption
  DEF TypeOK, DaemonType, MountsAreRecorded, ReleaseEverything

LEMMA ExitRecords ==
    ASSUME TypeOK, MountsAreRecorded, NEW p \in Daemons, Exit(p)
    PROVE  MountsAreRecorded'
  BY MountAssumption
  DEF TypeOK, DaemonType, MountsAreRecorded, Exit

\* Whatever daemons and requests do in between, what a daemon has mounted it has
\* recorded, so that a stop or a failure to bind releases all of it.
THEOREM EveryMountRecorded == Spec => []MountsAreRecorded
  <1>1. Init => MountsAreRecorded
    BY MountAssumption DEF Init, MountsAreRecorded
  <1>2. TypeOK /\ MountsAreRecorded /\ [Next]_vars => MountsAreRecorded'
    <2> SUFFICES ASSUME TypeOK, MountsAreRecorded, [Next]_vars PROVE MountsAreRecorded'
      OBVIOUS
    <2>1. ASSUME NEW p \in Daemons, FirstPass(p) PROVE MountsAreRecorded'
      <3>1. config[p] \in SUBSET Names
        BY DEF TypeOK, DaemonType
      <3> QED BY <2>1, <3>1, PassRecords DEF FirstPass
    <2>2. ASSUME NEW c \in Clients, HandlerPass(c) PROVE MountsAreRecorded'
      <3>1. to[c] \in Daemons /\ got[c] \in SUBSET Names
        BY <2>2 DEF TypeOK, HandledRun, ClientType, HandlerPass
      <3> QED BY <2>2, <3>1, PassRecords DEF HandlerPass
    <2>3. ASSUME NEW p \in Daemons, BindFails(p) \/ Release(p) PROVE MountsAreRecorded'
      BY <2>3, ReleaseRecords DEF BindFails, Release
    <2>4. ASSUME NEW p \in Daemons, Return(p) \/ Kill(p) \/ ParentDeadline(p)
          PROVE  MountsAreRecorded'
      BY <2>4, ExitRecords DEF Return, Kill, ParentDeadline
    <2>5. ASSUME NEW c \in Clients, UnmountAll(c) PROVE MountsAreRecorded'
      BY <2>5, MountAssumption DEF UnmountAll, MountsAreRecorded, daemonVars
    <2>6. CASE UNCHANGED <<mounts, served>>
      BY <2>6 DEF MountsAreRecorded
    <2>7. ASSUME NEW p \in Daemons,
                 \/ \E d \in Detaching : Up(p, d)
                 \/ CheckRunning(p) \/ LoadConfig(p) \/ RemoveSocket(p) \/ Bind(p)
                 \/ GiveUp(p) \/ Wait(p) \/ AcceptFails(p) \/ Signal(p)
                 \/ ParentStep(p)
          PROVE  UNCHANGED <<mounts, served>>
      BY <2>7 DEF Up, CheckRunning, LoadConfig, RemoveSocket, Bind, GiveUp, Wait, AcceptFails,
                  Signal, ParentStep, ParentSees, ParentLoses, ParentDials, ParentAsks,
                  ParentHandled, ParentAnswered, ParentGoes, machine
    <2>8. ASSUME NEW c \in Clients,
                 \/ \E k \in Commands : Run(c, k)
                 \/ Write(c) \/ Dial(c) \/ Send(c) \/ WaitForRelease(c)
                 \/ Accept(c) \/ HandlerLoad(c) \/ HandlerSet(c) \/ HandlerReply(c)
                 \/ HandlerStop(c)
          PROVE  UNCHANGED <<mounts, served>>
      BY <2>8 DEF Run, Write, Dial, Send, WaitForRelease, Accept, HandlerLoad, HandlerSet,
                  HandlerReply, HandlerStop, machine, daemonVars
    <2>9. CASE UNCHANGED vars
      BY <2>6, <2>9 DEF vars, machine, daemonVars
    <2> QED BY <2>1, <2>2, <2>3, <2>4, <2>5, <2>6, <2>7, <2>8, <2>9
            DEF Next, MainStep, CommandStep, HandlerStep
  <1> QED BY LifecycleTypeCorrect, <1>1, <1>2, PTL DEF Spec

----------------------------------------------------------------------------
\* One daemon on its machine is reachable.  The run LifecycleRace shows how a
\* second one takes the socket away.

Alone == \A p, q \in Daemons : p = q

\* From its bind to the moment it is told to stop, the socket leads to it.
Reachable ==
    \A p \in Daemons : pc[p] \in {"started", "waiting"} /\ p \notin stopped =>
        sock = p /\ p \in listening

\* Where no other daemon is ever started, one that waits for requests and was
\* not told to stop is the one that commands reach.
THEOREM AloneIsReachable ==
    ASSUME Alone
    PROVE  Spec => []WaitingIsReachable
  <1>1. Init => Reachable
    BY DEF Init, Reachable
  <1>2. TypeOK /\ Reachable /\ [Next]_vars => Reachable'
    <2> SUFFICES ASSUME TypeOK, Reachable, [Next]_vars PROVE Reachable'
      OBVIOUS
    <2> USE DEF TypeOK, DaemonType, Reachable, At, Goto
    <2>1. ASSUME NEW p \in Daemons,
                 \/ \E d \in Detaching : Up(p, d)
                 \/ CheckRunning(p) \/ LoadConfig(p) \/ FirstPass(p) \/ RemoveSocket(p)
                 \/ BindFails(p) \/ Release(p) \/ AcceptFails(p)
          PROVE  Reachable'
      BY <2>1 DEF Alone, Up, CheckRunning, LoadConfig, FirstPass, RemoveSocket, BindFails,
                  Release, AcceptFails
    <2>2. ASSUME NEW p \in Daemons, Bind(p) \/ Wait(p) PROVE Reachable'
      BY <2>2 DEF Alone, Bind, Wait
    <2>3. ASSUME NEW p \in Daemons, GiveUp(p) \/ Signal(p) PROVE Reachable'
      BY <2>3 DEF Alone, GiveUp, Signal, CloseListener
    <2>4. ASSUME NEW p \in Daemons, Return(p) \/ Kill(p) \/ ParentDeadline(p)
          PROVE  Reachable'
      BY <2>4 DEF Alone, Return, Kill, ParentDeadline, Exit
    <2>5. ASSUME NEW c \in Clients, HandlerStop(c) PROVE Reachable'
      <3>1. to[c] \in Daemons
        BY <2>5 DEF HandledRun, HandlerStop
      <3> QED BY <2>5, <3>1 DEF Alone, HandlerStop, CloseListener
    <2>6. CASE UNCHANGED <<pc, stopped, sock, listening>>
      BY <2>6
    <2>7. ASSUME NEW c \in Clients,
                 \/ \E k \in Commands : Run(c, k)
                 \/ CommandStep(c)
                 \/ Accept(c) \/ HandlerLoad(c) \/ HandlerSet(c) \/ HandlerPass(c)
                 \/ HandlerReply(c)
          PROVE  UNCHANGED <<pc, stopped, sock, listening>>
      BY <2>7 DEF Run, CommandStep, Write, Dial, Send, WaitForRelease, UnmountAll, Accept,
                  HandlerLoad, HandlerSet, HandlerPass, HandlerReply, daemonVars
    <2>8. ASSUME NEW p \in Daemons, ParentStep(p)
          PROVE  UNCHANGED <<pc, stopped, sock, listening>>
      BY <2>8 DEF ParentStep, ParentSees, ParentLoses, ParentDials, ParentAsks, ParentHandled,
                  ParentAnswered, ParentGoes
    <2>9. CASE UNCHANGED vars
      BY <2>6, <2>9 DEF vars, daemonVars
    <2> QED BY <2>1, <2>2, <2>3, <2>4, <2>5, <2>6, <2>7, <2>8, <2>9
            DEF Next, MainStep, HandlerStep
  <1>3. Reachable => WaitingIsReachable
    BY DEF Reachable, WaitingIsReachable
  <1> QED BY LifecycleTypeCorrect, <1>1, <1>2, <1>3, PTL DEF Spec

----------------------------------------------------------------------------
\* One daemon leaves nothing stale behind its first pass.

\* Whatever a pass keeps is live, and the rest it mounts or unmounts.
LEMMA PassCleans ==
    ASSUME MachineType, NEW p \in Daemons, NEW v \in SUBSET Names, Pass(p, v)
    PROVE  \A n \in Names : mounts'[n] # "stale"
  BY MountAssumption DEF MachineType, Pass

\* Where no other daemon runs, mounts left stale by a daemon that died are gone
\* once the next one has made its first pass, and none appears while it lives.
THEOREM AloneCleans ==
    ASSUME Alone
    PROVE  Spec => []StaleIsReleased
  <1>1. Init => StaleIsReleased
    BY DEF Init, StaleIsReleased
  <1>2. TypeOK /\ StaleIsReleased /\ [Next]_vars => StaleIsReleased'
    <2> SUFFICES ASSUME TypeOK, StaleIsReleased, [Next]_vars PROVE StaleIsReleased'
      OBVIOUS
    <2> USE DEF TypeOK, MachineType, DaemonType, StaleIsReleased, At, Goto
    <2>1. ASSUME NEW p \in Daemons, FirstPass(p) PROVE StaleIsReleased'
      <3>1. config[p] \in SUBSET Names /\ Pass(p, config[p])
        BY <2>1 DEF FirstPass
      <3> QED BY <3>1, PassCleans
    <2>2. ASSUME NEW c \in Clients, HandlerPass(c) PROVE StaleIsReleased'
      <3>1. to[c] \in Daemons /\ got[c] \in SUBSET Names /\ Pass(to[c], got[c])
        BY <2>2 DEF HandledRun, ClientType, HandlerPass
      <3> QED BY <3>1, PassCleans
    <2>3. ASSUME NEW p \in Daemons, BindFails(p) \/ Release(p) PROVE StaleIsReleased'
      BY <2>3 DEF BindFails, Release, ReleaseEverything
    <2>4. ASSUME NEW p \in Daemons, Return(p) \/ Kill(p) \/ ParentDeadline(p)
          PROVE  StaleIsReleased'
      BY <2>4 DEF Alone, Return, Kill, ParentDeadline, Exit
    <2>5. ASSUME NEW c \in Clients, UnmountAll(c) PROVE StaleIsReleased'
      BY <2>5 DEF UnmountAll
    <2>6. ASSUME NEW p \in Daemons,
                 \/ \E d \in Detaching : Up(p, d)
                 \/ CheckRunning(p) \/ LoadConfig(p) \/ RemoveSocket(p) \/ Bind(p)
                 \/ GiveUp(p) \/ Wait(p) \/ AcceptFails(p) \/ Signal(p)
                 \/ ParentStep(p)
          PROVE  StaleIsReleased'
      BY <2>6 DEF Up, CheckRunning, LoadConfig, RemoveSocket, Bind, GiveUp, Wait, AcceptFails,
                  Signal, ParentStep, ParentSees, ParentLoses, ParentDials, ParentAsks,
                  ParentHandled, ParentAnswered, ParentGoes, machine
    <2>7. CASE UNCHANGED <<pc, mounts>>
      BY <2>7
    <2>8. ASSUME NEW c \in Clients,
                 \/ \E k \in Commands : Run(c, k)
                 \/ Write(c) \/ Dial(c) \/ Send(c) \/ WaitForRelease(c)
                 \/ Accept(c) \/ HandlerLoad(c) \/ HandlerSet(c) \/ HandlerReply(c)
                 \/ HandlerStop(c)
          PROVE  UNCHANGED <<pc, mounts>>
      BY <2>8 DEF Run, Write, Dial, Send, WaitForRelease, Accept, HandlerLoad, HandlerSet,
                  HandlerReply, HandlerStop, machine, daemonVars
    <2>9. CASE UNCHANGED vars
      BY <2>7, <2>9 DEF vars, machine, daemonVars
    <2> QED BY <2>1, <2>2, <2>3, <2>4, <2>5, <2>6, <2>7, <2>8, <2>9
            DEF Next, MainStep, CommandStep, HandlerStep
  <1> QED BY LifecycleTypeCorrect, <1>1, <1>2, PTL DEF Spec

----------------------------------------------------------------------------
\* With one command at a time, what a daemon records accounts for what it read.

\* Who is being answered waits for it.
Asks == \A c \in Clients :
    hpc[c] \in {"sent", "load", "set", "pass", "reply"} => cpc[c] = "asking"

LEMMA AskersWait == Spec => []Asks
  <1>1. Init => Asks
    BY DEF Init, Asks
  <1>2. TypeOK /\ Asks /\ [Next]_vars => Asks'
    <2> SUFFICES ASSUME TypeOK, Asks, [Next]_vars PROVE Asks'
      OBVIOUS
    <2> USE DEF TypeOK, ClientType, Asks
    <2>1. ASSUME NEW cs, Break(cs) PROVE Asks'
      BY <2>1 DEF Break
    <2>2. ASSUME NEW p \in Daemons,
                 GiveUp(p) \/ Signal(p) \/ Return(p) \/ Kill(p) \/ ParentDeadline(p)
          PROVE  Asks'
      BY <2>2, <2>1 DEF GiveUp, Signal, Return, Kill, ParentDeadline, Exit
    <2>3. CASE UNCHANGED <<hpc, cpc>>
      BY <2>3
    <2>4. ASSUME NEW p \in Daemons,
                 \/ \E d \in Detaching : Up(p, d)
                 \/ CheckRunning(p) \/ LoadConfig(p) \/ FirstPass(p) \/ RemoveSocket(p)
                 \/ Bind(p) \/ BindFails(p) \/ Wait(p) \/ Release(p) \/ AcceptFails(p)
                 \/ ParentStep(p)
          PROVE  UNCHANGED <<hpc, cpc>>
      BY <2>4 DEF Up, CheckRunning, LoadConfig, FirstPass, RemoveSocket, Bind, BindFails, Wait,
                  Release, AcceptFails, ParentStep, ParentSees, ParentLoses, ParentDials,
                  ParentAsks, ParentHandled, ParentAnswered, ParentGoes, clientVars
    <2>5. ASSUME NEW c \in Clients, (\E k \in Commands : Run(c, k)) \/ CommandStep(c)
          PROVE  Asks'
      BY <2>5 DEF Run, CommandStep, Write, Dial, Send, WaitForRelease, UnmountAll, Moves,
                  Handles, Ends
    <2>6. ASSUME NEW c \in Clients, HandlerStep(c) PROVE Asks'
      BY <2>6 DEF HandlerStep, Accept, HandlerLoad, HandlerSet, HandlerPass, HandlerReply,
                  HandlerStop, Moves, Handles
    <2>7. CASE UNCHANGED vars
      BY <2>3, <2>7 DEF vars, clientVars
    <2> QED BY <2>2, <2>3, <2>4, <2>5, <2>6, <2>7 DEF Next, MainStep
  <1> QED BY LifecycleTypeCorrect, <1>1, <1>2, PTL DEF Spec

OneClient == \A c, e \in Clients : c = e

\* From its first pass to its release, unless a handler has stored a
\* configuration that it has not reconciled; and what it reconciles then is the
\* configuration stored.
PastPass == {"remove", "bind", "started", "waiting", "quitting"}
Records ==
    /\ \A p \in Daemons : pc[p] \in PastPass /\ ~Reconciling(p) => Accounted(p)
    /\ \A c \in Clients : hpc[c] = "pass" => got[c] = config[to[c]]

\* A pass records of each workspace that it is served or that it failed, and
\* touches the records of no other daemon.
LEMMA PassAccounts ==
    ASSUME DaemonType, NEW p \in Daemons, NEW v \in SUBSET Names, Pass(p, v)
    PROVE  /\ served'[p] \cup failed'[p] = v /\ served'[p] \cap failed'[p] = {}
           /\ \A q \in Daemons \ {p} : served'[q] = served[q] /\ failed'[q] = failed[q]
  BY DEF DaemonType, Pass

\* Steps that touch neither the records nor a handler about to reconcile.
LEMMA RecordsFrame ==
    ASSUME Records, UNCHANGED <<config, served, failed>>,
           \A p \in Daemons : pc'[p] \in PastPass => pc[p] \in PastPass,
           \A c \in Clients : hpc'[c] = "pass" <=> hpc[c] = "pass",
           \A c \in Clients : hpc[c] = "pass" => to'[c] = to[c] /\ got'[c] = got[c]
    PROVE  Records'
  BY DEF Records, Reconciling, Accounted

\* What the main goroutine of a daemon does to the records.
LEMMA MainRecords ==
    ASSUME TypeOK, Records, NEW p \in Daemons,
           \/ \E d \in Detaching : Up(p, d)
           \/ MainStep(p)
           \/ AcceptFails(p) \/ Signal(p) \/ Kill(p)
           \/ ParentDeadline(p) \/ ParentStep(p)
    PROVE  Records'
  <1> USE DEF TypeOK, At, Goto, clientVars
  <1>1. CASE \/ \E d \in Detaching : Up(p, d)
             \/ CheckRunning(p) \/ RemoveSocket(p) \/ Bind(p) \/ Wait(p) \/ AcceptFails(p)
             \/ ParentStep(p)
    <2>1. UNCHANGED <<config, served, failed, hpc, to, got>>
      BY <1>1 DEF Up, CheckRunning, RemoveSocket, Bind, Wait, AcceptFails, ParentStep,
                  ParentSees, ParentLoses, ParentDials, ParentAsks, ParentHandled,
                  ParentAnswered, ParentGoes
    <2>2. \A q \in Daemons : pc'[q] \in PastPass => pc[q] \in PastPass
      BY <1>1 DEF Up, CheckRunning, RemoveSocket, Bind, Wait, AcceptFails, ParentStep,
                  ParentSees, ParentLoses, ParentDials, ParentAsks, ParentHandled,
                  ParentAnswered, ParentGoes, PastPass, DaemonType
    <2> QED BY <2>1, <2>2, RecordsFrame
  <1>2. CASE GiveUp(p) \/ Signal(p)
    <2>1. UNCHANGED <<config, served, failed, to, got>>
      BY <1>2 DEF GiveUp, Signal
    <2>2. \A q \in Daemons : pc'[q] \in PastPass => pc[q] \in PastPass
      BY <1>2 DEF GiveUp, Signal, PastPass, DaemonType
    <2>3. \A c \in Clients : hpc'[c] = "pass" <=> hpc[c] = "pass"
      BY <1>2 DEF GiveUp, Signal, Break, Unaccepted
    <2> QED BY <2>1, <2>2, <2>3, RecordsFrame
  <1>3. CASE LoadConfig(p)
    <2>1. \A c \in Clients : hpc[c] = "pass" => to[c] # p
      BY <1>3 DEF LoadConfig, HandledRun, PastBind
    <2> QED BY <1>3, <2>1 DEF LoadConfig, DaemonType, Records, Reconciling, Accounted, PastPass
  <1>4. CASE FirstPass(p)
    <2>1. config[p] \in SUBSET Names /\ Pass(p, config[p])
      BY <1>4 DEF FirstPass, DaemonType
    <2>2. /\ served'[p] \cup failed'[p] = config[p] /\ served'[p] \cap failed'[p] = {}
          /\ \A q \in Daemons \ {p} : served'[q] = served[q] /\ failed'[q] = failed[q]
      BY <2>1, PassAccounts
    <2> QED BY <1>4, <2>2 DEF FirstPass, DaemonType, Records, Reconciling, Accounted
  <1>5. CASE BindFails(p) \/ Release(p)
    <2>1. /\ pc'[p] = "released"
          /\ \A q \in Daemons \ {p} : pc'[q] = pc[q] /\ served'[q] = served[q]
      BY <1>5 DEF BindFails, Release, ReleaseEverything, DaemonType
    <2>2. UNCHANGED <<config, failed, hpc, to, got>>
      BY <1>5 DEF BindFails, Release
    <2> QED BY <2>1, <2>2 DEF Records, Reconciling, Accounted, PastPass
  <1>6. CASE Return(p) \/ Kill(p) \/ ParentDeadline(p)
    <2>1. Exit(p)
      BY <1>6 DEF Return, Kill, ParentDeadline
    <2>2. /\ pc'[p] = "off" /\ UNCHANGED <<to, got>>
          /\ \A q \in Daemons \ {p} : /\ pc'[q] = pc[q] /\ config'[q] = config[q]
                                      /\ served'[q] = served[q] /\ failed'[q] = failed[q]
      BY <2>1 DEF Exit, DaemonType
    <2>3. \A c \in Clients : hpc'[c] = "pass" <=> hpc[c] = "pass" /\ to[c] # p
      BY <2>1 DEF Exit, Break, Handled
    <2>4. \A c \in Clients : hpc[c] = "pass" => to[c] \in Daemons
      BY DEF HandledRun
    <2> QED BY <2>2, <2>3, <2>4 DEF Records, Reconciling, Accounted, PastPass
  <1> QED BY <1>1, <1>2, <1>3, <1>4, <1>5, <1>6 DEF MainStep

\* What a command and the only handler there is do to the records.
LEMMA ClientRecords ==
    ASSUME OneClient, TypeOK, Asks, Records, NEW c \in Clients,
           (\E k \in Commands : Run(c, k)) \/ CommandStep(c) \/ HandlerStep(c)
    PROVE  Records'
  <1> USE DEF TypeOK, ClientType, Moves, Handles, Ends, daemonVars
  <1>1. CASE \/ \E k \in Commands : Run(c, k)
             \/ CommandStep(c)
             \/ Accept(c) \/ HandlerLoad(c) \/ HandlerReply(c) \/ HandlerStop(c)
    <2>1. UNCHANGED <<config, served, failed, pc>>
      BY <1>1 DEF Run, CommandStep, Write, Dial, Send, WaitForRelease, UnmountAll, Accept,
                  HandlerLoad, HandlerReply, HandlerStop
    <2>2. /\ \A e \in Clients : hpc'[e] = "pass" <=> hpc[e] = "pass"
          /\ \A e \in Clients : hpc[e] = "pass" => to'[e] = to[e] /\ got'[e] = got[e]
      <3>1. ASSUME \E k \in Commands : Run(c, k) PROVE <2>2!1 /\ <2>2!2
        BY <3>1 DEF Run
      <3>2. CASE CommandStep(c)
        BY <3>2 DEF Asks, CommandStep, Write, Dial, Send, WaitForRelease, UnmountAll
      <3>3. CASE Accept(c) \/ HandlerLoad(c) \/ HandlerReply(c)
        BY <3>3 DEF Accept, HandlerLoad, HandlerReply
      <3>4. CASE HandlerStop(c)
        BY <3>4 DEF HandlerStop, Unaccepted
      <3> QED BY <1>1, <3>1, <3>2, <3>3, <3>4
    <2> QED BY <2>1, <2>2, RecordsFrame
  <1>2. CASE HandlerSet(c)
    <2>1. to[c] \in Daemons /\ hpc'[c] = "pass" /\ UNCHANGED <<pc, served, failed, to, got>>
      BY <1>2 DEF HandlerSet, HandledRun
    <2>2. /\ config'[to[c]] = got[c]
          /\ \A q \in Daemons \ {to[c]} : config'[q] = config[q]
      BY <1>2, <2>1 DEF HandlerSet, DaemonType
    <2>3. \A e \in Clients : e = c
      BY DEF OneClient
    <2>4. \A q \in Daemons \ {to[c]} : ~Reconciling(q)
      BY <1>2, <2>3 DEF HandlerSet, Reconciling
    <2> QED BY <2>1, <2>2, <2>3, <2>4 DEF Records, Reconciling, Accounted
  <1>3. CASE HandlerPass(c)
    <2>1. /\ to[c] \in Daemons /\ got[c] \in SUBSET Names /\ Pass(to[c], got[c])
          /\ got[c] = config[to[c]]
      BY <1>3 DEF HandlerPass, HandledRun, Records
    <2>2. /\ served'[to[c]] \cup failed'[to[c]] = got[c]
          /\ served'[to[c]] \cap failed'[to[c]] = {}
          /\ \A q \in Daemons \ {to[c]} : served'[q] = served[q] /\ failed'[q] = failed[q]
      BY <2>1, PassAccounts
    <2>3. \A e \in Clients : e = c
      BY DEF OneClient
    <2>4. hpc'[c] # "pass" /\ UNCHANGED <<pc, config, to, got>>
      BY <1>3 DEF HandlerPass
    <2>5. \A q \in Daemons \ {to[c]} : ~Reconciling(q)
      BY <2>3 DEF Reconciling
    <2> QED BY <2>1, <2>2, <2>3, <2>4, <2>5 DEF Records, Reconciling, Accounted
  <1> QED BY <1>1, <1>2, <1>3 DEF HandlerStep

LEMMA RecordsKept ==
    ASSUME OneClient
    PROVE  Spec => []Records
  <1>1. Init => Records
    BY DEF Init, Records, PastPass
  <1>2. TypeOK /\ Asks /\ Records /\ [Next]_vars => Records'
    <2> SUFFICES ASSUME TypeOK, Asks, Records, [Next]_vars PROVE Records'
      OBVIOUS
    <2>1. CASE Next
      BY <2>1, MainRecords, ClientRecords DEF Next
    <2>2. CASE UNCHANGED vars
      BY <2>2, RecordsFrame DEF vars, daemonVars, clientVars
    <2> QED BY <2>1, <2>2
  <1> QED BY LifecycleTypeCorrect, AskersWait, <1>1, <1>2, PTL DEF Spec

\* With one command at a time, status accounts for each workspace of the file
\* that the daemon read: served, or failed with a reason.
THEOREM OneClientIsTold ==
    ASSUME OneClient
    PROVE  Spec => []StatusTells
  <1>1. Records => StatusTells
    BY DEF Records, StatusTells, PastPass
  <1> QED BY RecordsKept, <1>1, PTL

----------------------------------------------------------------------------
\* What an up --detach can know of the only daemon there is.

\* From its bind on the daemon is in reach, on its way out also until it is told
\* to stop; one that was found has bound its socket; and nothing but a stop makes
\* the only daemon release what it mounted.
Found ==
    /\ \A p \in Daemons : pc[p] \in {"started", "waiting", "quitting"} /\ p \notin stopped =>
         sock = p /\ p \in listening
    /\ \A p \in Daemons : pc[p] = "bind" => sock = None
    /\ \A p \in Daemons : pc[p] = "released" => p \in stopped
    /\ \A p \in Daemons : parent[p] \in {"found", "dialled"} => pc[p] \in PastBind \cup {"off"}

LEMMA FoundKept ==
    ASSUME Alone
    PROVE  Spec => []Found
  <1>1. Init => Found
    BY DEF Init, Found
  <1>2. TypeOK /\ Found /\ [Next]_vars => Found'
    <2> SUFFICES ASSUME TypeOK, Found, [Next]_vars PROVE Found'
      OBVIOUS
    <2> USE DEF TypeOK, DaemonType, Found, PastBind, At, Goto, parentVars
    <2>1. ASSUME NEW p \in Daemons,
                 \/ \E d \in Detaching : Up(p, d)
                 \/ CheckRunning(p) \/ LoadConfig(p) \/ FirstPass(p) \/ RemoveSocket(p)
                 \/ Bind(p) \/ BindFails(p) \/ Wait(p) \/ Release(p) \/ AcceptFails(p)
          PROVE  Found'
      BY <2>1 DEF Alone, Up, CheckRunning, LoadConfig, FirstPass, RemoveSocket, Bind, BindFails,
                  Wait, Release, AcceptFails
    <2>2. ASSUME NEW p \in Daemons, GiveUp(p) \/ Signal(p) PROVE Found'
      BY <2>2 DEF Alone, GiveUp, Signal, CloseListener, Fail
    <2>3. ASSUME NEW p \in Daemons, Return(p) \/ Kill(p) \/ ParentDeadline(p)
          PROVE  Found'
      BY <2>3 DEF Alone, Return, Kill, ParentDeadline, Exit, Fail
    <2>4. ASSUME NEW p \in Daemons, ParentStep(p) PROVE Found'
      BY <2>4 DEF Alone, ListenersRun, Running, ParentStep, ParentSees, ParentLoses, ParentDials,
                  ParentAsks, ParentHandled, ParentAnswered, ParentGoes
    <2>5. ASSUME NEW c \in Clients, HandlerStop(c) PROVE Found'
      <3>1. to[c] \in Daemons
        BY <2>5 DEF HandledRun, HandlerStop
      <3> QED BY <2>5, <3>1 DEF Alone, HandlerStop, CloseListener, Fail
    <2>6. CASE UNCHANGED <<pc, parent, stopped, sock, listening>>
      BY <2>6
    <2>7. ASSUME NEW c \in Clients,
                 \/ \E k \in Commands : Run(c, k)
                 \/ CommandStep(c)
                 \/ Accept(c) \/ HandlerLoad(c) \/ HandlerSet(c) \/ HandlerPass(c)
                 \/ HandlerReply(c)
          PROVE  UNCHANGED <<pc, parent, stopped, sock, listening>>
      BY <2>7 DEF Run, CommandStep, Write, Dial, Send, WaitForRelease, UnmountAll, Accept,
                  HandlerLoad, HandlerSet, HandlerPass, HandlerReply, daemonVars
    <2>8. CASE UNCHANGED vars
      BY <2>6, <2>8 DEF vars, daemonVars
    <2> QED BY <2>1, <2>2, <2>3, <2>4, <2>5, <2>6, <2>7, <2>8 DEF Next, MainStep, HandlerStep
  <1> QED BY LifecycleTypeCorrect, <1>1, <1>2, PTL DEF Spec

\* How a parent comes to its end: a step of its own, or the end of the daemon it
\* started or asked.
LEMMA ParentEnds ==
    ASSUME Alone, TypeOK, Found, Next, NEW p \in Daemons, parent'[p] # parent[p]
    PROVE  /\ parent'[p] = "told" => ParentAnswered(p)
           /\ parent'[p] = "failed" => Over(p)'
  <1> USE DEF TypeOK, DaemonType, Over, At, Goto, parentVars
  <1>1. \A q \in Daemons : q = p
    BY DEF Alone
  <1>2. CASE \E d \in Detaching : Up(p, d)
    BY <1>2 DEF Up
  <1>3. CASE \/ CheckRunning(p) \/ LoadConfig(p) \/ FirstPass(p) \/ RemoveSocket(p) \/ Bind(p)
             \/ BindFails(p) \/ Wait(p) \/ Release(p) \/ AcceptFails(p)
    BY <1>3 DEF CheckRunning, LoadConfig, FirstPass, RemoveSocket, Bind, BindFails, Wait,
                Release, AcceptFails
  <1>4. CASE GiveUp(p) \/ Signal(p)
    <2>1. CloseListener(p)
      BY <1>4 DEF GiveUp, Signal
    <2> QED BY <2>1, CloseKeepsType
  <1>5. CASE Return(p) \/ Kill(p) \/ ParentDeadline(p)
    BY <1>5 DEF Return, Kill, ParentDeadline, Exit, Fail
  <1>6. CASE ParentStep(p)
    <2>1. CASE ParentSees(p) \/ ParentHandled(p) \/ ParentAnswered(p)
      BY <2>1 DEF ParentSees, ParentHandled, ParentAnswered, ParentGoes
    <2>2. CASE ParentLoses(p)
      BY <2>2 DEF ParentLoses, ParentGoes
    <2>3. CASE ParentDials(p) \/ ParentAsks(p)
      <3>1. Running \/ At(p, "off") \/ p \in stopped
        BY <2>3 DEF ParentDials, ParentAsks, Found, PastBind, Running
      <3> QED BY <2>3, <3>1 DEF ParentDials, ParentAsks, ParentGoes
    <2> QED BY <1>6, <2>1, <2>2, <2>3 DEF ParentStep
  <1>7. ASSUME NEW c \in Clients, HandlerStop(c)
        PROVE  parent'[p] = "failed" /\ Over(p)'
    <2>1. to[c] = p /\ CloseListener(to[c])
      BY <1>1, <1>7 DEF HandlerStop, HandledRun
    <2> QED BY <2>1, CloseKeepsType
  <1>8. ASSUME NEW c \in Clients,
               \/ \E k \in Commands : Run(c, k)
               \/ CommandStep(c)
               \/ Accept(c) \/ HandlerLoad(c) \/ HandlerSet(c) \/ HandlerPass(c)
               \/ HandlerReply(c)
        PROVE  FALSE
    BY <1>8 DEF Run, CommandStep, Write, Dial, Send, WaitForRelease, UnmountAll, Accept,
                HandlerLoad, HandlerSet, HandlerPass, HandlerReply, daemonVars
  <1> QED BY <1>1, <1>2, <1>3, <1>4, <1>5, <1>6, <1>7, <1>8 DEF Next, MainStep, HandlerStep

\* Where no other daemon runs, and with one command at a time, an up --detach
\* that is told anything is told by the daemon it started, which has not given
\* up: each workspace is established or failed for a reason, unless a reload is
\* halfway or everything was released.  One that fails leaves no daemon that
\* goes on serving.  Both the hypotheses are needed: Detach takes any daemon
\* that answers.
THEOREM AloneDetachTells ==
    ASSUME Alone, OneClient
    PROVE  Spec => DetachTells
  <1>1. TypeOK /\ Records /\ Found /\ [Next]_vars =>
        [\A p \in Daemons : parent'[p] # parent[p] =>
            /\ parent'[p] = "told" => Told(p)
            /\ parent'[p] = "failed" => Over(p)']_vars
    <2> SUFFICES ASSUME TypeOK, Records, Found, Next, NEW p \in Daemons, parent'[p] # parent[p]
                 PROVE  /\ parent'[p] = "told" => Told(p)
                        /\ parent'[p] = "failed" => Over(p)'
      OBVIOUS
    <2>1. /\ parent'[p] = "told" => ParentAnswered(p)
          /\ parent'[p] = "failed" => Over(p)'
      BY ParentEnds
    <2>2. ASSUME ParentAnswered(p) PROVE Told(p)
      <3>1. asked[p] = p /\ pc[p] \in PastBind
        BY <2>2 DEF Alone, ParentAnswered, TypeOK, HandledRun
      <3> QED BY <3>1 DEF Told, Records, PastBind, PastPass, At
    <2> QED BY <2>1, <2>2
  <1> QED BY LifecycleTypeCorrect, RecordsKept, FoundKept, <1>1, PTL DEF Spec, DetachTells

----------------------------------------------------------------------------
\* With one daemon and one command at a time, an edit that was answered holds.

\* Where a command can be while it edits, sweeps, or is answered.
Proceeds == \A c \in Clients :
    /\ cpc[c] = "edit" => result[c] = "none"
    /\ cpc[c] \in {"waiting", "sweeping"} => ~Edits(cmd[c])
    /\ hpc[c] \in {"set", "pass"} => got[c] = file

\* The edit has been answered by a daemon.
Effective(c) == Edits(cmd[c]) /\ result[c] \in {"ok", "failed"}

\* From then on until the next command, whatever becomes of the daemon: the file
\* is what it has read, when it has read one, and what it serves is mounted.
InEffect == \A c \in Clients, p \in Daemons :
    Effective(c) =>
        /\ pc[p] \in PastPass \cup {"pass"} => config[p] = file
        /\ pc[p] \in PastPass => \A n \in served[p] : mounts[n] = p

\* What the only daemon records as served after a pass, it has mounted.
LEMMA PassMounts ==
    ASSUME Alone, MachineType, DaemonType, NEW p \in Daemons, NEW v \in SUBSET Names, Pass(p, v)
    PROVE  \A n \in served'[p] : mounts'[n] = p
  <1>1. \A n \in Names : mounts[n] \in Daemons => mounts[n] = p
    BY DEF Alone
  <1> QED BY <1>1 DEF MachineType, DaemonType, Pass

LEMMA MainInEffect ==
    ASSUME Alone, TypeOK, Proceeds, InEffect, NEW p \in Daemons,
           \/ \E d \in Detaching : Up(p, d)
           \/ MainStep(p)
           \/ AcceptFails(p) \/ Signal(p) \/ Kill(p)
           \/ ParentDeadline(p) \/ ParentStep(p)
    PROVE  Proceeds' /\ InEffect'
  <1> USE DEF TypeOK, At, Goto, machine, clientVars
  <1>1. Proceeds' /\ \A c \in Clients : Effective(c)' => Effective(c)
    <2>1. UNCHANGED <<file, cmd, got>>
      BY DEF Up, MainStep, CheckRunning, LoadConfig, FirstPass, RemoveSocket, Bind, BindFails,
             GiveUp, Wait, Release, Return, AcceptFails, Signal, Kill, ParentDeadline, Exit,
             ParentStep, ParentSees, ParentLoses, ParentDials, ParentAsks, ParentHandled,
             ParentAnswered, ParentGoes
    <2>2. UNCHANGED <<cpc, hpc, result>> \/ \E cs : Break(cs)
      BY DEF Up, MainStep, CheckRunning, LoadConfig, FirstPass, RemoveSocket, Bind, BindFails,
             GiveUp, Wait, Release, Return, AcceptFails, Signal, Kill, ParentDeadline, Exit,
             ParentStep, ParentSees, ParentLoses, ParentDials, ParentAsks, ParentHandled,
             ParentAnswered, ParentGoes
    <2>3. CASE UNCHANGED <<cpc, hpc, result>>
      BY <2>1, <2>3 DEF Proceeds, Effective
    <2>4. ASSUME NEW cs, Break(cs)
          PROVE  Proceeds' /\ \A c \in Clients : Effective(c)' => Effective(c)
      BY <2>1, <2>4 DEF ClientType, Proceeds, Effective, Break
    <2> QED BY <2>2, <2>3, <2>4
  <1>2. SUFFICES ASSUME NEW c \in Clients, Effective(c)
                 PROVE  /\ pc'[p] \in PastPass \cup {"pass"} => config'[p] = file'
                        /\ pc'[p] \in PastPass => \A n \in served'[p] : mounts'[n] = p
    BY <1>1 DEF InEffect, Alone
  <1> USE DEF InEffect, DaemonType, PastPass
  <1>3. CASE \/ \E d \in Detaching : Up(p, d)
             \/ CheckRunning(p) \/ RemoveSocket(p) \/ Bind(p) \/ Wait(p) \/ AcceptFails(p)
             \/ GiveUp(p) \/ Signal(p) \/ ParentStep(p)
    BY <1>2, <1>3 DEF Up, CheckRunning, RemoveSocket, Bind, Wait, AcceptFails, GiveUp, Signal,
                      ParentStep, ParentSees, ParentLoses, ParentDials, ParentAsks,
                      ParentHandled, ParentAnswered, ParentGoes
  <1>4. CASE LoadConfig(p)
    BY <1>2, <1>4 DEF LoadConfig
  <1>5. CASE FirstPass(p)
    <2>1. config[p] \in SUBSET Names /\ Pass(p, config[p])
      BY <1>5 DEF FirstPass
    <2>2. \A n \in served'[p] : mounts'[n] = p
      BY <2>1, PassMounts
    <2> QED BY <1>2, <1>5, <2>2 DEF FirstPass
  <1>6. CASE BindFails(p) \/ Release(p)
    BY <1>6 DEF BindFails, Release
  <1>7. CASE Return(p) \/ Kill(p) \/ ParentDeadline(p)
    BY <1>7 DEF Return, Kill, ParentDeadline, Exit
  <1> QED BY <1>3, <1>4, <1>5, <1>6, <1>7 DEF MainStep

LEMMA ClientInEffect ==
    ASSUME Alone, OneClient, TypeOK, Asks, Records, Proceeds, InEffect, NEW c \in Clients,
           (\E k \in Commands : Run(c, k)) \/ CommandStep(c) \/ HandlerStep(c)
    PROVE  Proceeds' /\ InEffect'
  <1> USE DEF TypeOK, ClientType, Moves, Handles, Ends, machine, daemonVars
  <1>1. \A e \in Clients : e = c
    BY DEF OneClient
  <1>2. Proceeds'
    <2> SUFFICES /\ cpc'[c] = "edit" => result'[c] = "none"
                 /\ cpc'[c] \in {"waiting", "sweeping"} => ~Edits(cmd'[c])
                 /\ hpc'[c] \in {"set", "pass"} => got'[c] = file'
      BY <1>1 DEF Proceeds, Edits
    <2> USE DEF Proceeds, Asks, Edits
    <2>1. CASE \E k \in Commands : Run(c, k)
      BY <2>1 DEF Run
    <2>2. CASE CommandStep(c)
      BY <2>2 DEF CommandStep, Write, Dial, Send, WaitForRelease, UnmountAll
    <2>3. CASE Accept(c) \/ HandlerLoad(c) \/ HandlerSet(c) \/ HandlerPass(c) \/ HandlerReply(c)
      BY <2>3 DEF Accept, HandlerLoad, HandlerSet, HandlerPass, HandlerReply
    <2>4. CASE HandlerStop(c)
      BY <2>4 DEF HandlerStop, Unaccepted
    <2> QED BY <2>1, <2>2, <2>3, <2>4 DEF HandlerStep
  <1>3. InEffect'
    <2> SUFFICES ASSUME NEW p \in Daemons, Effective(c)'
                 PROVE  /\ pc'[p] \in PastPass \cup {"pass"} => config'[p] = file'
                        /\ pc'[p] \in PastPass => \A n \in served'[p] : mounts'[n] = p
      BY <1>1 DEF InEffect
    <2> USE DEF InEffect, Effective, DaemonType
    <2>1. CASE \E k \in Commands : Run(c, k)
      BY <2>1 DEF Run
    <2>2. CASE Write(c)
      BY <2>2 DEF Write, Proceeds
    <2>3. CASE Dial(c) \/ Send(c) \/ WaitForRelease(c) \/ UnmountAll(c)
      BY <2>3 DEF Dial, Send, WaitForRelease, UnmountAll, Proceeds
    <2>4. CASE Accept(c) \/ HandlerLoad(c) \/ HandlerReply(c)
      BY <2>4 DEF Accept, HandlerLoad, HandlerReply
    <2>5. CASE HandlerStop(c)
      BY <2>5 DEF HandlerStop
    <2>6. CASE HandlerSet(c)
      BY <2>6 DEF HandlerSet, Proceeds
    <2>7. CASE HandlerPass(c)
      <3>1. to[c] \in Daemons /\ got[c] \in SUBSET Names /\ Pass(to[c], got[c])
        BY <2>7 DEF HandlerPass, HandledRun
      <3>2. to[c] = p
        BY <3>1 DEF Alone
      <3>3. \A n \in served'[p] : mounts'[n] = p
        BY <3>1, <3>2, PassMounts
      <3>4. config[p] = file
        BY <2>7, <3>2 DEF HandlerPass, Records, Proceeds
      <3> QED BY <2>7, <3>3, <3>4 DEF HandlerPass
    <2> QED BY <2>1, <2>2, <2>3, <2>4, <2>5, <2>6, <2>7 DEF CommandStep, HandlerStep
  <1> QED BY <1>2, <1>3

\* Where one daemon runs, and one command at a time, an edit that the daemon
\* answered holds without a second command: it serves what the file declares,
\* and what it serves is mounted, also after it was killed and started again.
THEOREM AnsweredEditHolds ==
    ASSUME Alone, OneClient
    PROVE  Spec => []EditsTakeEffect
  <1>1. Init => Proceeds /\ InEffect
    BY DEF Init, Proceeds, InEffect, Effective
  <1>2. TypeOK /\ Asks /\ Records /\ Proceeds /\ InEffect /\ [Next]_vars
            => Proceeds' /\ InEffect'
    <2> SUFFICES ASSUME TypeOK, Asks, Records, Proceeds, InEffect, [Next]_vars
                 PROVE  Proceeds' /\ InEffect'
      OBVIOUS
    <2>1. CASE Next
      BY <2>1, MainInEffect, ClientInEffect DEF Next
    <2>2. CASE UNCHANGED vars
      BY <2>2 DEF vars, machine, daemonVars, clientVars, Proceeds, InEffect, Effective
    <2> QED BY <2>1, <2>2
  <1>3. Records /\ InEffect => EditsTakeEffect
    BY DEF Records, InEffect, Effective, EditsTakeEffect, Quiet, Reconciling, Accounted, PastPass
  <1> QED BY LifecycleTypeCorrect, AskersWait, RecordsKept, <1>1, <1>2, <1>3, PTL DEF Spec

=============================================================================
