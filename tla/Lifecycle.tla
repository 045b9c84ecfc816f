----------------------------- MODULE Lifecycle -----------------------------
(***************************************************************************)
(* The processes around reconciliation: daemons that start, listen, answer *)
(* and stop (sdk/daemon Start, listen, Wait, Stop, Reload, handle), and    *)
(* the commands that reach them over the control socket (sdk/daemon Dial,  *)
(* send; cmd/airfs up, down, reload, and the declarative commands).        *)
(*                                                                         *)
(* Each request is handled by a goroutine of its own, next to the one that *)
(* waits for connections.  daemon.mu is held for one step of a handler at  *)
(* a time: storing the configuration and reconciling are two such steps,   *)
(* and a pass of reconciliation, which Reconcile models in detail, is one. *)
(*                                                                         *)
(* Abstracted: the file is the set of the workspaces it declares and       *)
(* enables, every file is valid, a workspace is mounted as a whole, its    *)
(* declaration does not change while it stays declared, and unmounting     *)
(* succeeds (Reconcile has folders, changed declarations and busy mounts). *)
(***************************************************************************)
EXTENDS Naturals, FiniteSets

CONSTANTS
    Names,      \* workspace names
    Daemons,    \* daemon processes (one may run several times)
    Clients,    \* command processes (each runs one command after another)
    Commands,   \* the commands they run
    Detaching,  \* whether airfs up is run with --detach: FALSE, TRUE or both
    Flaky,      \* workspaces that may fail to be established
    None,       \* no socket file
    MaxStarts,  \* bound on the number of times airfs up is run
    MaxFaults   \* bound on signals, kills, deadlines and failures of Accept

ASSUME CommandAssumption ==
    Commands \subseteq [op: {"add", "rm", "reload", "down"}, name: Names]
ASSUME NoneAssumption == None \notin Daemons
ASSUME MountAssumption == {"none", "stale"} \cap Daemons = {}
ASSUME BoundAssumption ==
    Detaching \subseteq BOOLEAN /\ Flaky \subseteq Names /\ MaxStarts \in Nat /\ MaxFaults \in Nat

VARIABLES
    file,       \* the workspaces the configuration file declares
    mounts,     \* who serves each workspace
    sock,       \* whose listener the socket file leads to
    listening,  \* daemons whose listener is open
    pc,         \* where the main goroutine of a daemon is
    parent,     \* how far the up --detach that started a daemon is
    asked,      \* the daemon it asked for its status
    config,     \* daemon.config
    served,     \* daemon.servers
    failed,     \* daemon.failed
    stopped,    \* daemons whose stopped channel is closed
    cpc,        \* where a command is
    cmd,        \* the command a client runs
    hpc,        \* where the goroutine handling its request is
    to,         \* the daemon the request was sent to
    got,        \* the file as read by the command, then by its handler
    result,     \* how the last command of a client ended
    starts,     \* times airfs up was run
    faults      \* signals, kills, deadlines and failures of Accept so far

machine == <<file, mounts>>
parentVars == <<parent, asked>>
daemonVars == <<pc, parentVars, config, served, failed, stopped, listening, sock>>
clientVars == <<cpc, cmd, hpc, to, got, result>>
vars == <<machine, daemonVars, clientVars, starts, faults>>

States == {"off", "check", "load", "pass", "remove", "bind", "started", "waiting", "released",
           "quitting"}
\* The states of a daemon that has tried to bind its socket.
PastBind == {"started", "waiting", "released", "quitting"}
\* An up --detach waits for a daemon, finds one, probes its socket, sends it a
\* request, is being answered, and ends.
ParentStates == {"no", "waiting", "found", "dialled", "asking", "handled", "told", "failed"}

MachineType ==
    /\ file \subseteq Names
    /\ mounts \in [Names -> {"none", "stale"} \cup Daemons]
    /\ starts \in Nat /\ faults \in Nat
DaemonType ==
    /\ sock \in Daemons \cup {None}
    /\ listening \subseteq Daemons /\ stopped \subseteq Daemons
    /\ parent \in [Daemons -> ParentStates] /\ asked \in [Daemons -> Daemons \cup {None}]
    /\ pc \in [Daemons -> States]
    /\ config \in [Daemons -> SUBSET Names]
    /\ served \in [Daemons -> SUBSET Names]
    /\ failed \in [Daemons -> SUBSET Names]
ClientType ==
    /\ cpc \in [Clients -> {"idle", "edit", "dial", "send", "asking", "waiting", "sweeping"}]
    /\ cmd \in [Clients -> Commands]
    /\ hpc \in [Clients -> {"none", "sent", "load", "set", "pass", "reply", "stop"}]
    /\ to \in [Clients -> Daemons \cup {None}]
    /\ got \in [Clients -> SUBSET Names]
    /\ result \in [Clients -> {"none", "ok", "failed", "nodaemon", "broken"}]

\* A daemon listens from the time it has bound its socket until it is told to
\* stop, and only a process past that point can be told or has handlers.
ListenersRun == \A p \in listening : pc[p] \in PastBind \ {"released"} /\ p \notin stopped
StoppedRun == \A p \in stopped : pc[p] \in PastBind
HandledRun ==
    /\ \A c \in Clients : hpc[c] # "none" => to[c] \in Daemons /\ pc[to[c]] \in PastBind
    /\ \A p \in Daemons : parent[p] \in {"asking", "handled"} =>
         asked[p] \in Daemons /\ pc[asked[p]] \in PastBind

TypeOK ==
    /\ MachineType /\ DaemonType /\ ClientType
    /\ ListenersRun /\ StoppedRun /\ HandledRun

Init ==
    /\ file \in SUBSET Names
    /\ mounts = [n \in Names |-> "none"]
    /\ sock = None /\ listening = {} /\ stopped = {}
    /\ parent = [p \in Daemons |-> "no"] /\ asked = [p \in Daemons |-> None]
    /\ pc = [p \in Daemons |-> "off"]
    /\ config = [p \in Daemons |-> {}]
    /\ served = [p \in Daemons |-> {}]
    /\ failed = [p \in Daemons |-> {}]
    /\ cpc = [c \in Clients |-> "idle"]
    /\ cmd \in [Clients -> Commands]
    /\ hpc = [c \in Clients |-> "none"]
    /\ to = [c \in Clients |-> None]
    /\ got = [c \in Clients |-> {}]
    /\ result = [c \in Clients |-> "none"]
    /\ starts = 0 /\ faults = 0

----------------------------------------------------------------------------
\* What a daemon does to the machine.

\* A mistake: what is mounted is left alone, live or stale.
TrustTable(p, v) ==
    LET kept == {n \in v : mounts[n] # "none"}
    IN  \E bad \in SUBSET ((v \ kept) \cap Flaky) :
            /\ mounts' = [n \in Names |-> IF n \in kept THEN mounts[n]
                                          ELSE IF n \in v \ bad THEN p ELSE "none"]
            /\ served' = [served EXCEPT ![p] = v \ bad]
            /\ failed' = [failed EXCEPT ![p] = bad]

\* reconcile of configuration v, under daemon.mu: what is recorded and live is
\* left alone, whoever serves it; the rest of v is established, and everything
\* else in the mount table is unmounted.
Pass(p, v) ==
    LET kept == {n \in v \cap served[p] : mounts[n] \in Daemons}
    IN  \E bad \in SUBSET ((v \ kept) \cap Flaky) :
            /\ mounts' = [n \in Names |-> IF n \in kept THEN mounts[n]
                                          ELSE IF n \in v \ bad THEN p ELSE "none"]
            /\ served' = [served EXCEPT ![p] = v \ bad]
            /\ failed' = [failed EXCEPT ![p] = bad]

\* A mistake: the daemon forgets what it served and unmounts nothing.
ForgetEverything(p) ==
    /\ served' = [served EXCEPT ![p] = {}]
    /\ UNCHANGED mounts

\* releaseEverything: unmount, by path, what is recorded.
ReleaseEverything(p) ==
    /\ mounts' = [n \in Names |-> IF n \in served[p] THEN "none" ELSE mounts[n]]
    /\ served' = [served EXCEPT ![p] = {}]

\* Requests whose connection is lost with p's listener, or with p: those of
\* commands, and those of parents that ask for the status.
Unaccepted(p) == {c \in Clients : to[c] = p /\ hpc[c] = "sent"}
Handled(p) == {c \in Clients : to[c] = p /\ hpc[c] # "none"}
Queued(p) == {d \in Daemons : asked[d] = p /\ parent[d] = "asking"}
Asking(p) == {d \in Daemons : asked[d] = p /\ parent[d] \in {"asking", "handled"}}

Break(cs) ==
    /\ hpc' = [c \in Clients |-> IF c \in cs THEN "none" ELSE hpc[c]]
    /\ cpc' = [c \in Clients |-> IF c \in cs /\ cpc[c] = "asking" THEN "idle" ELSE cpc[c]]
    /\ result' = [c \in Clients |-> IF c \in cs /\ cpc[c] = "asking" THEN "broken"
                                    ELSE result[c]]
Fail(ds) ==
    /\ parent' = [d \in Daemons |-> IF d \in ds THEN "failed" ELSE parent[d]]
    /\ UNCHANGED asked

\* A mistake: the listener stays open.
LeaveListening(p) ==
    /\ stopped' = stopped \cup {p}
    /\ UNCHANGED <<listening, sock, parentVars>>

\* A mistake: the channel stays open.
LeaveUnstopped(p) ==
    /\ listening' = listening \ {p}
    /\ sock' = IF p \in stopped THEN sock ELSE None
    /\ Fail(Queued(p))
    /\ UNCHANGED stopped

\* Stop, once: the channel is closed and the listener too, which unlinks the
\* path of the socket whatever listener it now leads to.
CloseListener(p) ==
    /\ stopped' = stopped \cup {p}
    /\ listening' = listening \ {p}
    /\ sock' = IF p \in stopped THEN sock ELSE None
    /\ Fail(Queued(p))

\* The process ends: its mounts become stale, its handlers and memory vanish.
Exit(p) ==
    /\ mounts' = [n \in Names |-> IF mounts[n] = p THEN "stale" ELSE mounts[n]]
    /\ pc' = [pc EXCEPT ![p] = "off"]
    /\ config' = [config EXCEPT ![p] = {}]
    /\ served' = [served EXCEPT ![p] = {}]
    /\ failed' = [failed EXCEPT ![p] = {}]
    /\ stopped' = stopped \ {p}
    /\ listening' = listening \ {p}
    /\ Break(Handled(p))
    /\ UNCHANGED <<file, sock, cmd, to, got, starts>>

----------------------------------------------------------------------------
\* The main goroutine: airfs up.

At(p, here) == pc[p] = here
Goto(p, there) == pc' = [pc EXCEPT ![p] = there]

\* With --detach, the process that was run starts p and waits for it.
Up(p, d) ==
    /\ At(p, "off") /\ parent[p] \in {"no", "told", "failed"} /\ starts < MaxStarts
    /\ starts' = starts + 1
    /\ Goto(p, "check")
    /\ parent' = [parent EXCEPT ![p] = IF d THEN "waiting" ELSE "no"]
    /\ UNCHANGED <<machine, asked, config, served, failed, stopped, listening, sock, clientVars,
                   faults>>

\* Running: something answers on the socket.
Running == sock \in listening

CheckRunning(p) ==
    /\ At(p, "check")
    /\ IF Running THEN Goto(p, "off") ELSE Goto(p, "load")
    /\ UNCHANGED <<machine, parentVars, config, served, failed, stopped, listening, sock,
                   clientVars, starts, faults>>

LoadConfig(p) ==
    /\ At(p, "load")
    /\ config' = [config EXCEPT ![p] = file]
    /\ Goto(p, "pass")
    /\ UNCHANGED <<machine, parentVars, served, failed, stopped, listening, sock, clientVars,
                   starts, faults>>

FirstPass(p) ==
    /\ At(p, "pass")
    /\ Pass(p, config[p])
    /\ Goto(p, "remove")
    /\ UNCHANGED <<file, parentVars, config, stopped, listening, sock, clientVars,
                   starts, faults>>

\* listen: remove the file at the path of the socket, then bind it.
RemoveSocket(p) ==
    /\ At(p, "remove")
    /\ sock' = None
    /\ Goto(p, "bind")
    /\ UNCHANGED <<machine, parentVars, config, served, failed, stopped, listening, clientVars,
                   starts, faults>>

Bind(p) ==
    /\ At(p, "bind") /\ sock = None
    /\ sock' = p /\ listening' = listening \cup {p}
    /\ Goto(p, "started")
    /\ UNCHANGED <<machine, parentVars, config, served, failed, stopped, clientVars, starts,
                   faults>>

\* The path was bound in between: what was established is released.
BindFails(p) ==
    /\ At(p, "bind") /\ sock # None
    /\ ReleaseEverything(p)
    /\ Goto(p, "released")
    /\ UNCHANGED <<file, parentVars, config, failed, stopped, listening, sock,
                   clientVars, starts, faults>>

\* cmdUp: a detached daemon some workspace of which failed stops before it waits.
GivesUp(p) == parent[p] # "no" /\ failed[p] # {}

GiveUp(p) ==
    /\ At(p, "started") /\ GivesUp(p)
    /\ CloseListener(p)
    /\ Break(Unaccepted(p))
    /\ Goto(p, "quitting")
    /\ UNCHANGED <<machine, config, served, failed, cmd, to, got, starts, faults>>

Wait(p) ==
    /\ At(p, "started") /\ ~GivesUp(p)
    /\ Goto(p, "waiting")
    /\ UNCHANGED <<machine, parentVars, config, served, failed, stopped, listening, sock,
                   clientVars, starts, faults>>

\* Accept fails on the closed listener: the daemon was told to stop.
Release(p) ==
    /\ At(p, "waiting") /\ p \notin listening /\ p \in stopped
    /\ ReleaseEverything(p)
    /\ Goto(p, "released")
    /\ UNCHANGED <<file, parentVars, config, failed, stopped, listening, sock,
                   clientVars, starts, faults>>

\* Accept fails for any other reason: Wait returns the error.
AcceptFails(p) ==
    /\ At(p, "waiting") /\ p \notin stopped
    /\ faults < MaxFaults /\ faults' = faults + 1
    /\ Goto(p, "quitting")
    /\ UNCHANGED <<machine, parentVars, config, served, failed, stopped, listening, sock,
                   clientVars, starts>>

Return(p) ==
    /\ At(p, "released") \/ At(p, "quitting")
    /\ Exit(p) /\ Fail(Asking(p))
    /\ UNCHANGED faults

\* A signal that permits cleanup, once Wait listens for it.
Signal(p) ==
    /\ At(p, "waiting") /\ p \notin stopped
    /\ faults < MaxFaults /\ faults' = faults + 1
    /\ CloseListener(p)
    /\ Break(Unaccepted(p))
    /\ UNCHANGED <<machine, pc, config, served, failed, cmd, to, got, starts>>

\* SIGKILL, a crash, or a signal before Wait listens for it.
Kill(p) ==
    /\ ~At(p, "off")
    /\ faults < MaxFaults /\ faults' = faults + 1
    /\ Exit(p) /\ Fail(Asking(p))

----------------------------------------------------------------------------
\* up --detach, in the process that was run.

ParentGoes(p, there) ==
    /\ parent' = [parent EXCEPT ![p] = there]
    /\ UNCHANGED <<machine, pc, config, served, failed, stopped, listening, sock, clientVars,
                   starts, faults>>

\* Detach: whatever answers on the socket is taken for the daemon it started,
ParentSees(p) ==
    /\ parent[p] = "waiting" /\ Running
    /\ ParentGoes(p, "found") /\ UNCHANGED asked

\* the end of the daemon is a failure to start,
ParentLoses(p) ==
    /\ parent[p] = "waiting" /\ At(p, "off")
    /\ ParentGoes(p, "failed") /\ UNCHANGED asked

\* A mistake: the daemon is left to itself.
DeadlineLeaves(p) ==
    /\ parent[p] = "waiting" /\ ~At(p, "off")
    /\ faults < MaxFaults /\ faults' = faults + 1
    /\ parent' = [parent EXCEPT ![p] = "failed"]
    /\ UNCHANGED <<machine, asked, pc, config, served, failed, stopped, listening, sock,
                   clientVars, starts>>

\* and at the deadline the daemon is killed, however far it is.
ParentDeadline(p) ==
    /\ parent[p] = "waiting" /\ ~At(p, "off")
    /\ faults < MaxFaults /\ faults' = faults + 1
    /\ Exit(p) /\ Fail(Asking(p) \cup {p})

\* cmdUp goes on to Dial, which probes the socket once more,
ParentDials(p) ==
    /\ parent[p] = "found"
    /\ ParentGoes(p, IF Running THEN "dialled" ELSE "failed") /\ UNCHANGED asked

\* and to Status, which connects for a third time,
ParentAsks(p) ==
    /\ parent[p] = "dialled"
    /\ IF Running THEN ParentGoes(p, "asking") /\ asked' = [asked EXCEPT ![p] = sock]
                  ELSE ParentGoes(p, "failed") /\ UNCHANGED asked

\* is accepted by a daemon that waits for requests, and is answered by a
\* goroutine of it, under daemon.mu.
ParentHandled(p) ==
    /\ parent[p] = "asking"
    /\ pc[asked[p]] = "waiting" /\ asked[p] \in listening
    /\ ParentGoes(p, "handled") /\ UNCHANGED asked

ParentAnswered(p) ==
    /\ parent[p] = "handled"
    /\ ParentGoes(p, "told") /\ UNCHANGED asked

----------------------------------------------------------------------------
\* Commands: an edit of the file is followed by a reload; reload and down are
\* requests alone.

Apply(k, f) == CASE k.op = "add" -> f \cup {k.name}
                 [] k.op = "rm"  -> f \ {k.name}
                 [] OTHER        -> f
Edits(k) == k.op \in {"add", "rm"}

Moves(c, there) == cpc' = [cpc EXCEPT ![c] = there]
Handles(c, there) == hpc' = [hpc EXCEPT ![c] = there]
Ends(c, how) == Moves(c, "idle") /\ result' = [result EXCEPT ![c] = how]

\* The command starts; an edit reads the file first.
Run(c, k) ==
    /\ cpc[c] = "idle" /\ hpc[c] = "none"
    /\ cmd' = [cmd EXCEPT ![c] = k]
    /\ IF Edits(k) THEN Moves(c, "edit") /\ got' = [got EXCEPT ![c] = file]
                   ELSE Moves(c, "dial") /\ UNCHANGED got
    /\ result' = [result EXCEPT ![c] = "none"]
    /\ UNCHANGED <<machine, daemonVars, hpc, to, starts, faults>>

\* It replaces the file by what it read, changed.
Write(c) ==
    /\ cpc[c] = "edit"
    /\ file' = Apply(cmd[c], got[c])
    /\ Moves(c, "dial")
    /\ UNCHANGED <<mounts, daemonVars, cmd, hpc, to, got, result, starts, faults>>

\* Dial probes the socket.  Without a daemon, down goes on to unmount everything.
Dial(c) ==
    /\ cpc[c] = "dial"
    /\ IF Running THEN Moves(c, "send") /\ UNCHANGED result
       ELSE IF cmd[c].op = "down" THEN Moves(c, "sweeping") /\ UNCHANGED result
       ELSE Ends(c, "nodaemon")
    /\ UNCHANGED <<machine, daemonVars, cmd, hpc, to, got, starts, faults>>

\* send connects again, which may fail by now.
Send(c) ==
    /\ cpc[c] = "send"
    /\ IF Running
       THEN /\ to' = [to EXCEPT ![c] = sock]
            /\ Handles(c, "sent") /\ Moves(c, "asking") /\ UNCHANGED result
       ELSE Ends(c, "nodaemon") /\ UNCHANGED <<to, hpc>>
    /\ UNCHANGED <<machine, daemonVars, cmd, got, starts, faults>>

\* A mistake: down unmounts only what is stale.
UnmountStale(c) ==
    /\ cpc[c] = "sweeping"
    /\ mounts' = [n \in Names |-> IF mounts[n] = "stale" THEN "none" ELSE mounts[n]]
    /\ Ends(c, "ok")
    /\ UNCHANGED <<file, daemonVars, cmd, hpc, to, got, starts, faults>>

\* down gives the daemon until a deadline to release its mounts, then unmounts
\* every one that is left.
WaitForRelease(c) ==
    /\ cpc[c] = "waiting"
    /\ Moves(c, "sweeping")
    /\ UNCHANGED <<machine, daemonVars, cmd, hpc, to, got, result, starts, faults>>

UnmountAll(c) ==
    /\ cpc[c] = "sweeping"
    /\ mounts' = [n \in Names |-> "none"]
    /\ Ends(c, "ok")
    /\ UNCHANGED <<file, daemonVars, cmd, hpc, to, got, starts, faults>>

----------------------------------------------------------------------------
\* The handler of one request.

Accept(c) ==
    /\ hpc[c] = "sent"
    /\ pc[to[c]] = "waiting" /\ to[c] \in listening
    /\ Handles(c, IF cmd[c].op = "down" THEN "reply" ELSE "load")
    /\ UNCHANGED <<machine, daemonVars, cpc, cmd, to, got, result, starts, faults>>

\* A mistake: the configuration in memory is reconciled again.
HandlerRecall(c) ==
    /\ hpc[c] = "load"
    /\ got' = [got EXCEPT ![c] = config[to[c]]]
    /\ Handles(c, "set")
    /\ UNCHANGED <<machine, daemonVars, cpc, cmd, to, result, starts, faults>>

\* Reload reads the file before it takes the lock.
HandlerLoad(c) ==
    /\ hpc[c] = "load"
    /\ got' = [got EXCEPT ![c] = file]
    /\ Handles(c, "set")
    /\ UNCHANGED <<machine, daemonVars, cpc, cmd, to, result, starts, faults>>

\* A mistake: the configuration is reconciled and not stored.
HandlerSkip(c) ==
    /\ hpc[c] = "set"
    /\ Handles(c, "pass")
    /\ UNCHANGED <<machine, daemonVars, cpc, cmd, to, got, result, starts, faults>>

HandlerSet(c) ==
    /\ hpc[c] = "set"
    /\ config' = [config EXCEPT ![to[c]] = got[c]]
    /\ Handles(c, "pass")
    /\ UNCHANGED <<machine, pc, parentVars, served, failed, stopped, listening, sock, cpc, cmd,
                   to, got, result, starts, faults>>

\* What the pass could not establish is in the reply.
HandlerPass(c) ==
    /\ hpc[c] = "pass"
    /\ Pass(to[c], got[c])
    /\ result' = [result EXCEPT ![c] = IF failed'[to[c]] = {} THEN "ok" ELSE "failed"]
    /\ Handles(c, "reply")
    /\ UNCHANGED <<file, pc, parentVars, config, stopped, listening, sock, cpc, cmd, to,
                   got, starts, faults>>

\* A mistake: a reload that failed is tried again.
HandlerRetry(c) ==
    /\ hpc[c] = "reply"
    /\ IF cmd[c].op = "down" THEN Handles(c, "stop") /\ Moves(c, "waiting")
       ELSE IF result[c] = "failed" THEN Handles(c, "load") /\ UNCHANGED cpc
       ELSE Handles(c, "none") /\ Moves(c, "idle")
    /\ UNCHANGED <<machine, daemonVars, cmd, to, got, result, starts, faults>>

\* The reply goes out; after that of a shutdown the handler stops the daemon.
HandlerReply(c) ==
    /\ hpc[c] = "reply"
    /\ IF cmd[c].op = "down" THEN Handles(c, "stop") /\ Moves(c, "waiting")
                              ELSE Handles(c, "none") /\ Moves(c, "idle")
    /\ UNCHANGED <<machine, daemonVars, cmd, to, got, result, starts, faults>>

HandlerStop(c) ==
    /\ hpc[c] = "stop"
    /\ CloseListener(to[c])
    /\ LET lost == Unaccepted(to[c])
       IN  /\ hpc' = [e \in Clients |-> IF e \in lost \cup {c} THEN "none" ELSE hpc[e]]
           /\ cpc' = [e \in Clients |-> IF e \in lost THEN "idle" ELSE cpc[e]]
           /\ result' = [e \in Clients |-> IF e \in lost THEN "broken" ELSE result[e]]
    /\ UNCHANGED <<machine, pc, config, served, failed, cmd, to, got, starts, faults>>

----------------------------------------------------------------------------
MainStep(p) ==
    \/ CheckRunning(p) \/ LoadConfig(p) \/ FirstPass(p) \/ RemoveSocket(p)
    \/ Bind(p) \/ BindFails(p) \/ GiveUp(p) \/ Wait(p) \/ Release(p) \/ Return(p)
ParentStep(p) ==
    \/ ParentSees(p) \/ ParentLoses(p) \/ ParentDials(p) \/ ParentAsks(p)
    \/ ParentHandled(p) \/ ParentAnswered(p)
CommandStep(c) == Write(c) \/ Dial(c) \/ Send(c) \/ WaitForRelease(c) \/ UnmountAll(c)
HandlerStep(c) ==
    \/ Accept(c) \/ HandlerLoad(c) \/ HandlerSet(c) \/ HandlerPass(c) \/ HandlerReply(c)
    \/ HandlerStop(c)

Next ==
    \/ \E p \in Daemons :
         \/ \E d \in Detaching : Up(p, d)
         \/ MainStep(p)
         \/ AcceptFails(p) \/ Signal(p) \/ Kill(p)
         \/ ParentDeadline(p) \/ ParentStep(p)
    \/ \E c \in Clients :
         \/ \E k \in Commands : Run(c, k)
         \/ CommandStep(c)
         \/ HandlerStep(c)

Spec == Init /\ [][Next]_vars

\* Goroutines and processes that can go on do; nobody has to run a command.
FairSpec ==
    /\ Spec
    /\ \A p \in Daemons : WF_vars(MainStep(p))
    /\ \A c \in Clients : WF_vars(CommandStep(c)) /\ WF_vars(HandlerStep(c))

----------------------------------------------------------------------------
\* What the daemon and its commands promise.

Quiet == \A c \in Clients : cpc[c] = "idle" /\ hpc[c] = "none"

\* "Nothing can reach a daemon that is not listening, so what it has mounted
\* would be unmanageable" (daemon.go): the socket leads to a daemon that waits
\* for requests, until it is told to stop.
WaitingIsReachable ==
    \A p \in Daemons : pc[p] = "waiting" /\ p \notin stopped => sock = p /\ p \in listening

\* Whatever other daemons and requests do in between, a daemon has recorded all
\* that it serves: releaseEverything, which goes by its records, misses nothing.
MountsAreRecorded ==
    \A p \in Daemons : \A n \in Names : mounts[n] = p => n \in served[p]

\* "Starting when a daemon is already running is refused" (daemon.go).
OneDaemon ==
    \A p, q \in Daemons : pc[p] = "waiting" /\ pc[q] = "waiting" => p = q

\* A handler of p has stored a configuration and not reconciled it yet.
Reconciling(p) == \E c \in Clients : to[c] = p /\ hpc[c] = "pass"
Accounted(p) == served[p] \cup failed[p] = config[p] /\ served[p] \cap failed[p] = {}

\* What status reports: "every workspace that file declares, [...] established
\* or not, with the reason for each it could not establish" (daemon.md).
StatusTells ==
    \A p \in Daemons : pc[p] = "waiting" /\ ~Reconciling(p) => Accounted(p)

\* "So an edit takes effect without a second command" (daemon.md): when every
\* edit was answered by the daemon that runs, it serves what the file declares,
\* and what it says it serves is mounted.
EditsTakeEffect ==
    \A p \in Daemons :
        /\ Quiet /\ pc[p] = "waiting" /\ p \notin stopped
        /\ \A c \in Clients :
             Edits(cmd[c]) => result[c] \in {"ok", "failed"} /\ to[c] = p
        /\ \E c \in Clients : Edits(cmd[c])
        => /\ served[p] \cup failed[p] = file
           /\ \A n \in served[p] : mounts[n] = p

\* Mounts left stale are released by the next daemon's first pass.
StaleIsReleased ==
    \A p \in Daemons :
        pc[p] \in {"remove", "bind", "started", "waiting"} =>
            \A n \in Names : mounts[n] # "stale"

\* "Stopping releases every mount the daemon holds, then exits" (daemon.md); "Stop
\* releases every mount the daemon holds and ends Wait" (daemon.go).
StopReleases ==
    [][\A p \in Daemons : p \in stopped /\ Return(p) => \A n \in Names : mounts[n] # p]_vars

\* How an up --detach ends.  Told: by the daemon it started, past its first pass,
\* whose status accounts for every workspace declared, unless a reload is halfway
\* or everything was released (daemon.md: it "knows the workspaces are
\* established, or knows which ones were not").  Failed: then that daemon has
\* ended or was told to stop, and serves nothing behind its caller's back.
Told(p) == asked[p] = p /\ (Reconciling(p) \/ At(p, "released") \/ Accounted(p))
Over(p) == At(p, "off") \/ p \in stopped
DetachTells ==
    [][\A p \in Daemons : parent'[p] # parent[p] =>
         /\ parent'[p] = "told" => Told(p)
         /\ parent'[p] = "failed" => Over(p)']_vars

\* A daemon told to stop ends, and a command that asked a daemon gets an answer
\* or sees the connection break.
StopEnds == \A p \in Daemons : p \in stopped ~> pc[p] = "off"
Answered == \A c \in Clients : cpc[c] = "asking" ~> cpc[c] # "asking"

============================================================================
