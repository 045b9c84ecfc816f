----------------------------- MODULE Reconcile -----------------------------
(***************************************************************************)
(* The reconciliation of one airfs daemon: what sdk/daemon.reconcile does  *)
(* to the machine, together with sdk/mount (Serve, Unmount, Mounts) and    *)
(* the parts of sdk/config it decides by (SameAs, FolderDir, the validated *)
(* list of workspaces).                                                    *)
(*                                                                         *)
(* A pass is a sequence of steps of the code: it reads the mount table     *)
(* once, releases what is no longer declared, visits the declared          *)
(* workspaces in file order, and unmounts what is left.  Between two steps *)
(* of a pass the rest of the machine may act: the file is edited, a mount  *)
(* is unmounted by hand, its connection is severed, another process mounts *)
(* an airfs filesystem, the daemon is killed.  The passes of one daemon do *)
(* not overlap (daemon.mu).                                                *)
(*                                                                         *)
(* Abstracted: a path is a pair <<target, folder>>; the list of sources of *)
(* a workspace is one value, its stack; the content of a view, the text of *)
(* outcomes and their reasons are left out.  Each folder of a workspace is *)
(* mounted at its own directory: mounts stacked on one directory are not   *)
(* represented, since prepareMountpoint refuses a mounted directory.       *)
(***************************************************************************)
EXTENDS Naturals, Sequences, FiniteSets

CONSTANTS
    Names,      \* workspace names
    Targets,    \* target directories, as resolved from the file
    Folders,    \* folder names
    Stacks,     \* lists of sources
    Inside,     \* Inside[t]: the targets that are t or lie below it
    Real,       \* Real[t]: the target the kernel reports for t (symlinks followed)
    Configs,    \* the contents the configuration file may have, when it is valid
    Invalid,    \* the file does not parse or does not validate
    None,       \* no workspace is served
    Contended,  \* directories whose mount may be busy when a plain unmount is tried
    Blocked,    \* directories a filesystem may fail to be mounted on
    Missing,    \* stacks one source of which may be unreadable
    Leftovers,  \* directories that may be mounted before the first daemon starts
    Intruders,  \* directories on which another process may mount an airfs view
    MaxEvents   \* bound on the steps of the rest of the machine

Dirs == Targets \X Folders

\* A mountpoint carries nothing, a mount whose server died, a live view served
\* by another process of this user or of another one, or a view of this daemon,
\* which is named by its stack.
Alien == {"absent", "stale", "foreign", "other"}
MountState == Alien \cup Stacks

Workspace == [name: Names, target: Targets, folders: Seq(Folders),
              stack: Stacks, enabled: BOOLEAN]

Declared(c) == {c[i] : i \in 1..Len(c)}
NamesOf(c) == {w.name : w \in Declared(c)}
Workspaces == UNION {Declared(c) : c \in Configs}

Overlap(t, u) == t \in Inside[u] \/ u \in Inside[t]

\* What resolve and checkTargets let through: targets that are not nested.
\* Two entries may have one name, and one entry may list a folder twice.
Valid(c) ==
    /\ Declared(c) \subseteq Workspace
    /\ \A w \in Declared(c) : w.folders # <<>>
    /\ \A i, j \in 1..Len(c) : i # j => ~Overlap(c[i].target, c[j].target)

ASSUME PathAssumption ==
    /\ Inside \in [Targets -> SUBSET Targets]
    /\ \A t \in Targets : t \in Inside[t]
    /\ Real \in [Targets -> Targets]

ASSUME ConfigAssumption ==
    /\ \A c \in Configs : c \in Seq(Declared(c)) /\ Valid(c)
    /\ Invalid \notin Configs
    /\ None \notin Workspace
    /\ Alien \cap Stacks = {}

ASSUME MachineAssumption ==
    /\ Contended \subseteq Dirs /\ Blocked \subseteq Dirs
    /\ Leftovers \subseteq Dirs /\ Intruders \subseteq Dirs
    /\ Missing \subseteq Stacks
    /\ MaxEvents \in Nat

VARIABLES
    file,       \* what the configuration file holds
    table,      \* the kernel's mount table
    pc,         \* where the daemon is: not running, between passes, in a pass
    config,     \* the configuration the daemon holds
    served,     \* what each name was established from (servers and served)
    failed,     \* names that are not established and why (reason left out)
    outcome,    \* what the last pass reported for each name
    strays,     \* unmounts the last pass reported as failed, of no workspace
    all,        \* the mount table as read at the start of the pass
    allStale,   \* those of it that were stale
    held,       \* directories this pass vouches for
    gone,       \* directories this pass has released
    at,         \* position in the file of the workspace being visited
    nth,        \* folders of it mounted so far
    todo,       \* directories a loop of the pass has still to unmount
    act,        \* the action to report if the workspace is established
    disturbed,  \* the machine's mounts were touched since the pass began
    events      \* steps taken by the rest of the machine

passVars == <<all, allStale, held, gone, at, nth, todo, act>>
daemonVars == <<pc, config, served, failed, outcome, strays>>
vars == <<file, table, daemonVars, passVars, disturbed, events>>

----------------------------------------------------------------------------
\* Directories.

FolderDir(w, i) == <<w.target, w.folders[i]>>
RealDir(d) == <<Real[d[1]], d[2]>>
FolderDirs(w) == {FolderDir(w, i) : i \in 1..Len(w.folders)}
KernelDirs(w) == {RealDir(d) : d \in FolderDirs(w)}
Under(ds, t) == {d \in ds : d[1] \in Inside[t]}

\* A mistake: compare what the workspace is called and where it is, no more.
SameAsByPlace(w, v) == v # None /\ w.name = v.name /\ w.target = v.target

\* Equal in everything that decides what is served; enabled does not.
SameAs(w, v) ==
    /\ v # None
    /\ <<w.name, w.target, w.folders, w.stack>> = <<v.name, v.target, v.folders, v.stack>>

Listed == {d \in Dirs : table[d] # "absent"}
Unmountable(d) == table[d] \notin {"absent", "other"}
Unmounted(ds) == [d \in Dirs |-> IF d \in ds /\ Unmountable(d) THEN "absent" ELSE table[d]]

\* go-fuse's Server.Unmount of the kernel directories ds: by path, never lazy.
\* A busy mount stays, and its error is dropped by the callers below.
ServerUnmount(ds) == \E stuck \in SUBSET (ds \cap Contended) : table' = Unmounted(ds \ stuck)

----------------------------------------------------------------------------
\* The daemon between passes.

\* What a pass may report for a workspace, and before it has reported anything.
Action == {"none", "established", "re-established", "unchanged", "released",
           "disabled", "failed"}

MachineType ==
    /\ file \in Configs \cup {Invalid}
    /\ table \in [Dirs -> MountState]
    /\ disturbed \in BOOLEAN
    /\ events \in Nat

DaemonType ==
    /\ pc \in {"down", "idle", "drop", "visit", "under", "serve", "sweep"}
    /\ config \in Configs \cup {<<>>}
    /\ served \in [Names -> Workspaces \cup {None}]
    /\ failed \in SUBSET Names
    /\ outcome \in [Names -> Action]
    /\ strays \in SUBSET Dirs

PassType ==
    /\ all \in SUBSET Dirs /\ allStale \in SUBSET Dirs
    /\ held \in SUBSET Dirs /\ gone \in SUBSET Dirs /\ todo \in SUBSET Dirs
    /\ act \in {"none", "established", "re-established"}

\* The pass is at an entry of the file, or past the last; W is only used at one.
InRange ==
    /\ at \in 1..(Len(config) + 1) /\ nth \in Nat
    /\ pc \in {"down", "idle", "drop"} => at = 1
    /\ pc \in {"under", "serve"} => at <= Len(config)
    /\ IF pc = "serve" THEN nth <= Len(config[at].folders) ELSE nth = 0

TypeOK == MachineType /\ DaemonType /\ PassType /\ InRange

NoneServed == [n \in Names |-> None]
NoOutcome == [n \in Names |-> "none"]

Init ==
    /\ file \in Configs
    /\ table \in {t \in [Dirs -> {"absent", "stale", "foreign", "other"}] :
                    \A d \in Dirs \ Leftovers : t[d] = "absent"}
    /\ pc = "down" /\ config = <<>>
    /\ served = NoneServed /\ failed = {} /\ outcome = NoOutcome /\ strays = {}
    /\ all = {} /\ allStale = {} /\ held = {} /\ gone = {} /\ todo = {}
    /\ at = 1 /\ nth = 0 /\ act = "none"
    /\ disturbed = FALSE
    /\ events = 0

\* What the last pass reported is dropped: d.failed is cleared, the outcomes are
\* a new list.
ClearReports == failed' = {} /\ outcome' = NoOutcome /\ strays' = {}

\* Start and Reload: load the file, then read the mount table and begin.
BeginPass ==
    /\ pc \in {"down", "idle"}
    /\ file # Invalid
    /\ config' = file
    /\ all' = Listed
    /\ allStale' = {d \in Dirs : table[d] = "stale"}
    /\ ClearReports
    /\ pc' = "drop"
    /\ disturbed' = FALSE
    /\ UNCHANGED <<file, table, served, held, gone, at, nth, todo, act, events>>

\* A file that does not resolve is reported to whoever asked, and changes nothing.
BeginRefused ==
    /\ pc \in {"down", "idle"}
    /\ file = Invalid
    /\ UNCHANGED vars

\* A pass that cannot read the mount table returns before it changes anything,
\* with the new configuration already in place; a daemon that starts so serves.
TableUnreadable ==
    /\ pc \in {"down", "idle"}
    /\ file # Invalid
    /\ events < MaxEvents
    /\ config' = file
    /\ pc' = "idle"
    /\ disturbed' = TRUE
    /\ events' = events + 1
    /\ UNCHANGED <<file, table, served, failed, outcome, strays, passVars>>

----------------------------------------------------------------------------
\* The steps of a pass.

\* Two mistakes: the server is forgotten without being unmounted; the released
\* directories are not recorded.
ForgetWorkspace(n) ==
    /\ served' = [served EXCEPT ![n] = None]
    /\ UNCHANGED <<table, gone>>

ReleaseSilently(n) ==
    /\ IF served[n] = None THEN UNCHANGED table ELSE ServerUnmount(KernelDirs(served[n]))
    /\ served' = [served EXCEPT ![n] = None]
    /\ UNCHANGED gone

\* releaseWorkspace: unmount what is served under name n, and forget it whether
\* or not the unmount worked.
ReleaseWorkspace(n) ==
    \/ /\ served[n] = None
       /\ UNCHANGED <<table, served, gone>>
    \/ /\ served[n] # None
       /\ ServerUnmount(KernelDirs(served[n]))
       /\ gone' = gone \cup FolderDirs(served[n])
       /\ served' = [served EXCEPT ![n] = None]

DropUndeclared(n) ==
    /\ pc = "drop"
    /\ served[n] # None
    /\ n \notin NamesOf(config)
    /\ ReleaseWorkspace(n)
    /\ outcome' = [outcome EXCEPT ![n] = "released"]
    /\ UNCHANGED <<file, pc, config, failed, strays, all, allStale, held, at, nth,
                   todo, act, disturbed, events>>

EnterVisit ==
    /\ pc = "drop"
    /\ \A n \in Names \ NamesOf(config) : served[n] = None
    /\ pc' = "visit"
    /\ UNCHANGED <<file, table, config, served, failed, outcome, strays, passVars,
                   disturbed, events>>

Visiting == pc = "visit" /\ at <= Len(config)
W == config[at]

\* stopServing
VisitDisabled ==
    /\ Visiting
    /\ ~W.enabled
    /\ ReleaseWorkspace(W.name)
    /\ outcome' = [outcome EXCEPT ![W.name] =
                     IF served[W.name] # None \/ Under(all, W.target) # {}
                     THEN "released" ELSE "disabled"]
    /\ at' = at + 1
    /\ UNCHANGED <<file, pc, config, failed, strays, all, allStale, held, nth, todo,
                   act, disturbed, events>>

\* Two mistakes: a stale mount counts as live; any stale mount makes every
\* workspace out of date.
HoldsStale(w) == SameAs(w, served[w.name]) /\ FolderDirs(w) \subseteq all

HoldsIfNoneStale(w) == HoldsStale(w) /\ allStale = {}

\* holds: this exact declaration was established and each of its folders was
\* live when the table was read.
Holds(w) == SameAs(w, served[w.name]) /\ FolderDirs(w) \subseteq all \ allStale

\* A mistake: the directories of the workspace are not marked as vouched for.
VouchForNothing(w) == held' = held

VouchFor(w) == held' = held \cup FolderDirs(w)

VisitHeld ==
    /\ Visiting
    /\ W.enabled
    /\ Holds(W)
    /\ VouchFor(W)
    /\ outcome' = [outcome EXCEPT ![W.name] = "unchanged"]
    /\ at' = at + 1
    /\ UNCHANGED <<file, table, pc, config, served, failed, strays, all, allStale, gone,
                   nth, todo, act, disturbed, events>>

VisitOutOfDate ==
    /\ Visiting
    /\ W.enabled
    /\ ~Holds(W)
    /\ act' = IF served[W.name] # None \/ Under(all, W.target) # {}
              THEN "re-established" ELSE "established"
    /\ ReleaseWorkspace(W.name)
    /\ todo' = Under(all, W.target) \ gone'
    /\ pc' = "under"
    /\ UNCHANGED <<file, config, failed, outcome, strays, all, allStale, held, at, nth,
                   disturbed, events>>

\* releaseUnder, one mount of its loop: mount.Unmount falls back to a lazy
\* detach, so it fails only where nothing is mounted or another user's mount is.
ReleaseUnder(d) ==
    /\ pc = "under"
    /\ d \in todo
    /\ table' = Unmounted({d})
    /\ gone' = IF Unmountable(d) THEN gone \cup {d} ELSE gone
    /\ todo' = todo \ {d}
    /\ UNCHANGED <<file, daemonVars, all, allStale, held, at, nth, act, disturbed, events>>

EnterServe ==
    /\ pc = "under"
    /\ todo = {}
    /\ pc' = "serve"
    /\ UNCHANGED <<file, table, config, served, failed, outcome, strays, passVars,
                   disturbed, events>>

\* mount.Serve, one folder of its loop.
Occupied(d) == table[d] # "absent" \/ table[RealDir(d)] # "absent"

ServeFolder ==
    /\ pc = "serve"
    /\ nth < Len(W.folders)
    /\ LET d == FolderDir(W, nth + 1)
       IN  /\ ~Occupied(d)
           /\ table' = [table EXCEPT ![RealDir(d)] = W.stack]
    /\ nth' = nth + 1
    /\ UNCHANGED <<file, daemonVars, all, allStale, held, gone, at, todo, act,
                   disturbed, events>>

\* A mistake: the next workspace starts with the folders of this one counted.
NextEntryCounted == pc' = "visit" /\ at' = at + 1 /\ nth' = nth /\ act' = "none"

NextEntry == pc' = "visit" /\ at' = at + 1 /\ nth' = 0 /\ act' = "none"

MountedSoFar == {RealDir(FolderDir(W, i)) : i \in 1..nth}

\* A source that cannot be read fails the workspace before any folder is
\* mounted; a directory that is mounted, or cannot be mounted on, fails it after
\* the folders before it, which are released again.
CannotServe ==
    \/ nth = 0 /\ W.stack \in Missing
    \/ /\ nth < Len(W.folders)
       /\ LET d == FolderDir(W, nth + 1) IN Occupied(d) \/ d \in Blocked

\* Server.release, on the way out of Serve.
ReleaseServer(ds) == ServerUnmount(ds)

\* A mistake: one failure fails every workspace of the file.
FailAll(w) ==
    /\ failed' = failed \cup {v.name : v \in {e \in Declared(config) : e.enabled}}
    /\ outcome' = [outcome EXCEPT ![w.name] = "failed"]

ReportFailed(w) ==
    /\ failed' = failed \cup {w.name}
    /\ outcome' = [outcome EXCEPT ![w.name] = "failed"]

ServeFails ==
    /\ pc = "serve"
    /\ CannotServe
    /\ ReleaseServer(MountedSoFar)
    /\ ReportFailed(W)
    /\ NextEntry
    /\ UNCHANGED <<file, config, served, strays, all, allStale, held, gone, todo,
                   disturbed, events>>

ServeDone ==
    /\ pc = "serve"
    /\ nth = Len(W.folders)
    /\ served' = [served EXCEPT ![W.name] = W]
    /\ VouchFor(W)
    /\ outcome' = [outcome EXCEPT ![W.name] = act]
    /\ NextEntry
    /\ UNCHANGED <<file, table, config, failed, strays, all, allStale, gone, todo,
                   disturbed, events>>

\* A mistake: only what is stale is swept.
LeftStale == allStale \ (held \cup gone)

Left == all \ (held \cup gone)

EnterSweep ==
    /\ pc = "visit"
    /\ at > Len(config)
    /\ todo' = Left
    /\ pc' = "sweep"
    /\ UNCHANGED <<file, table, config, served, failed, outcome, strays, all, allStale,
                   held, gone, at, nth, act, disturbed, events>>

Sweep(d) ==
    /\ pc = "sweep"
    /\ d \in todo
    /\ table' = Unmounted({d})
    /\ strays' = IF Unmountable(d) THEN strays ELSE strays \cup {d}
    /\ todo' = todo \ {d}
    /\ UNCHANGED <<file, pc, config, served, failed, outcome, all, allStale, held, gone,
                   at, nth, act, disturbed, events>>

EndPass ==
    /\ pc = "sweep"
    /\ todo = {}
    /\ pc' = "idle"
    /\ all' = {} /\ allStale' = {} /\ held' = {} /\ gone' = {} /\ at' = 1
    /\ UNCHANGED <<file, table, config, served, failed, outcome, strays, nth, todo, act,
                   disturbed, events>>

PassStep ==
    \/ \E n \in Names : DropUndeclared(n)
    \/ EnterVisit
    \/ VisitDisabled \/ VisitHeld \/ VisitOutOfDate
    \/ \E d \in Dirs : ReleaseUnder(d)
    \/ EnterServe \/ ServeFolder \/ ServeFails \/ ServeDone
    \/ EnterSweep
    \/ \E d \in Dirs : Sweep(d)
    \/ EndPass

----------------------------------------------------------------------------
\* The rest of the machine, and the end of a daemon.

\* A process that ends leaves its mounts behind, stale, and its memory is lost.
Exit(t) ==
    /\ table' = [d \in Dirs |-> IF t[d] \in Stacks THEN "stale" ELSE t[d]]
    /\ pc' = "down" /\ config' = <<>>
    /\ served' = NoneServed /\ failed' = {} /\ outcome' = NoOutcome /\ strays' = {}
    /\ all' = {} /\ allStale' = {} /\ held' = {} /\ gone' = {} /\ todo' = {}
    /\ at' = 1 /\ nth' = 0 /\ act' = "none"
    /\ disturbed' = FALSE
    /\ events' = events + 1
    /\ UNCHANGED file

Crash ==
    /\ pc # "down"
    /\ events < MaxEvents
    /\ Exit(table)

ServedDirs == UNION {KernelDirs(served[n]) : n \in {m \in Names : served[m] # None}}

\* Wait's way out: releaseEverything, then exit.
Stop ==
    /\ pc = "idle"
    /\ events < MaxEvents
    /\ \E stuck \in SUBSET (ServedDirs \cap Contended) : Exit(Unmounted(ServedDirs \ stuck))

Edit(c) ==
    /\ events < MaxEvents
    /\ file # c
    /\ file' = c
    /\ events' = events + 1
    /\ UNCHANGED <<table, daemonVars, passVars, disturbed>>

\* A mount is unmounted by hand, its FUSE connection is severed, or another
\* process mounts an airfs view.
Disturb(d, s) ==
    /\ events < MaxEvents
    /\ \/ s = "absent" /\ table[d] # "absent"
       \/ s = "stale" /\ table[d] \in Stacks \cup {"foreign"}
       \/ s \in {"foreign", "other"} /\ table[d] = "absent" /\ d \in Intruders
    /\ table' = [table EXCEPT ![d] = s]
    /\ disturbed' = TRUE
    /\ events' = events + 1
    /\ UNCHANGED <<file, daemonVars, passVars>>

Next ==
    \/ BeginPass
    \/ BeginRefused
    \/ TableUnreadable
    \/ PassStep
    \/ Crash
    \/ Stop
    \/ \E c \in Configs \cup {Invalid} : Edit(c)
    \/ \E d \in Dirs, s \in Alien : Disturb(d, s)

Spec == Init /\ [][Next]_vars

\* reconcile runs to its end once it has begun: it takes no lock but the one it
\* holds, and each of its loops is over a list fixed before the loop.  Nothing
\* obliges anyone to reload, so BeginPass has no fairness.
FairSpec == Spec /\ WF_vars(PassStep)

----------------------------------------------------------------------------
\* What reconciliation promises.

\* A pass has ended and nobody has touched a mount since it read the table.
Settled == pc = "idle" /\ ~disturbed

Wanted == {w \in Declared(config) : w.enabled}

Serving(w) == \A d \in KernelDirs(w) : table[d] = w.stack

\* Every live mount of the daemon is one its memory can release: it belongs to a
\* workspace recorded as served, or to the one being established at this moment.
\* Only a mount that was busy when it was released may be forgotten.  Otherwise a
\* view would live on that no later reload or stop of this daemon knows about.
AccountedBy(d, w) == d \in KernelDirs(w) /\ table[d] = w.stack
OwnMountsAccounted ==
    \A d \in Dirs \ Contended :
        table[d] \in Stacks =>
            \/ \E n \in Names : served[n] # None /\ AccountedBy(d, served[n])
            \/ pc = "serve" /\ d \in MountedSoFar /\ table[d] = W.stack

\* A workspace that is wanted, was established from the same declaration and has
\* all its folders live is left alone by every step of a pass: "Adding a
\* workspace to the file must not disturb the one currently being read by a
\* running agent" (daemon.go), and reloading an unchanged file does nothing.
HeldLive(w) == SameAs(w, served[w.name]) /\ Serving(w)
LeaveAlone ==
    [][PassStep => \A w \in Wanted :
         HeldLive(w) => \A d \in KernelDirs(w) : table'[d] = table[d]]_vars

\* "reconcile makes what is mounted match what is declared" (daemon.go), first
\* half: once a pass has ended, each folder of each enabled workspace that was
\* not reported as failed is mounted, live, and serves the declared sources.
WantedIsMounted == Settled => \A w \in Wanted : w.name \notin failed => Serving(w)

\* Second half: nothing else is mounted, but for another user's mounts, reported
\* as failures, and mounts that were busy.
NothingElseMounted ==
    Settled => \A d \in Dirs \ Contended :
        table[d] # "absent" =>
            \/ d \in strays /\ table[d] = "other"
            \/ \E w \in Wanted : w.name \notin failed /\ d \in KernelDirs(w)

\* "A workspace that cannot be established fails that workspace and no other":
\* a failed workspace has a reason of its own, never one left over from an
\* earlier pass or made by another workspace.
RepeatsFolder(w) == \E i, j \in 1..Len(w.folders) : i # j /\ w.folders[i] = w.folders[j]
OwnReason(w) ==
    \/ w.stack \in Missing
    \/ FolderDirs(w) \cap (Blocked \cup Contended) # {}
    \/ \E d \in KernelDirs(w) : table[d] = "other"
    \/ RepeatsFolder(w)
FailsAlone ==
    Settled => \A n \in failed : \E w \in Wanted : w.name = n /\ OwnReason(w)

\* "unmounting it a second time fails, which would report a failure for work
\* that succeeded": a mount reported as impossible to release is another user's.
StraysAreOthers == Settled => \A d \in strays : table[d] = "other"

\* If the rest of the machine calms down and reloads keep coming, the machine
\* ends up mounted as declared, whatever a crash, a busy mount or an unmount by
\* hand left behind: passes do not undo each other's work.
MountedAsDeclared ==
    /\ config = file /\ ~disturbed
    /\ \A w \in Wanted : w.name \notin failed => Serving(w)
    /\ \A d \in Dirs : table[d] # "absent" =>
            \/ table[d] = "other"
            \/ \E w \in Wanted : d \in KernelDirs(w)
Heals == []<>(pc = "drop") => <>[](pc = "idle" => MountedAsDeclared)

----------------------------------------------------------------------------
\* Why a pass leaves a held workspace alone.  It does so under three conditions
\* that the code does not enforce.  Without the first, every pass mounts anew
\* what is reached through a link; of two entries of one name, the second
\* releases what the first one mounted in the same pass; and without the last,
\* an entry releases what an earlier one has mounted (the run ReconcileReuse).

\* No target is reached through a symbolic link.
Canonical == \A t \in Targets : Real[t] = t

\* No two entries of a file have one name.
UniqueNames == \A c \in Configs : \A i, j \in 1..Len(c) : c[i].name = c[j].name => i = j

\* A file gives a target to a workspace only when the one that had it, or a
\* target overlapping it, under another file is no longer declared.
NoReuse == \A c, e \in Configs : \A w \in Declared(c), v \in Declared(e) :
    w.name # v.name /\ Overlap(w.target, v.target) => w.name \notin NamesOf(e)

InPass == pc \in {"drop", "visit", "under", "serve", "sweep"}
Visited(n) == \E i \in 1..(at - 1) : config[i].name = n

\* The record of a name is a workspace of that name, and two records never
\* overlap.
RecordsApart ==
    /\ \A n \in Names : served[n] # None => served[n].name = n
    /\ \A m, n \in Names :
         m # n /\ served[m] # None /\ served[n] # None
         => ~Overlap(served[m].target, served[n].target)

\* From the first visit on, what is recorded is declared.
RecordsDeclared ==
    InPass /\ pc # "drop" => \A n \in Names : served[n] # None => n \in NamesOf(config)

\* What a pass has visited and recorded, it vouches for.
VisitedHeld ==
    InPass => \A i \in 1..(at - 1) :
        config[i].enabled /\ served[config[i].name] # None => FolderDirs(config[i]) \subseteq held

\* Of what a pass has not visited yet, the live mounts are those it read.
UnvisitedRead ==
    InPass => \A n \in Names : served[n] # None /\ ~Visited(n) =>
        \A d \in FolderDirs(served[n]) : table[d] \in Stacks => d \in all \ allStale

\* What the loops of a pass unmount.
TodoOutside ==
    /\ pc = "under" => todo \subseteq Under(all, W.target)
    /\ pc = "sweep" => at = Len(config) + 1 /\ todo \cap held = {}

\* A workspace is not recorded as served while it is being established.
NotServedYet == pc \in {"under", "serve"} => served[W.name] = None

PassInv == NotServedYet /\ RecordsApart /\ RecordsDeclared /\ VisitedHeld
           /\ UnvisitedRead /\ TodoOutside

----------------------------------------------------------------------------
\* Why what is mounted when a pass ends is what is declared, if nobody touched a
\* mount since the pass began.  One more condition, on the machine: where a file
\* may mount a workspace, no other process mounts an airfs view, which a pass
\* would take for its own.
Undisputed == Intruders \cap UNION {KernelDirs(w) : w \in Workspaces} = {}

Calm == InPass /\ ~disturbed

\* Nothing is remembered of a pass that has ended.
NothingKept == ~InPass => all = {} /\ held = {} /\ gone = {}

\* What the pass read and has not released is still mounted, and it mounts
\* nothing there; a mount reported as impossible to release is another user's.
StillListed ==
    /\ Calm => \A d \in IF pc = "sweep" THEN todo ELSE all \ gone : table[d] # "absent"
    /\ Calm /\ pc = "serve" => MountedSoFar \cap (all \ gone) = {}
    /\ ~disturbed => \A d \in strays : table[d] = "other"

\* No one else's view is where a workspace is recorded or being established.
RecordedMine ==
    /\ \A n \in Names : served[n] # None =>
         \A d \in FolderDirs(served[n]) : table[d] \notin {"foreign", "other"}
    /\ pc = "serve" => \A d \in MountedSoFar : table[d] \notin {"foreign", "other"}

\* A workspace is established where the pass has released all it could.
PlaceCleared ==
    pc \in {"under", "serve"} =>
        /\ W.enabled
        /\ todo \subseteq Under(all, W.target)
        /\ pc = "serve" => todo = {}
        /\ ~disturbed => \A d \in Under(all, W.target) \ (gone \cup todo) : table[d] = "other"

\* A directory of an entry the pass has visited and established.
Stands(d) == \E i \in 1..(at - 1) :
    config[i].enabled /\ config[i].name \notin failed /\ d \in FolderDirs(config[i])

\* Every mount is one the pass read and has still to deal with, or one it vouches
\* for, or one it has just made.
MountsKnown ==
    Calm =>
        /\ \A d \in held : Stands(d)
        /\ \A d \in Dirs \ Contended : table[d] # "absent" =>
             \/ d \in IF pc = "sweep" THEN todo \cup strays ELSE all \ gone
             \/ Stands(d)
             \/ pc = "serve" /\ d \in MountedSoFar

\* What has failed so far was visited, and has a reason of its own.
FailedVisited ==
    Calm => \A n \in failed : \E i \in 1..(at - 1) :
        config[i].name = n /\ config[i].enabled /\ OwnReason(config[i])

\* A view of this daemon found where a workspace is recorded is that workspace's,
\* and so is one found where it is being established.
RecordedOwn ==
    /\ \A n \in Names : served[n] # None =>
         \A d \in FolderDirs(served[n]) : table[d] \in Stacks => table[d] = served[n].stack
    /\ pc = "serve" => \A d \in MountedSoFar :
         table[d] \in Stacks \/ ~disturbed => table[d] = W.stack

\* What was live when the table was read is live until it is visited.
UnvisitedLive ==
    Calm => \A n \in Names : served[n] # None /\ ~Visited(n) =>
        \A d \in FolderDirs(served[n]) \cap (all \ allStale) : table[d] = served[n].stack

\* What has been visited and has not failed is established and live.
VisitedLive ==
    Calm => \A i \in 1..(at - 1) :
        config[i].enabled /\ config[i].name \notin failed => HeldLive(config[i])

SettleInv == NothingKept /\ StillListed /\ RecordedMine /\ PlaceCleared /\ MountsKnown
             /\ FailedVisited /\ RecordedOwn /\ UnvisitedLive /\ VisitedLive

----------------------------------------------------------------------------
\* What reconciliation implements.

\* A workspace as far as SameAs looks at it, and the directories it is to have.
Plan(w) == <<w.name, w.target, w.folders, w.stack>>
Plans == {Plan(w) : w \in Workspaces}
PlanDirs == [p \in Plans |-> {RealDir(<<p[2], p[3][i]>>) : i \in 1..Len(p[3])}]
PlanStack == [p \in Plans |-> p[4]]

\* What is declared and enabled, and what was established and is live.
Goal == {Plan(w) : w \in Wanted}
Established == {n \in Names : served[n] # None}
Up == {Plan(served[n]) : n \in {m \in Established : Serving(served[m])}}

M == INSTANCE Mounted WITH goal <- Goal, up <- Up, outside <- events,
                           At <- PlanDirs, Stack <- PlanStack

\* At every step of every pass, whatever fails and whoever interferes: what is up
\* and still wanted stays up, nothing is mounted over anything or for a
\* workspace that is not wanted, and a workspace is up only as a whole.
Implements == M!Spec

============================================================================
