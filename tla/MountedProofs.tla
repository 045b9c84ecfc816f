--------------------------- MODULE MountedProofs ---------------------------
(***************************************************************************)
(* Reconcile implements Mounted: every step of a pass, of the rest of the  *)
(* machine and of a daemon that ends is a step Mounted allows, or none.    *)
(* The induction is that of ReconcileProofs (LeaveInv), under the same     *)
(* three hypotheses on the files (Plain).                                  *)
(***************************************************************************)
EXTENDS ReconcileProofs

----------------------------------------------------------------------------
\* The refinement mapping.

\* A workspace and its plan have the same directories, stack and identity.
LEMMA PlanOf ==
    ASSUME NEW w \in Workspaces
    PROVE  /\ Plan(w) \in Plans
           /\ PlanDirs[Plan(w)] = KernelDirs(w)
           /\ PlanStack[Plan(w)] = w.stack
  <1>1. Plan(w) \in Plans
    BY DEF Plans
  <1>2. PlanDirs[Plan(w)] = {RealDir(<<w.target, w.folders[i]>>) : i \in 1..Len(w.folders)}
    BY <1>1 DEF PlanDirs, Plan
  <1>3. {RealDir(<<w.target, w.folders[i]>>) : i \in 1..Len(w.folders)} = KernelDirs(w)
    BY DEF KernelDirs, FolderDirs, FolderDir
  <1>4. PlanStack[Plan(w)] = w.stack
    BY <1>1 DEF PlanStack, Plan
  <1> QED BY <1>1, <1>2, <1>3, <1>4

\* Workspaces of one plan are served at the same directories, from the same sources.
LEMMA SamePlan ==
    ASSUME NEW w \in Workspaces, NEW v \in Workspaces, Plan(w) = Plan(v)
    PROVE  SameAs(w, v) /\ KernelDirs(w) = KernelDirs(v) /\ w.stack = v.stack /\ w.name = v.name
  <1>1. /\ w.name = v.name /\ w.target = v.target /\ w.folders = v.folders /\ w.stack = v.stack
    BY DEF Plan
  <1> QED BY <1>1, WorkspaceType DEF SameAs, KernelDirs, FolderDirs, FolderDir

\* What is recorded, and what is declared, is a workspace.
LEMMA Recorded ==
    ASSUME LeaveInv
    PROVE  /\ \A n \in Names : served[n] # None => served[n] \in Workspaces /\ served[n].name = n
           /\ \A w \in Wanted : w \in Workspaces /\ w.name \in Names /\ w \in Declared(config)
           /\ \A p \in Up : \E n \in Names : served[n] # None /\ Serving(served[n]) /\ p = Plan(served[n])
  <1>1. \A n \in Names : served[n] # None => served[n] \in Workspaces /\ served[n].name = n
    BY DEF LeaveInv, AccountInv, TypeOK, DaemonType, PassInv, RecordsApart
  <1>2. \A w \in Wanted : w \in Workspaces /\ w.name \in Names /\ w \in Declared(config)
    BY EntryType, WorkspaceType DEF Wanted, LeaveInv, AccountInv, TypeOK, DaemonType
  <1> QED BY <1>1, <1>2 DEF Up, Established

\* A wanted workspace is up when it was established as declared and is live.
LEMMA UpIsHeld ==
    ASSUME LeaveInv, NEW w \in Wanted, Plan(w) \in Up
    PROVE  HeldLive(w)
  <1>1. w \in Workspaces
    BY Recorded
  <1>2. PICK n \in Names : served[n] # None /\ Serving(served[n]) /\ Plan(w) = Plan(served[n])
    BY Recorded
  <1>3. served[n] \in Workspaces /\ served[n].name = n
    BY <1>2, Recorded
  <1>4. SameAs(w, served[n]) /\ KernelDirs(w) = KernelDirs(served[n])
        /\ w.stack = served[n].stack /\ w.name = n
    BY <1>1, <1>2, <1>3, SamePlan
  <1> QED BY <1>2, <1>4 DEF HeldLive, Serving

\* Records and views that only disappear bring nothing up, and what stays up keeps
\* every directory.
LEMMA UpShrinks ==
    ASSUME LeaveInv,
           \A m \in Names : served'[m] # None => served'[m] = served[m],
           \A d \in Dirs : table'[d] \in Stacks => table'[d] = table[d]
    PROVE  /\ Up' \subseteq Up
           /\ \A p \in Up' : \A d \in PlanDirs[p] : d \in Dirs /\ table'[d] \in Stacks
  <1> SUFFICES ASSUME NEW p \in Up'
               PROVE  p \in Up /\ \A d \in PlanDirs[p] : d \in Dirs /\ table'[d] \in Stacks
    OBVIOUS
  <1>1. PICK n \in Names : served'[n] # None /\ Serving(served[n])' /\ p = Plan(served'[n])
    BY DEF Up, Established
  <1>2. served'[n] = served[n] /\ served[n] \in Workspaces
    BY <1>1, Recorded
  <1>3. KernelDirs(served[n]) \in SUBSET Dirs /\ served[n].stack \in Stacks
    BY <1>2, DirsType, WorkspaceType
  <1>4. \A d \in KernelDirs(served[n]) : table'[d] = served[n].stack
    BY <1>1, <1>2 DEF Serving, KernelDirs, FolderDirs
  <1>5. \A d \in KernelDirs(served[n]) : d \in Dirs /\ table'[d] \in Stacks /\ table'[d] = table[d]
    BY <1>3, <1>4
  <1>6. Serving(served[n])
    BY <1>4, <1>5 DEF Serving
  <1>7. PlanDirs[p] = KernelDirs(served[n])
    BY <1>1, <1>2, PlanOf
  <1> QED BY <1>1, <1>2, <1>5, <1>6, <1>7 DEF Up, Established

\* A record that stays, of a workspace whose views stay, keeps its plan up.
LEMMA UpStays ==
    ASSUME NEW n \in Names, served[n] # None, Serving(served[n]), served'[n] = served[n],
           \A d \in KernelDirs(served[n]) : table'[d] = table[d]
    PROVE  Plan(served[n]) \in Up'
  <1>1. Serving(served[n])'
    BY DEF Serving, KernelDirs, FolderDirs
  <1> QED BY <1>1 DEF Up, Established

\* A step that touches neither records, views, configuration nor events.
LEMMA MapsToStutter ==
    ASSUME UNCHANGED <<table, served, config, events>>
    PROVE  UNCHANGED M!vars
  BY DEF M!vars, Goal, Wanted, Declared, Up, Established, Serving

----------------------------------------------------------------------------
\* Every step of a pass.

\* A workspace is only visited to be served when it is enabled.
ServesEnabled == pc \in {"under", "serve"} => W.enabled
MapInv == LeaveInv /\ ServesEnabled

LEMMA EnabledStep ==
    ASSUME MapInv, [Next]_vars
    PROVE  ServesEnabled'
  <1>1. CASE UNCHANGED <<pc, at, config>>
    BY <1>1 DEF MapInv, ServesEnabled, W
  <1>2. CASE BeginPass \/ TableUnreadable \/ EnterVisit \/ VisitHeld \/ EnterSweep \/ EndPass
             \/ VisitDisabled \/ ServeFails \/ ServeDone \/ Crash \/ Stop
             \/ \E n \in Names : DropUndeclared(n)
    BY <1>2 DEF BeginPass, TableUnreadable, EnterVisit, VisitHeld, EnterSweep, EndPass,
                VisitDisabled, Visiting, ServeFails, ReportFailed, ServeDone, NextEntry, Crash, Stop, Exit,
                DropUndeclared, ServesEnabled
  <1>3. CASE VisitOutOfDate
    BY <1>3 DEF VisitOutOfDate, ServesEnabled, W
  <1>4. CASE EnterServe
    BY <1>4 DEF EnterServe, MapInv, ServesEnabled, W, passVars
  <1>5. ASSUME NEW d \in Dirs, ReleaseUnder(d) \/ Sweep(d) PROVE UNCHANGED <<pc, at, config>>
    BY <1>5 DEF ReleaseUnder, Sweep, daemonVars
  <1>6. CASE ServeFolder
    BY <1>1, <1>6 DEF ServeFolder, daemonVars
  <1>7. ASSUME \/ BeginRefused \/ UNCHANGED vars
               \/ \E c \in Configs \cup {Invalid} : Edit(c)
               \/ \E d \in Dirs, s \in Alien : Disturb(d, s)
        PROVE  UNCHANGED <<pc, at, config>>
    BY <1>7 DEF BeginRefused, vars, Edit, Disturb, daemonVars, passVars
  <1> QED BY <1>1, <1>2, <1>3, <1>4, <1>5, <1>6, <1>7 DEF Next, PassStep

\* A pass keeps the record of a workspace it leaves alone.
LEMMA RecordKept ==
    ASSUME LeaveInv, Plain, PassStep, NEW w \in Wanted, HeldLive(w)
    PROVE  served'[w.name] = served[w.name]
  <1>0. /\ w \in Declared(config) /\ w.enabled /\ w \in Workspaces /\ w.name \in Names
        /\ served[w.name] # None /\ w.name \in NamesOf(config)
        /\ served \in [Names -> Workspaces \cup {None}]
    BY HeldLiveMeans DEF Wanted, NamesOf, LeaveInv, AccountInv, TypeOK, DaemonType
  <1>1. ASSUME NEW n \in Names, n # w.name, ReleaseWorkspace(n)
        PROVE  served'[w.name] = served[w.name]
    BY <1>0, <1>1 DEF ReleaseWorkspace
  <1>2. ASSUME NEW n \in Names, DropUndeclared(n) PROVE served'[w.name] = served[w.name]
    BY <1>0, <1>1, <1>2 DEF DropUndeclared
  <1>3. CASE VisitDisabled
    <2>1. W.name # w.name /\ W.name \in Names /\ ReleaseWorkspace(W.name)
      BY <1>0, <1>3, NameAt DEF VisitDisabled, Visiting
    <2> QED BY <1>1, <2>1
  <1>4. CASE VisitOutOfDate
    <2>1. W.name \in Names /\ ReleaseWorkspace(W.name) /\ InPass
      BY <1>4, NameAt DEF VisitOutOfDate, Visiting, InPass
    <2>2. W.name # w.name
      <3>1. SUFFICES ASSUME W.name = w.name PROVE FALSE
        OBVIOUS
      <3>2. W = w /\ ~Visited(w.name)
        BY <1>0, <1>4, <3>1, NameAt DEF VisitOutOfDate, Visiting
      <3>3. FolderDirs(w) \subseteq all \ allStale
        BY <1>0, <2>1, <3>2, HeldLiveMeans DEF LeaveInv, PassInv, UnvisitedRead
      <3>4. Holds(W)
        BY <3>2, <3>3 DEF Holds, HeldLive
      <3> QED BY <1>4, <3>4 DEF VisitOutOfDate
    <2> QED BY <1>1, <2>1, <2>2
  <1>5. CASE ServeDone
    <2>1. pc = "serve" /\ at <= Len(config) /\ served[W.name] = None
      BY <1>5 DEF ServeDone, LeaveInv, PassInv, NotServedYet, AccountInv, TypeOK, InRange
    <2> QED BY <1>0, <1>5, <2>1 DEF ServeDone
  <1>6. CASE VisitHeld \/ EnterVisit \/ EnterServe \/ ServeFolder \/ ServeFails \/ EnterSweep
             \/ EndPass \/ \E d \in Dirs : ReleaseUnder(d) \/ Sweep(d)
    BY <1>6 DEF VisitHeld, EnterVisit, EnterServe, ServeFolder, ServeFails, ReportFailed, EnterSweep, EndPass,
                ReleaseUnder, Sweep, daemonVars
  <1> QED BY <1>2, <1>3, <1>4, <1>5, <1>6 DEF PassStep

\* A step of a pass that only unmounts, and records nothing new, withdraws.
LEMMA MapsToWithdraw ==
    ASSUME LeaveInv, Plain, PassStep, UNCHANGED <<config, events>>,
           \A m \in Names : served'[m] # None => served'[m] = served[m],
           NEW ds, table' = Unmounted(ds)
    PROVE  M!Withdraw
  <1>1. \A d \in Dirs : table'[d] \in Stacks => d \notin ds /\ table'[d] = table[d]
    BY UnmountedMeans
  <1>2. /\ Up' \subseteq Up
        /\ \A p \in Up' : \A d \in PlanDirs[p] : d \in Dirs /\ table'[d] \in Stacks
    BY <1>1, UpShrinks
  <1>3. Goal' = Goal /\ events' = events
    BY DEF Goal, Wanted, Declared
  <1>4. ASSUME NEW p \in Up \cap Goal PROVE p \in Up'
    <2>1. PICK w \in Wanted : p = Plan(w)
      BY <1>4 DEF Goal
    <2>2. HeldLive(w) /\ w \in Workspaces /\ w.name \in Names /\ w \in Declared(config)
      BY <1>4, <2>1, UpIsHeld, Recorded
    <2>3. served'[w.name] = served[w.name] /\ served[w.name] # None
          /\ \A d \in KernelDirs(w) : table'[d] = table[d]
      BY <2>2, RecordKept, LeftAlone, HeldLiveMeans
    <2>4. /\ Plan(w) = Plan(served[w.name]) /\ KernelDirs(w) = KernelDirs(served[w.name])
          /\ w.stack = served[w.name].stack
      BY <2>2, WorkspaceType DEF HeldLive, SameAs, Plan, KernelDirs, FolderDirs, FolderDir
    <2>5. Serving(served[w.name])
      BY <2>2, <2>4 DEF HeldLive, Serving
    <2> QED BY <2>1, <2>2, <2>3, <2>4, <2>5, UpStays
  <1> DEFINE off == {d \in Dirs : d \in ds /\ Unmountable(d)}
  <1>5. off \in SUBSET {d \in Dirs : table[d] \notin {"absent", "other"}}
    BY DEF Unmountable
  <1>6. table' = M!Without(off)
    BY DEF M!Without, Unmounted
  <1>7. \A p \in Up' : PlanDirs[p] \cap off = {}
    BY <1>1, <1>2
  <1> HIDE DEF off
  <1> QED BY <1>2, <1>3, <1>4, <1>5, <1>6, <1>7 DEF M!Withdraw

LEMMA PassMaps ==
    ASSUME MapInv, Plain, PassStep
    PROVE  [M!Next]_(M!vars)
  <1>0. /\ LeaveInv /\ table \in [Dirs -> MountState]
        /\ served \in [Names -> Workspaces \cup {None}]
    BY DEF MapInv, LeaveInv, AccountInv, TypeOK, MachineType, DaemonType
  <1>1. ASSUME NEW n \in Names, ReleaseWorkspace(n), UNCHANGED <<config, events>>
        PROVE  [M!Next]_(M!vars)
    <2>1. \A m \in Names : served'[m] # None => served'[m] = served[m]
      BY <1>0, <1>1, ReleaseShrinks DEF LeaveInv, AccountInv
    <2>2. CASE UNCHANGED <<table, served, gone>>
      BY <1>1, <2>2, MapsToStutter
    <2>3. ASSUME NEW ds, table' = Unmounted(ds) PROVE M!Next
      BY <1>0, <1>1, <2>1, <2>3, MapsToWithdraw DEF M!Next
    <2> QED BY <1>1, <2>2, <2>3 DEF ReleaseWorkspace, ServerUnmount
  <1>2. CASE (\E n \in Names : DropUndeclared(n)) \/ VisitDisabled \/ VisitOutOfDate
    <2>1. \E n \in Names : ReleaseWorkspace(n) /\ UNCHANGED <<config, events>>
      BY <1>0, <1>2, NameAt DEF DropUndeclared, VisitDisabled, VisitOutOfDate, Visiting
    <2> QED BY <1>1, <2>1
  <1>3. CASE EnterVisit \/ VisitHeld \/ EnterServe \/ EnterSweep \/ EndPass
    <2>1. UNCHANGED <<table, served, config, events>>
      BY <1>3 DEF EnterVisit, VisitHeld, EnterServe, EnterSweep, EndPass
    <2> QED BY <2>1, MapsToStutter
  <1>4. ASSUME NEW d \in Dirs, ReleaseUnder(d) \/ Sweep(d) PROVE M!Next
    <2>1. UNCHANGED <<config, events, served>> /\ table' = Unmounted({d})
      BY <1>4 DEF ReleaseUnder, Sweep, daemonVars
    <2> QED BY <1>0, <2>1, MapsToWithdraw DEF M!Next
  <1>5. CASE ServeFails
    <2>1. UNCHANGED <<config, events, served>>
      BY <1>5 DEF ServeFails, ReportFailed
    <2>2. PICK ds : table' = Unmounted(ds)
      BY <1>5 DEF ServeFails, ReportFailed, ReleaseServer, ServerUnmount
    <2> QED BY <1>0, <2>1, <2>2, MapsToWithdraw DEF M!Next
  <1>6. ASSUME pc = "serve"
        PROVE  /\ W \in Wanted /\ W \in Workspaces /\ W.name \in Names /\ served[W.name] = None
               /\ Plan(W) \in Plans /\ Plan(W) \in Goal \ Up
    <2>1. served[W.name] = None /\ at <= Len(config) /\ W.enabled
      BY <1>0, <1>6 DEF LeaveInv, PassInv, NotServedYet, AccountInv, TypeOK, InRange, MapInv,
                        ServesEnabled
    <2>2. W \in Wanted /\ W \in Workspaces /\ W.name \in Names
      BY <1>0, <2>1, NameAt DEF Wanted
    <2>3. Plan(W) \notin Up
      BY <1>0, <2>1, <2>2, UpIsHeld, WorkspaceType DEF HeldLive, SameAs
    <2> QED BY <2>1, <2>2, <2>3, PlanOf DEF Goal
  <1>7. CASE ServeFolder
    <2> DEFINE d == RealDir(FolderDir(W, nth + 1))
    <2>1. /\ pc = "serve" /\ nth < Len(W.folders) /\ table[d] = "absent"
          /\ table' = [table EXCEPT ![d] = W.stack] /\ UNCHANGED <<config, served, events>>
      BY <1>7 DEF ServeFolder, Occupied, daemonVars
    <2>2. nth + 1 \in 1..Len(W.folders)
      BY <1>0, <1>6, <2>1, DirsType DEF LeaveInv, AccountInv, TypeOK, InRange
    <2>3. d \in KernelDirs(W) /\ d \in Dirs
      BY <1>6, <2>1, <2>2, DirsType DEF KernelDirs, FolderDirs
    <2>4. ASSUME NEW n \in Names, served[n] # None PROVE d \notin KernelDirs(served[n])
      <3>1. n # W.name /\ n \in NamesOf(config)
        BY <1>0, <1>6, <2>1, <2>4 DEF LeaveInv, PassInv, RecordsDeclared, InPass
      <3>2. W \in Declared(config) /\ served[n] \in Workspaces
        BY <1>0, <1>6, <2>1, <2>4 DEF Wanted
      <3>3. ~Overlap(served[n].target, W.target)
        BY <1>0, <2>4, <3>1, <3>2, RecordedApart
      <3> QED BY <1>6, <2>1, <2>3, <3>2, <3>3, ApartDirs, PlainDirs DEF Plain
    <2>5. ASSUME NEW n \in Names, served[n] # None PROVE Serving(served[n])' <=> Serving(served[n])
      <3>1. KernelDirs(served[n]) \in SUBSET Dirs
        BY <1>0, <2>5, DirsType
      <3>2. \A e \in KernelDirs(served[n]) : table'[e] = table[e]
        BY <1>0, <2>1, <2>4, <2>5, <3>1
      <3> QED BY <2>1, <3>2 DEF Serving, KernelDirs, FolderDirs
    <2>6. Up' = Up
      BY <2>1, <2>5 DEF Up, Established
    <2>7. Goal' = Goal
      BY <2>1 DEF Goal, Wanted, Declared
    <2>8. PlanDirs[Plan(W)] = KernelDirs(W) /\ PlanStack[Plan(W)] = W.stack
      BY <1>6, <2>1, PlanOf
    <2>9. M!Mount(Plan(W), d)
      BY <1>6, <2>1, <2>3, <2>6, <2>7, <2>8 DEF M!Mount
    <2> QED BY <1>6, <2>1, <2>3, <2>9 DEF M!Next
  <1>8. CASE ServeDone
    <2>1. /\ pc = "serve" /\ served' = [served EXCEPT ![W.name] = W]
          /\ UNCHANGED <<table, config, events>>
      BY <1>8 DEF ServeDone
    <2>2. Goal' = Goal
      BY <2>1 DEF Goal, Wanted, Declared
    <2>3. \A n \in Names \ {W.name} : served'[n] = served[n]
      BY <1>0, <1>6, <2>1
    <2>4. served'[W.name] = W /\ W # None
      BY <1>0, <1>6, <2>1, WorkspaceType
    <2>5. Up' = Up \cup {p \in {Plan(W)} : Serving(W)}
      BY <1>6, <2>1, <2>3, <2>4 DEF Up, Established, Serving
    <2>6. CASE ~Serving(W)
      BY <2>1, <2>2, <2>5, <2>6 DEF M!vars
    <2>7. CASE Serving(W)
      <3>1. M!Serves(Plan(W))
        BY <1>6, <2>1, <2>7, PlanOf DEF M!Serves, Serving
      <3>2. M!Complete(Plan(W))
        BY <1>6, <2>1, <2>2, <2>5, <2>7, <3>1 DEF M!Complete
      <3> QED BY <1>6, <2>1, <3>2 DEF M!Next
    <2> QED BY <2>6, <2>7
  <1> QED BY <1>2, <1>3, <1>4, <1>5, <1>7, <1>8 DEF PassStep

----------------------------------------------------------------------------
\* The rest.

LEMMA InitMaps == Init => M!Init
  <1> SUFFICES ASSUME Init PROVE M!Init
    OBVIOUS
  <1>1. Goal = {}
    BY DEF Init, Goal, Wanted, Declared
  <1>2. Up = {}
    BY DEF Init, NoneServed, Up, Established
  <1>3. table \in [Dirs -> Alien]
    BY DEF Init, Alien
  <1> QED BY <1>1, <1>2, <1>3 DEF Init, M!Init

LEMMA AdoptMaps ==
    ASSUME MapInv, TypeOK', UNCHANGED <<table, served>>, events' \in {events, events + 1}
    PROVE  M!Adopt
  <1>1. Goal' \subseteq Plans
    <2>1. \A w \in Wanted' : w \in Workspaces
      BY DEF TypeOK, DaemonType, Wanted, Declared, Workspaces
    <2> QED BY <2>1 DEF Goal, Plans
  <1>2. Up' = Up
    BY DEF Up, Established, Serving
  <1> QED BY <1>1, <1>2 DEF M!Adopt

LEMMA ExitMaps ==
    ASSUME NEW ds, Exit(Unmounted(ds)) \/ Exit(table)
    PROVE  M!End
  <1>1. /\ config' = <<>> /\ served' = NoneServed /\ events' = events + 1
    BY DEF Exit
  <1>2. Goal' = {}
    BY <1>1 DEF Goal, Wanted, Declared
  <1>3. Up' = {}
    BY <1>1 DEF NoneServed, Up, Established
  <1>4. ASSUME NEW t, Exit(t), NEW off \in SUBSET Dirs, \A d \in Dirs : t[d] = M!Without(off)[d]
        PROVE  M!End
    BY <1>1, <1>2, <1>3, <1>4 DEF Exit, M!End
  <1>5. CASE Exit(table)
    <2>1. \A d \in Dirs : table[d] = M!Without({})[d]
      BY DEF M!Without
    <2> QED BY <1>4, <1>5, <2>1
  <1>6. CASE Exit(Unmounted(ds))
    <2>1. {d \in Dirs : d \in ds /\ Unmountable(d)} \in SUBSET Dirs
      OBVIOUS
    <2>2. \A d \in Dirs : Unmounted(ds)[d]
                           = M!Without({e \in Dirs : e \in ds /\ Unmountable(e)})[d]
      BY DEF Unmounted, M!Without
    <2> QED BY <1>4, <1>6, <2>1, <2>2
  <1> QED BY <1>5, <1>6

LEMMA DisturbMaps ==
    ASSUME MapInv, NEW d \in Dirs, NEW s \in Alien, Disturb(d, s)
    PROVE  M!Interfere(d, s)
  <1>1. /\ table' = [table EXCEPT ![d] = s] /\ UNCHANGED <<config, served>>
        /\ events' = events + 1
    BY DEF Disturb, daemonVars
  <1>2. Goal' = Goal
    BY <1>1 DEF Goal, Wanted, Declared
  <1>3. ASSUME NEW n \in Names, served[n] # None
        PROVE  /\ PlanDirs[Plan(served[n])] = KernelDirs(served[n])
               /\ Serving(served[n])' <=> Serving(served[n]) /\ d \notin KernelDirs(served[n])
    <2>1. /\ served[n] \in Workspaces /\ KernelDirs(served[n]) \in SUBSET Dirs
          /\ served[n].stack \in Stacks /\ table \in [Dirs -> MountState]
      BY <1>3, Recorded, DirsType, WorkspaceType DEF MapInv, LeaveInv, AccountInv, TypeOK,
         MachineType
    <2>2. Serving(served[n])' <=> \A e \in KernelDirs(served[n]) : table'[e] = served[n].stack
      BY <1>1 DEF Serving, KernelDirs, FolderDirs
    <2>3. s # served[n].stack
      BY <2>1, ConfigAssumption
    <2>4. \A e \in KernelDirs(served[n]) : table'[e] = IF e = d THEN s ELSE table[e]
      BY <1>1, <2>1
    <2> QED BY <2>1, <2>2, <2>3, <2>4, PlanOf DEF Serving
  <1>4. Up' = {p \in Up : d \notin PlanDirs[p]}
    BY <1>1, <1>3 DEF Up, Established
  <1> QED BY <1>1, <1>2, <1>4 DEF M!Interfere

LEMMA StepMaps ==
    ASSUME MapInv, Plain, TypeOK', [Next]_vars
    PROVE  [M!Next]_(M!vars)
  <1>1. CASE BeginPass \/ TableUnreadable \/ \E c \in Configs \cup {Invalid} : Edit(c)
    <2>1. UNCHANGED <<table, served>> /\ events' \in {events, events + 1}
      BY <1>1 DEF BeginPass, TableUnreadable, Edit, daemonVars
    <2> QED BY <2>1, AdoptMaps DEF M!Next
  <1>2. CASE PassStep
    BY <1>2, PassMaps
  <1>3. CASE Crash \/ Stop
    BY <1>3, ExitMaps DEF Crash, Stop, M!Next
  <1>4. CASE \E d \in Dirs, s \in Alien : Disturb(d, s)
    BY <1>4, DisturbMaps DEF M!Next
  <1>5. CASE BeginRefused \/ UNCHANGED vars
    BY <1>5, MapsToStutter DEF BeginRefused, vars, daemonVars
  <1> QED BY <1>1, <1>2, <1>3, <1>4, <1>5 DEF Next

\* Reconciliation implements Mounted, for files that link no target, repeat no name
\* and let no target change hands between workspaces declared together: at no step
\* of any pass, whatever fails, does a workspace that is up and wanted go down.
THEOREM ReconcileImplements ==
    ASSUME Canonical, UniqueNames, NoReuse
    PROVE  Spec => Implements
  <1>0. Plain
    BY DEF Plain
  <1>1. Init => MapInv
    BY LeaveInit DEF Init, MapInv, ServesEnabled
  <1>2. MapInv /\ [Next]_vars => MapInv'
    BY <1>0, LeaveStep, EnabledStep DEF MapInv
  <1>3. MapInv => TypeOK
    BY DEF MapInv, LeaveInv, AccountInv
  <1>4. Init => M!Init
    BY InitMaps
  <1>5. MapInv /\ TypeOK' /\ [Next]_vars => [M!Next]_(M!vars)
    BY <1>0, StepMaps
  <1> QED BY <1>1, <1>2, <1>3, <1>4, <1>5, PTL DEF Spec, Implements, M!Spec

============================================================================
