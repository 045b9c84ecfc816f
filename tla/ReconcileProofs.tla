-------------------------- MODULE ReconcileProofs --------------------------
(***************************************************************************)
(* Proofs about Reconcile for every set of workspaces, every family of     *)
(* configuration files and every machine that satisfies the assumptions of *)
(* that module.                                                            *)
(***************************************************************************)
EXTENDS Reconcile, TLAPS

----------------------------------------------------------------------------
\* Facts about the operators of the model.

\* A file's entries are workspaces, and its length is a number.
LEMMA EntryType ==
    ASSUME NEW c \in Configs \cup {<<>>}
    PROVE  /\ Len(c) \in Nat
           /\ Declared(c) \subseteq Workspaces
           /\ Declared(c) \subseteq Workspace
           /\ \A i \in 1..Len(c) : c[i] \in Declared(c)
  <1>1. CASE c \in Configs
    <2>1. c \in Seq(Declared(c)) /\ Declared(c) \subseteq Workspace
      BY <1>1, ConfigAssumption DEF Valid
    <2>2. Len(c) \in Nat
      BY <2>1
    <2> QED BY <1>1, <2>1, <2>2 DEF Declared, Workspaces
  <1>2. CASE c = <<>>
    BY <1>2 DEF Declared
  <1> QED BY <1>1, <1>2

\* What can be served has the shape of a workspace, and None is not one.
LEMMA WorkspaceType ==
    ASSUME NEW w \in Workspaces
    PROVE  /\ w \in Workspace
           /\ w # None
           /\ w.name \in Names /\ w.target \in Targets /\ w.stack \in Stacks
           /\ w.folders \in Seq(Folders) /\ w.enabled \in BOOLEAN
  <1>1. PICK c \in Configs : w \in Declared(c)
    BY DEF Workspaces
  <1>2. w \in Workspace /\ w # None
    BY <1>1, EntryType, ConfigAssumption
  <1> QED BY <1>2 DEF Workspace

\* The directories of a workspace are directories of the model.
LEMMA DirsType ==
    ASSUME NEW w \in Workspaces
    PROVE  /\ \A i \in 1..Len(w.folders) : FolderDir(w, i) \in Dirs
           /\ FolderDirs(w) \in SUBSET Dirs
           /\ KernelDirs(w) \in SUBSET Dirs
           /\ Len(w.folders) \in Nat
  <1>1. w.target \in Targets /\ w.folders \in Seq(Folders)
    BY WorkspaceType
  <1>2. Len(w.folders) \in Nat /\ \A i \in 1..Len(w.folders) : w.folders[i] \in Folders
    BY <1>1
  <1>3. \A i \in 1..Len(w.folders) : FolderDir(w, i) \in Dirs
    BY <1>1, <1>2 DEF FolderDir, Dirs
  <1>4. FolderDirs(w) \in SUBSET Dirs
    BY <1>3 DEF FolderDirs
  <1>5. \A d \in Dirs : RealDir(d) \in Dirs
    BY PathAssumption DEF Dirs, RealDir
  <1>6. KernelDirs(w) \in SUBSET Dirs
    BY <1>4, <1>5 DEF KernelDirs
  <1> QED BY <1>2, <1>3, <1>4, <1>6

LEMMA RealDirType == \A d \in Dirs : RealDir(d) \in Dirs
  BY PathAssumption DEF Dirs, RealDir

\* Unmounting keeps the shape of the mount table.
LEMMA UnmountedType ==
    ASSUME table \in [Dirs -> MountState], NEW ds
    PROVE  Unmounted(ds) \in [Dirs -> MountState]
  BY DEF Unmounted, MountState, Alien

LEMMA ServerUnmountType ==
    ASSUME table \in [Dirs -> MountState], NEW ds, ServerUnmount(ds)
    PROVE  table' \in [Dirs -> MountState]
  BY UnmountedType DEF ServerUnmount

LEMMA ReleaseType ==
    ASSUME TypeOK, NEW n \in Names, ReleaseWorkspace(n)
    PROVE  /\ table' \in [Dirs -> MountState]
           /\ served' \in [Names -> Workspaces \cup {None}]
           /\ gone' \in SUBSET Dirs
  <1>1. CASE served[n] = None /\ UNCHANGED <<table, served, gone>>
    BY <1>1 DEF TypeOK, MachineType, DaemonType, PassType, InRange
  <1>2. CASE /\ served[n] # None
             /\ ServerUnmount(KernelDirs(served[n]))
             /\ gone' = gone \cup FolderDirs(served[n])
             /\ served' = [served EXCEPT ![n] = None]
    <2>1. served[n] \in Workspaces
      BY <1>2 DEF TypeOK, MachineType, DaemonType, PassType, InRange
    <2>2. FolderDirs(served[n]) \in SUBSET Dirs
      BY <2>1, DirsType
    <2> QED BY <1>2, <2>2, ServerUnmountType DEF TypeOK, MachineType, DaemonType, PassType, InRange
  <1> QED BY <1>1, <1>2 DEF ReleaseWorkspace

----------------------------------------------------------------------------
\* Type correctness.

\* The entry a pass is at is a workspace.
LEMMA VisitedType ==
    ASSUME TypeOK, at <= Len(config)
    PROVE  /\ W \in Workspaces /\ W \in Declared(config)
           /\ W.name \in Names /\ W.target \in Targets /\ W.stack \in Stacks
           /\ FolderDirs(W) \in SUBSET Dirs
           /\ at + 1 \in 1..(Len(config) + 1)
           /\ Len(W.folders) \in Nat
           /\ Len(config) \in Nat
  <1>1. at \in 1..Len(config) /\ Len(config) \in Nat
    BY EntryType DEF TypeOK, MachineType, DaemonType, PassType, InRange
  <1>2. W \in Declared(config) /\ W \in Workspaces
    BY <1>1, EntryType DEF TypeOK, MachineType, DaemonType, PassType, InRange, W
  <1> QED BY <1>1, <1>2, WorkspaceType, DirsType

LEMMA NoOutcomeType == NoOutcome \in [Names -> Action] /\ NoneServed \in [Names -> {None}]
  BY DEF NoOutcome, Action, NoneServed

LEMMA TypeInit == Init => TypeOK
  <1> SUFFICES ASSUME Init PROVE TypeOK
    OBVIOUS
  <1>1. MachineType
    BY DEF Init, MachineType, MountState, Alien
  <1>2. DaemonType
    BY NoOutcomeType DEF Init, DaemonType
  <1>3. PassType
    BY DEF Init, PassType
  <1>4. InRange
    BY DEF Init, InRange
  <1> QED BY <1>1, <1>2, <1>3, <1>4 DEF TypeOK

LEMMA TypeBegin ==
    ASSUME TypeOK, BeginPass \/ TableUnreadable \/ BeginRefused
    PROVE  TypeOK'
  <1>1. CASE BeginPass
    <2>1. config' \in Configs
      BY <1>1 DEF BeginPass, TypeOK, MachineType
    <2>2. Len(config') \in Nat
      BY <2>1, EntryType
    <2>3. MachineType'
      BY <1>1 DEF BeginPass, TypeOK, MachineType
    <2>4. DaemonType'
      BY <1>1, <2>1, NoOutcomeType DEF BeginPass, ClearReports, TypeOK, DaemonType
    <2>5. PassType'
      BY <1>1 DEF BeginPass, TypeOK, PassType, Listed
    <2>6. InRange'
      BY <1>1, <2>2 DEF BeginPass, TypeOK, InRange
    <2> QED BY <2>3, <2>4, <2>5, <2>6 DEF TypeOK
  <1>2. CASE TableUnreadable
    <2>1. config' \in Configs
      BY <1>2 DEF TableUnreadable, TypeOK, MachineType
    <2>2. Len(config') \in Nat
      BY <2>1, EntryType
    <2>3. MachineType'
      BY <1>2 DEF TableUnreadable, TypeOK, MachineType
    <2>4. DaemonType'
      BY <1>2, <2>1 DEF TableUnreadable, TypeOK, DaemonType
    <2>5. PassType'
      BY <1>2 DEF TableUnreadable, TypeOK, PassType, passVars
    <2>6. InRange'
      BY <1>2, <2>2 DEF TableUnreadable, TypeOK, InRange, passVars
    <2> QED BY <2>3, <2>4, <2>5, <2>6 DEF TypeOK
  <1>3. CASE BeginRefused
    BY <1>3 DEF BeginRefused, TypeOK, MachineType, DaemonType, PassType, InRange,
                vars, daemonVars, passVars
  <1> QED BY <1>1, <1>2, <1>3

LEMMA TypeRelease ==
    ASSUME TypeOK, (\E n \in Names : DropUndeclared(n)) \/ VisitDisabled \/ VisitOutOfDate
    PROVE  TypeOK'
  <1>1. ASSUME NEW n \in Names, DropUndeclared(n) PROVE TypeOK'
    <2>1. /\ table' \in [Dirs -> MountState]
          /\ served' \in [Names -> Workspaces \cup {None}]
          /\ gone' \in SUBSET Dirs
      BY <1>1, ReleaseType DEF DropUndeclared
    <2>M. MachineType'
      BY <1>1, <2>1 DEF DropUndeclared, TypeOK, MachineType
    <2>D. DaemonType'
      BY <1>1, <2>1 DEF DropUndeclared, TypeOK, DaemonType, Action
    <2>P. PassType'
      BY <1>1, <2>1 DEF DropUndeclared, TypeOK, PassType
    <2>R. InRange'
      BY <1>1 DEF DropUndeclared, TypeOK, InRange
    <2> QED BY <2>M, <2>D, <2>P, <2>R DEF TypeOK
  <1>2. CASE VisitDisabled
    <2>0. W.name \in Names /\ at + 1 \in 1..(Len(config) + 1)
      BY <1>2, VisitedType DEF VisitDisabled, Visiting
    <2>1. /\ table' \in [Dirs -> MountState]
          /\ served' \in [Names -> Workspaces \cup {None}]
          /\ gone' \in SUBSET Dirs
      BY <1>2, <2>0, ReleaseType DEF VisitDisabled
    <2>M. MachineType'
      BY <1>2, <2>1 DEF VisitDisabled, TypeOK, MachineType
    <2>D. DaemonType'
      BY <1>2, <2>1, <2>0 DEF VisitDisabled, TypeOK, DaemonType, Action
    <2>P. PassType'
      BY <1>2, <2>1 DEF VisitDisabled, TypeOK, PassType
    <2>R. InRange'
      BY <1>2, <2>0 DEF VisitDisabled, TypeOK, InRange, Visiting
    <2> QED BY <2>M, <2>D, <2>P, <2>R DEF TypeOK
  <1>3. CASE VisitOutOfDate
    <2>0. W.name \in Names
      BY <1>3, VisitedType DEF VisitOutOfDate, Visiting
    <2>1. /\ table' \in [Dirs -> MountState]
          /\ served' \in [Names -> Workspaces \cup {None}]
          /\ gone' \in SUBSET Dirs
      BY <1>3, <2>0, ReleaseType DEF VisitOutOfDate
    <2>M. MachineType'
      BY <1>3, <2>1 DEF VisitOutOfDate, TypeOK, MachineType
    <2>D. DaemonType'
      BY <1>3, <2>1 DEF VisitOutOfDate, TypeOK, DaemonType
    <2>P. PassType'
      BY <1>3, <2>1 DEF VisitOutOfDate, TypeOK, PassType, Under
    <2>R. InRange'
      BY <1>3 DEF VisitOutOfDate, TypeOK, InRange, Visiting
    <2> QED BY <2>M, <2>D, <2>P, <2>R DEF TypeOK
  <1> QED BY <1>1, <1>2, <1>3

LEMMA TypeUnmount ==
    ASSUME TypeOK, \E d \in Dirs : ReleaseUnder(d) \/ Sweep(d)
    PROVE  TypeOK'
  <1>1. PICK d \in Dirs : ReleaseUnder(d) \/ Sweep(d)
    OBVIOUS
  <1>2. table' \in [Dirs -> MountState]
    BY <1>1, UnmountedType DEF ReleaseUnder, Sweep, TypeOK, MachineType
  <1>3. CASE ReleaseUnder(d)
    <2>M. MachineType'
      BY <1>3, <1>2 DEF ReleaseUnder, TypeOK, MachineType
    <2>D. DaemonType'
      BY <1>3 DEF ReleaseUnder, TypeOK, DaemonType, daemonVars
    <2>P. PassType'
      BY <1>3 DEF ReleaseUnder, TypeOK, PassType
    <2>R. InRange'
      BY <1>3 DEF ReleaseUnder, TypeOK, InRange, daemonVars
    <2> QED BY <2>M, <2>D, <2>P, <2>R DEF TypeOK
  <1>4. CASE Sweep(d)
    <2>M. MachineType'
      BY <1>4, <1>2 DEF Sweep, TypeOK, MachineType
    <2>D. DaemonType'
      BY <1>4 DEF Sweep, TypeOK, DaemonType
    <2>P. PassType'
      BY <1>4 DEF Sweep, TypeOK, PassType
    <2>R. InRange'
      BY <1>4 DEF Sweep, TypeOK, InRange
    <2> QED BY <2>M, <2>D, <2>P, <2>R DEF TypeOK
  <1> QED BY <1>1, <1>3, <1>4

LEMMA TypeVisit ==
    ASSUME TypeOK, EnterVisit \/ VisitHeld \/ EnterServe \/ EnterSweep \/ EndPass
    PROVE  TypeOK'
  <1>1. CASE EnterVisit
    <2>M. MachineType'
      BY <1>1 DEF EnterVisit, TypeOK, MachineType
    <2>D. DaemonType'
      BY <1>1 DEF EnterVisit, TypeOK, DaemonType
    <2>P. PassType'
      BY <1>1 DEF EnterVisit, TypeOK, PassType, passVars
    <2>R. InRange'
      BY <1>1 DEF EnterVisit, TypeOK, InRange, passVars
    <2> QED BY <2>M, <2>D, <2>P, <2>R DEF TypeOK
  <1>2. CASE VisitHeld
    <2>0. /\ W.name \in Names /\ at + 1 \in 1..(Len(config) + 1)
          /\ FolderDirs(W) \in SUBSET Dirs
      BY <1>2, VisitedType DEF VisitHeld, Visiting
    <2>M. MachineType'
      BY <1>2 DEF VisitHeld, TypeOK, MachineType
    <2>D. DaemonType'
      BY <1>2, <2>0 DEF VisitHeld, TypeOK, DaemonType, Action
    <2>P. PassType'
      BY <1>2, <2>0 DEF VisitHeld, TypeOK, PassType, VouchFor
    <2>R. InRange'
      BY <1>2, <2>0 DEF VisitHeld, TypeOK, InRange, Visiting
    <2> QED BY <2>M, <2>D, <2>P, <2>R DEF TypeOK
  <1>3. CASE EnterServe
    <2>0. Len(W.folders) \in Nat
      BY <1>3, VisitedType DEF EnterServe, TypeOK, InRange
    <2>M. MachineType'
      BY <1>3 DEF EnterServe, TypeOK, MachineType
    <2>D. DaemonType'
      BY <1>3 DEF EnterServe, TypeOK, DaemonType
    <2>P. PassType'
      BY <1>3 DEF EnterServe, TypeOK, PassType, passVars
    <2>R. InRange'
      BY <1>3, <2>0 DEF EnterServe, TypeOK, InRange, passVars, W
    <2> QED BY <2>M, <2>D, <2>P, <2>R DEF TypeOK
  <1>4. CASE EnterSweep
    <2>M. MachineType'
      BY <1>4 DEF EnterSweep, TypeOK, MachineType
    <2>D. DaemonType'
      BY <1>4 DEF EnterSweep, TypeOK, DaemonType
    <2>P. PassType'
      BY <1>4 DEF EnterSweep, TypeOK, PassType, Left
    <2>R. InRange'
      BY <1>4 DEF EnterSweep, TypeOK, InRange
    <2> QED BY <2>M, <2>D, <2>P, <2>R DEF TypeOK
  <1>5. CASE EndPass
    <2>0. Len(config) \in Nat
      BY EntryType DEF TypeOK, DaemonType
    <2>M. MachineType'
      BY <1>5 DEF EndPass, TypeOK, MachineType
    <2>D. DaemonType'
      BY <1>5 DEF EndPass, TypeOK, DaemonType
    <2>P. PassType'
      BY <1>5 DEF EndPass, TypeOK, PassType
    <2>R. InRange'
      BY <1>5, <2>0 DEF EndPass, TypeOK, InRange
    <2> QED BY <2>M, <2>D, <2>P, <2>R DEF TypeOK
  <1> QED BY <1>1, <1>2, <1>3, <1>4, <1>5

LEMMA TypeServe ==
    ASSUME TypeOK, ServeFolder \/ ServeFails \/ ServeDone
    PROVE  TypeOK'
  <1>0. /\ W \in Workspaces /\ W.name \in Names /\ W.stack \in Stacks
        /\ at + 1 \in 1..(Len(config) + 1)
        /\ FolderDirs(W) \in SUBSET Dirs
        /\ Len(W.folders) \in Nat
    BY VisitedType DEF ServeFolder, ServeFails, ReportFailed, ServeDone, TypeOK, InRange
  <1>1. CASE ServeFolder
    <2>0. RealDir(FolderDir(W, nth + 1)) \in Dirs
      BY <1>0, <1>1, DirsType, RealDirType DEF ServeFolder, TypeOK, InRange
    <2>1. table' \in [Dirs -> MountState]
      BY <1>0, <1>1, <2>0 DEF ServeFolder, TypeOK, MachineType, MountState
    <2>M. MachineType'
      BY <1>1, <2>1 DEF ServeFolder, TypeOK, MachineType
    <2>D. DaemonType'
      BY <1>1 DEF ServeFolder, TypeOK, DaemonType, daemonVars
    <2>P. PassType'
      BY <1>1 DEF ServeFolder, TypeOK, PassType
    <2>R. InRange'
      BY <1>1, <1>0 DEF ServeFolder, TypeOK, InRange, daemonVars, W
    <2> QED BY <2>M, <2>D, <2>P, <2>R DEF TypeOK
  <1>2. CASE ServeFails
    <2>1. table' \in [Dirs -> MountState]
      BY <1>2, ServerUnmountType DEF ServeFails, ReportFailed, ReleaseServer, TypeOK, MachineType
    <2>M. MachineType'
      BY <1>2, <2>1 DEF ServeFails, ReportFailed, TypeOK, MachineType
    <2>D. DaemonType'
      BY <1>2, <1>0 DEF ServeFails, ReportFailed, TypeOK, DaemonType, Action, NextEntry
    <2>P. PassType'
      BY <1>2 DEF ServeFails, ReportFailed, TypeOK, PassType, NextEntry
    <2>R. InRange'
      BY <1>2, <1>0 DEF ServeFails, ReportFailed, TypeOK, InRange, NextEntry
    <2> QED BY <2>M, <2>D, <2>P, <2>R DEF TypeOK
  <1>3. CASE ServeDone
    <2>M. MachineType'
      BY <1>3 DEF ServeDone, TypeOK, MachineType
    <2>D. DaemonType'
      BY <1>3, <1>0 DEF ServeDone, TypeOK, DaemonType, Action, NextEntry, PassType
    <2>P. PassType'
      BY <1>3, <1>0 DEF ServeDone, TypeOK, PassType, NextEntry, VouchFor
    <2>R. InRange'
      BY <1>3, <1>0 DEF ServeDone, TypeOK, InRange, NextEntry
    <2> QED BY <2>M, <2>D, <2>P, <2>R DEF TypeOK
  <1> QED BY <1>1, <1>2, <1>3

LEMMA TypeMachine ==
    ASSUME TypeOK,
           \/ Crash \/ Stop
           \/ \E c \in Configs \cup {Invalid} : Edit(c)
           \/ \E d \in Dirs, s \in Alien : Disturb(d, s)
    PROVE  TypeOK'
  <1>1. ASSUME NEW t \in [Dirs -> MountState], Exit(t) PROVE TypeOK'
    <2>1. table' \in [Dirs -> MountState]
      BY <1>1 DEF Exit, MountState, Alien
    <2>2. events' \in Nat
      BY <1>1 DEF Exit, TypeOK, MachineType
    <2>M. MachineType'
      BY <1>1, <2>1, <2>2 DEF Exit, TypeOK, MachineType
    <2>D. DaemonType'
      BY <1>1, NoOutcomeType DEF Exit, TypeOK, DaemonType
    <2>P. PassType'
      BY <1>1 DEF Exit, TypeOK, PassType
    <2>R. InRange'
      BY <1>1 DEF Exit, TypeOK, InRange
    <2> QED BY <2>M, <2>D, <2>P, <2>R DEF TypeOK
  <1>2. CASE Crash
    BY <1>1, <1>2 DEF Crash, TypeOK, MachineType
  <1>3. CASE Stop
    BY <1>1, <1>3, UnmountedType DEF Stop, TypeOK, MachineType
  <1>4. ASSUME NEW c \in Configs \cup {Invalid}, Edit(c) PROVE TypeOK'
    <2>1. events' \in Nat
      BY <1>4 DEF Edit, TypeOK, MachineType
    <2>M. MachineType'
      BY <1>4, <2>1 DEF Edit, TypeOK, MachineType
    <2>D. DaemonType'
      BY <1>4 DEF Edit, TypeOK, DaemonType, daemonVars
    <2>P. PassType'
      BY <1>4 DEF Edit, TypeOK, PassType, passVars
    <2>R. InRange'
      BY <1>4 DEF Edit, TypeOK, InRange, daemonVars, passVars
    <2> QED BY <2>M, <2>D, <2>P, <2>R DEF TypeOK
  <1>5. ASSUME NEW d \in Dirs, NEW s \in Alien, Disturb(d, s) PROVE TypeOK'
    <2>1. events' \in Nat
      BY <1>5 DEF Disturb, TypeOK, MachineType
    <2>2. table' \in [Dirs -> MountState]
      BY <1>5 DEF Disturb, TypeOK, MachineType, MountState
    <2>M. MachineType'
      BY <1>5, <2>1, <2>2 DEF Disturb, TypeOK, MachineType, MountState
    <2>D. DaemonType'
      BY <1>5 DEF Disturb, TypeOK, DaemonType, daemonVars
    <2>P. PassType'
      BY <1>5 DEF Disturb, TypeOK, PassType, passVars
    <2>R. InRange'
      BY <1>5 DEF Disturb, TypeOK, InRange, daemonVars, passVars
    <2> QED BY <2>M, <2>D, <2>P, <2>R DEF TypeOK
  <1> QED BY <1>2, <1>3, <1>4, <1>5

LEMMA TypeStutter == ASSUME TypeOK, UNCHANGED vars PROVE TypeOK'
  BY DEF TypeOK, MachineType, DaemonType, PassType, InRange, vars, daemonVars, passVars

\* Every variable keeps its type, and a pass never leaves the list of workspaces
\* it is visiting.
THEOREM TypeCorrect == Spec => []TypeOK
  <1>1. Init => TypeOK
    BY TypeInit
  <1>2. TypeOK /\ [Next]_vars => TypeOK'
    BY TypeBegin, TypeRelease, TypeUnmount, TypeVisit, TypeServe, TypeMachine, TypeStutter
       DEF Next, PassStep
  <1> QED BY <1>1, <1>2, PTL DEF Spec

----------------------------------------------------------------------------
\* No live mount of the daemon is forgotten.

\* A directory that still carries a view of this daemon after an unmount was not
\* among those unmounted, and carries the same view.
LEMMA UnmountedMeans ==
    ASSUME NEW ds, NEW d \in Dirs, Unmounted(ds)[d] \in Stacks
    PROVE  d \notin ds /\ Unmounted(ds)[d] = table[d]
  BY ConfigAssumption DEF Unmounted, Unmountable, Alien

LEMMA ServerUnmountMeans ==
    ASSUME NEW ds, ServerUnmount(ds), NEW d \in Dirs \ Contended, table'[d] \in Stacks
    PROVE  d \notin ds /\ table'[d] = table[d]
  BY UnmountedMeans DEF ServerUnmount

\* The induction: a workspace is not recorded as served while it is being
\* established, so recording it forgets nothing.
AccountInv == TypeOK /\ OwnMountsAccounted /\ NotServedYet

LEMMA AccountInit == Init => AccountInv
  <1> SUFFICES ASSUME Init PROVE AccountInv
    OBVIOUS
  <1>1. \A d \in Dirs : table[d] \notin Stacks
    BY ConfigAssumption DEF Init, Alien
  <1> QED BY <1>1, TypeInit DEF AccountInv, OwnMountsAccounted, NotServedYet, Init

\* What is not mounted, released or recorded stays accounted for.
LEMMA AccountQuiet ==
    ASSUME AccountInv, UNCHANGED <<table, served>>, pc # "serve", pc' # "under",
           pc' = "serve" => pc = "under" /\ UNCHANGED <<at, config>>
    PROVE  OwnMountsAccounted' /\ NotServedYet'
  BY DEF AccountInv, OwnMountsAccounted, NotServedYet, AccountedBy, W

\* Releasing a workspace, in any step that does it.
LEMMA AccountRelease ==
    ASSUME AccountInv, NEW n \in Names, ReleaseWorkspace(n), pc # "serve", pc' # "serve",
           pc' = "under" => n = W.name /\ UNCHANGED <<at, config>>
    PROVE  OwnMountsAccounted' /\ NotServedYet'
  <1>1. served' = [served EXCEPT ![n] = None]
    BY DEF ReleaseWorkspace, AccountInv, TypeOK, DaemonType
  <1>2. ASSUME NEW d \in Dirs \ Contended, table'[d] \in Stacks
        PROVE  \E m \in Names : /\ served'[m] # None /\ d \in KernelDirs(served'[m])
                               /\ table'[d] = served'[m].stack
    <2>1. table'[d] = table[d] /\ (served[n] # None => d \notin KernelDirs(served[n]))
      BY <1>2, ServerUnmountMeans DEF ReleaseWorkspace
    <2>2. PICK m \in Names : served[m] # None /\ AccountedBy(d, served[m])
      BY <1>2, <2>1 DEF AccountInv, OwnMountsAccounted
    <2>3. m # n
      BY <2>1, <2>2 DEF AccountedBy
    <2>4. served'[m] = served[m]
      BY <1>1, <2>3 DEF AccountInv, TypeOK, DaemonType
    <2> QED BY <2>1, <2>2, <2>4 DEF AccountedBy
  <1>3. NotServedYet'
    BY <1>1 DEF NotServedYet, W, AccountInv, TypeOK, DaemonType
  <1> QED BY <1>2, <1>3 DEF OwnMountsAccounted, AccountedBy

\* Unmounting what was found in the table.
LEMMA AccountUnmount ==
    ASSUME AccountInv, NEW ds, table' = Unmounted(ds), pc # "serve",
           UNCHANGED <<served, pc, config, at>>
    PROVE  OwnMountsAccounted' /\ NotServedYet'
  <1>1. ASSUME NEW d \in Dirs, table'[d] \in Stacks PROVE table'[d] = table[d]
    BY <1>1, UnmountedMeans
  <1> QED BY <1>1 DEF AccountInv, OwnMountsAccounted, NotServedYet, AccountedBy, W

\* Establishing a workspace: each folder mounted so far is accounted for by the
\* entry being visited, and by the record of it once all are mounted.
LEMMA AccountServe ==
    ASSUME AccountInv, ServeFolder \/ ServeFails \/ ServeDone
    PROVE  OwnMountsAccounted' /\ NotServedYet'
  <1>0. /\ pc = "serve" /\ served[W.name] = None
        /\ W \in Workspaces /\ W.name \in Names /\ Len(W.folders) \in Nat /\ nth \in Nat
    BY VisitedType DEF AccountInv, NotServedYet, TypeOK, InRange, ServeFolder, ServeFails, ReportFailed,
                       ServeDone
  <1>1. CASE ServeFolder
    <2>1. UNCHANGED <<served, pc, at, config>> /\ W' = W
      BY <1>1 DEF ServeFolder, daemonVars, W
    <2>2. ASSUME NEW d \in Dirs \ Contended, table'[d] \in Stacks
          PROVE  \/ \E n \in Names : served[n] # None /\ d \in KernelDirs(served[n])
                                     /\ table'[d] = served[n].stack
                 \/ d \in MountedSoFar' /\ table'[d] = W.stack
      <3>1. CASE d = RealDir(FolderDir(W, nth + 1))
        <4>1. d \in MountedSoFar'
          BY <1>0, <1>1, <2>1, <3>1 DEF ServeFolder, MountedSoFar
        <4>2. table'[d] = W.stack
          BY <1>1, <3>1 DEF ServeFolder, AccountInv, TypeOK, MachineType
        <4> QED BY <4>1, <4>2
      <3>2. CASE d # RealDir(FolderDir(W, nth + 1))
        <4>1. table'[d] = table[d]
          BY <1>1, <3>2 DEF ServeFolder, AccountInv, TypeOK, MachineType
        <4>2. MountedSoFar \subseteq MountedSoFar'
          BY <1>0, <1>1, <2>1 DEF ServeFolder, MountedSoFar
        <4> QED BY <2>2, <4>1, <4>2 DEF AccountInv, OwnMountsAccounted, AccountedBy
      <3> QED BY <3>1, <3>2
    <2> QED BY <1>0, <2>1, <2>2 DEF OwnMountsAccounted, AccountedBy, NotServedYet
  <1>2. CASE ServeFails
    <2>1. ASSUME NEW d \in Dirs \ Contended, table'[d] \in Stacks
          PROVE  d \notin MountedSoFar /\ table'[d] = table[d]
      BY <1>2, <2>1, ServerUnmountMeans DEF ServeFails, ReportFailed, ReleaseServer
    <2>2. served' = served /\ pc' = "visit"
      BY <1>2 DEF ServeFails, ReportFailed, NextEntry
    <2> QED BY <2>1, <2>2 DEF AccountInv, OwnMountsAccounted, AccountedBy, NotServedYet
  <1>3. CASE ServeDone
    <2>1. /\ served' = [served EXCEPT ![W.name] = W] /\ table' = table /\ pc' = "visit"
          /\ nth = Len(W.folders)
      BY <1>3 DEF ServeDone, NextEntry
    <2>2. MountedSoFar = KernelDirs(W)
      BY <1>0, <2>1 DEF MountedSoFar, KernelDirs, FolderDirs
    <2>3. served'[W.name] = W /\ W # None
      BY <1>0, <2>1, WorkspaceType DEF AccountInv, TypeOK, DaemonType
    <2>4. \A n \in Names : served[n] # None => served'[n] = served[n]
      BY <1>0, <2>1 DEF AccountInv, TypeOK, DaemonType
    <2>5. ASSUME NEW d \in Dirs \ Contended, table[d] \in Stacks
          PROVE  \E n \in Names : /\ served'[n] # None /\ d \in KernelDirs(served'[n])
                                  /\ table[d] = served'[n].stack
      <3>1. CASE \E n \in Names : served[n] # None /\ AccountedBy(d, served[n])
        BY <2>4, <3>1 DEF AccountedBy
      <3>2. CASE d \in MountedSoFar /\ table[d] = W.stack
        BY <1>0, <2>2, <2>3, <3>2
      <3> QED BY <2>5, <3>1, <3>2 DEF AccountInv, OwnMountsAccounted
    <2> QED BY <2>1, <2>5 DEF OwnMountsAccounted, AccountedBy, NotServedYet
  <1> QED BY <1>1, <1>2, <1>3

\* The rest of the machine never makes a view of this daemon, and none outlives it.
LEMMA AccountMachine ==
    ASSUME AccountInv,
           \/ Crash \/ Stop
           \/ \E d \in Dirs, s \in Alien : Disturb(d, s)
    PROVE  OwnMountsAccounted' /\ NotServedYet'
  <1>1. ASSUME NEW t \in [Dirs -> MountState], Exit(t)
        PROVE  OwnMountsAccounted' /\ NotServedYet'
    <2>1. \A d \in Dirs : table'[d] \notin Stacks
      BY <1>1, ConfigAssumption DEF Exit, Alien
    <2> QED BY <1>1, <2>1 DEF Exit, OwnMountsAccounted, NotServedYet
  <1>2. CASE Crash
    BY <1>1, <1>2 DEF Crash, AccountInv, TypeOK, MachineType
  <1>3. CASE Stop
    BY <1>1, <1>3, UnmountedType DEF Stop, AccountInv, TypeOK, MachineType
  <1>4. ASSUME NEW d \in Dirs, NEW s \in Alien, Disturb(d, s)
        PROVE  OwnMountsAccounted' /\ NotServedYet'
    <2>1. ASSUME NEW e \in Dirs, table'[e] \in Stacks PROVE table'[e] = table[e]
      BY <1>4, <2>1, ConfigAssumption DEF Disturb, AccountInv, TypeOK, MachineType
    <2>2. UNCHANGED <<served, pc, config, at, nth>>
      BY <1>4 DEF Disturb, daemonVars, passVars
    <2> QED BY <2>1, <2>2
         DEF AccountInv, OwnMountsAccounted, NotServedYet, AccountedBy, MountedSoFar, W
  <1> QED BY <1>2, <1>3, <1>4

LEMMA AccountStep == AccountInv /\ [Next]_vars => AccountInv'
  <1> SUFFICES ASSUME AccountInv, [Next]_vars PROVE OwnMountsAccounted' /\ NotServedYet'
    BY TypeBegin, TypeRelease, TypeUnmount, TypeVisit, TypeServe, TypeMachine, TypeStutter
       DEF Next, PassStep, AccountInv
  <1>1. CASE BeginPass \/ TableUnreadable \/ EnterVisit \/ VisitHeld \/ EnterServe
             \/ EnterSweep \/ EndPass
    <2>1. /\ UNCHANGED <<table, served>> /\ pc # "serve" /\ pc' # "under"
          /\ pc' = "serve" => pc = "under" /\ UNCHANGED <<at, config>>
      BY <1>1 DEF BeginPass, TableUnreadable, EnterVisit, VisitHeld, EnterServe, EnterSweep,
                  EndPass, Visiting, passVars
    <2> QED BY <2>1, AccountQuiet
  <1>2. CASE \/ BeginRefused \/ UNCHANGED vars
             \/ \E c \in Configs \cup {Invalid} : Edit(c)
    BY <1>2 DEF BeginRefused, Edit, AccountInv, OwnMountsAccounted, NotServedYet, AccountedBy,
                MountedSoFar, W, vars, daemonVars, passVars
  <1>3. CASE \E n \in Names : DropUndeclared(n)
    BY <1>3, AccountRelease DEF DropUndeclared
  <1>4. CASE VisitDisabled \/ VisitOutOfDate
    <2>1. W.name \in Names
      BY <1>4, VisitedType DEF AccountInv, VisitDisabled, VisitOutOfDate, Visiting
    <2> QED BY <1>4, <2>1, AccountRelease DEF VisitDisabled, VisitOutOfDate, Visiting
  <1>5. CASE \E d \in Dirs : ReleaseUnder(d) \/ Sweep(d)
    BY <1>5, AccountUnmount DEF ReleaseUnder, Sweep, daemonVars
  <1>6. CASE ServeFolder \/ ServeFails \/ ServeDone
    BY <1>6, AccountServe
  <1>7. CASE Crash \/ Stop \/ \E d \in Dirs, s \in Alien : Disturb(d, s)
    BY <1>7, AccountMachine
  <1> QED BY <1>1, <1>2, <1>3, <1>4, <1>5, <1>6, <1>7 DEF Next, PassStep

\* Every live mount of the daemon that was not busy when it was released belongs
\* to a workspace the daemon records as served, or is establishing.
THEOREM EveryMountAccounted == Spec => []OwnMountsAccounted
  <1>1. Init => AccountInv
    BY AccountInit
  <1>2. AccountInv /\ [Next]_vars => AccountInv'
    BY AccountStep
  <1>3. AccountInv => OwnMountsAccounted
    BY DEF AccountInv
  <1> QED BY <1>1, <1>2, <1>3, PTL DEF Spec

----------------------------------------------------------------------------
\* A pass leaves alone what is already as declared, for files without symbolic
\* links in their targets, repeated names or targets that change hands.

Plain == Canonical /\ UniqueNames /\ NoReuse
LeaveInv == AccountInv /\ PassInv

\* Without symbolic links the kernel reports the directories of the file.
LEMMA PlainDirs ==
    ASSUME Canonical, NEW w \in Workspaces
    PROVE  /\ KernelDirs(w) = FolderDirs(w)
           /\ \A i \in 1..Len(w.folders) : RealDir(FolderDir(w, i)) = FolderDir(w, i)
           /\ \A d \in FolderDirs(w) : d[1] = w.target
  <1>1. \A d \in Dirs : RealDir(d) = d
    BY DEF Canonical, RealDir, Dirs
  <1>2. FolderDirs(w) \in SUBSET Dirs /\ \A i \in 1..Len(w.folders) : FolderDir(w, i) \in Dirs
    BY DirsType
  <1>3. KernelDirs(w) = FolderDirs(w)
    BY <1>1, <1>2 DEF KernelDirs
  <1>4. \A d \in FolderDirs(w) : d[1] = w.target
    BY DEF FolderDirs, FolderDir
  <1> QED BY <1>1, <1>2, <1>3, <1>4

\* Targets that do not overlap share no directory.
LEMMA ApartDirs ==
    ASSUME Canonical, NEW w \in Workspaces, NEW v \in Workspaces,
           ~Overlap(w.target, v.target), NEW ds
    PROVE  /\ FolderDirs(w) \cap FolderDirs(v) = {}
           /\ FolderDirs(w) \cap Under(ds, v.target) = {}
  <1>1. w.target \in Inside[w.target] /\ v.target \in Inside[v.target]
    BY WorkspaceType, PathAssumption
  <1> QED BY <1>1, PlainDirs DEF Overlap, Under

\* What is recorded under a declared name stays clear of every other entry.
LEMMA RecordedApart ==
    ASSUME LeaveInv, Plain, NEW n \in Names, served[n] # None, n \in NamesOf(config),
           NEW v \in Declared(config), v.name # n
    PROVE  /\ served[n] \in Workspaces /\ v \in Workspaces
           /\ ~Overlap(served[n].target, v.target)
  <1>1. served[n] \in Workspaces /\ served[n].name = n
    BY DEF LeaveInv, PassInv, RecordsApart, AccountInv, TypeOK, DaemonType
  <1>2. config \in Configs
    <2>1. CASE config = <<>>
      BY <2>1 DEF Declared
    <2> QED BY <2>1 DEF LeaveInv, AccountInv, TypeOK, DaemonType
  <1>3. v \in Workspaces
    BY <1>2 DEF Workspaces
  <1>4. PICK c \in Configs : served[n] \in Declared(c)
    BY <1>1 DEF Workspaces
  <1> QED BY <1>1, <1>2, <1>3, <1>4 DEF Plain, NoReuse

\* Names of entries are those of their positions.
LEMMA NameAt ==
    ASSUME LeaveInv, Plain, at <= Len(config)
    PROVE  /\ W \in Declared(config) /\ W \in Workspaces /\ W.name \in Names
           /\ W.name \in NamesOf(config)
           /\ ~Visited(W.name)
           /\ \A w \in Declared(config) : w.name = W.name => w = W
  <1>1. /\ config \in Configs \cup {<<>>} /\ at \in 1..Len(config) /\ Len(config) \in Nat
        /\ W \in Declared(config) /\ W \in Workspaces /\ W.name \in Names
    BY VisitedType, EntryType DEF LeaveInv, AccountInv, TypeOK, DaemonType, InRange
  <1>2. config \in Configs
    BY <1>1 DEF Declared
  <1>3. \A i, j \in 1..Len(config) : config[i].name = config[j].name => i = j
    BY <1>2 DEF Plain, UniqueNames
  <1>4. ~Visited(W.name)
    BY <1>1, <1>3 DEF Visited, W
  <1>5. \A w \in Declared(config) : w.name = W.name => w = W
    BY <1>1, <1>3 DEF Declared, W
  <1> QED BY <1>1, <1>4, <1>5 DEF NamesOf

\* The records and the views a release leaves are among those there were.
LEMMA ReleaseShrinks ==
    ASSUME TypeOK, NEW n \in Names, ReleaseWorkspace(n)
    PROVE  /\ \A m \in Names : served'[m] # None => m # n /\ served'[m] = served[m]
           /\ \A d \in Dirs : table'[d] \in Stacks => table'[d] = table[d]
           /\ \A d \in Dirs : (served[n] # None => d \notin KernelDirs(served[n]))
                              => table'[d] = table[d]
  <1>1. \A m \in Names : served'[m] # None => m # n /\ served'[m] = served[m]
    BY DEF ReleaseWorkspace, TypeOK, DaemonType
  <1>2. CASE UNCHANGED table /\ served[n] = None
    BY <1>1, <1>2
  <1>3. CASE served[n] # None /\ ServerUnmount(KernelDirs(served[n]))
    <2>1. PICK stuck : table' = Unmounted(KernelDirs(served[n]) \ stuck)
      BY <1>3 DEF ServerUnmount
    <2>2. \A d \in Dirs : table'[d] \in Stacks => table'[d] = table[d]
      BY <2>1, UnmountedMeans
    <2>3. \A d \in Dirs : d \notin KernelDirs(served[n]) => table'[d] = table[d]
      BY <2>1 DEF Unmounted
    <2> QED BY <1>1, <1>3, <2>2, <2>3
  <1> QED BY <1>2, <1>3 DEF ReleaseWorkspace

\* Records that remain keep their name and stay apart.
LEMMA ShrunkApart ==
    ASSUME LeaveInv, \A m \in Names : served'[m] # None => served'[m] = served[m]
    PROVE  RecordsApart'
  BY DEF LeaveInv, PassInv, RecordsApart

\* What is not visited yet was read, as long as no view appears.
LEMMA StillRead ==
    ASSUME LeaveInv, InPass,
           \A m \in Names : served'[m] # None => served'[m] = served[m],
           \A d \in Dirs : table'[d] \in Stacks => table'[d] = table[d],
           UNCHANGED <<config, all, allStale>>, at' = at \/ at' = at + 1
    PROVE  UnvisitedRead'
  <1> SUFFICES ASSUME NEW n \in Names, served'[n] # None, ~Visited(n)',
                      NEW d \in FolderDirs(served'[n]), table'[d] \in Stacks
               PROVE  d \in all \ allStale
    BY DEF UnvisitedRead
  <1>1. served'[n] = served[n] /\ served[n] \in Workspaces
    BY DEF LeaveInv, AccountInv, TypeOK, DaemonType
  <1>2. d \in Dirs /\ table'[d] = table[d]
    BY <1>1, DirsType
  <1>3. at \in Nat
    BY DEF LeaveInv, AccountInv, TypeOK, InRange
  <1>4. ~Visited(n)
    BY <1>3 DEF Visited
  <1> QED BY <1>1, <1>2, <1>4 DEF LeaveInv, PassInv, UnvisitedRead

\* What has been visited stays vouched for, and the entry just visited joins it.
LEMMA StillHeld ==
    ASSUME LeaveInv, InPass, UNCHANGED config, held \subseteq held',
           \A m \in Names : served'[m] # None => served'[m] = served[m],
           \/ at' = at
           \/ /\ at' = at + 1 /\ W.name \in Names
              /\ W.enabled /\ served'[W.name] # None => FolderDirs(W) \subseteq held'
    PROVE  VisitedHeld'
  <1>1. at \in Nat /\ at \in 1..(Len(config) + 1) /\ Len(config) \in Nat
    BY EntryType DEF LeaveInv, AccountInv, TypeOK, DaemonType, InRange
  <1>2. ASSUME NEW j \in 1..(at - 1), config[j].enabled, served'[config[j].name] # None
        PROVE  FolderDirs(config[j]) \subseteq held'
    <2>1. config[j].name \in Names
      <3>1. j \in 1..Len(config)
        BY <1>1
      <3>2. config[j] \in Workspace
        BY <3>1, EntryType DEF LeaveInv, AccountInv, TypeOK, DaemonType
      <3> QED BY <3>2 DEF Workspace
    <2> QED BY <1>2, <2>1 DEF LeaveInv, PassInv, VisitedHeld
  <1> QED BY <1>1, <1>2 DEF VisitedHeld, W

LEMMA LeaveBegin ==
    ASSUME LeaveInv, BeginPass
    PROVE  PassInv'
  <1>1. at = 1 /\ pc' = "drop" /\ UNCHANGED <<at, served, table>>
    BY DEF BeginPass, LeaveInv, AccountInv, TypeOK, InRange
  <1>2. UnvisitedRead'
    <2> SUFFICES ASSUME NEW n \in Names, served[n] # None, NEW d \in FolderDirs(served[n]),
                        table[d] \in Stacks
                 PROVE  d \in all' \ allStale'
      BY <1>1 DEF UnvisitedRead
    <2>1. d \in Dirs
      BY DirsType DEF LeaveInv, AccountInv, TypeOK, DaemonType
    <2> QED BY <2>1, ConfigAssumption DEF BeginPass, Listed, Alien
  <1>3. RecordsApart'
    BY <1>1, ShrunkApart
  <1>4. VisitedHeld'
    BY <1>1 DEF VisitedHeld
  <1> QED BY <1>1, <1>2, <1>3, <1>4
       DEF PassInv, NotServedYet, RecordsDeclared, TodoOutside

\* Between passes only the records matter.
LEMMA LeaveOut ==
    ASSUME LeaveInv, pc' \in {"down", "idle"}, served' = served \/ served' = NoneServed
    PROVE  PassInv'
  <1>1. RecordsApart'
    BY ShrunkApart DEF NoneServed
  <1> QED BY <1>1 DEF PassInv, NotServedYet, RecordsDeclared, VisitedHeld, UnvisitedRead,
                      TodoOutside, InPass

\* Steps that unmount or forget what is recorded under a name.
LEMMA LeaveRelease ==
    ASSUME LeaveInv, Plain, NotServedYet',
           (\E n \in Names : DropUndeclared(n)) \/ VisitDisabled \/ VisitOutOfDate
    PROVE  PassInv'
  <1>1. ASSUME NEW n \in Names, DropUndeclared(n) PROVE PassInv'
    <2>1. /\ pc = "drop" /\ UNCHANGED <<pc, config, at, held, all, allStale>>
          /\ ReleaseWorkspace(n)
      BY <1>1 DEF DropUndeclared
    <2>2. /\ \A m \in Names : served'[m] # None => served'[m] = served[m]
          /\ \A d \in Dirs : table'[d] \in Stacks => table'[d] = table[d]
      BY <2>1, ReleaseShrinks DEF LeaveInv, AccountInv
    <2>3. RecordsApart' /\ UnvisitedRead' /\ VisitedHeld'
      BY <2>1, <2>2, ShrunkApart, StillRead, StillHeld DEF InPass
    <2> QED BY <2>1, <2>3 DEF PassInv, NotServedYet, RecordsDeclared, TodoOutside
  <1>2. CASE VisitDisabled
    <2>0. W.name \in Names
      BY <1>2, NameAt DEF VisitDisabled, Visiting
    <2>1. /\ pc = "visit" /\ UNCHANGED <<pc, config, held, all, allStale>> /\ ~W.enabled
          /\ at' = at + 1 /\ ReleaseWorkspace(W.name)
      BY <1>2 DEF VisitDisabled, Visiting
    <2>2. /\ \A m \in Names : served'[m] # None => served'[m] = served[m]
          /\ \A d \in Dirs : table'[d] \in Stacks => table'[d] = table[d]
      BY <2>0, <2>1, ReleaseShrinks DEF LeaveInv, AccountInv
    <2>3. RecordsApart' /\ UnvisitedRead' /\ VisitedHeld'
      BY <2>0, <2>1, <2>2, ShrunkApart, StillRead, StillHeld DEF InPass
    <2>4. RecordsDeclared'
      BY <2>1, <2>2 DEF LeaveInv, PassInv, RecordsDeclared, InPass
    <2> QED BY <2>1, <2>3, <2>4 DEF PassInv, NotServedYet, TodoOutside
  <1>3. CASE VisitOutOfDate
    <2>0. W.name \in Names
      BY <1>3, NameAt DEF VisitOutOfDate, Visiting
    <2>1. /\ pc = "visit" /\ pc' = "under" /\ UNCHANGED <<config, held, all, allStale, at>>
          /\ ReleaseWorkspace(W.name) /\ todo' \subseteq Under(all, W.target)
      BY <1>3 DEF VisitOutOfDate, Visiting
    <2>2. /\ \A m \in Names : served'[m] # None => served'[m] = served[m]
          /\ \A d \in Dirs : table'[d] \in Stacks => table'[d] = table[d]
      BY <2>0, <2>1, ReleaseShrinks DEF LeaveInv, AccountInv
    <2>3. RecordsApart' /\ UnvisitedRead' /\ VisitedHeld'
      BY <2>1, <2>2, ShrunkApart, StillRead, StillHeld DEF InPass
    <2>4. RecordsDeclared'
      BY <2>1, <2>2 DEF LeaveInv, PassInv, RecordsDeclared, InPass
    <2>5. TodoOutside'
      BY <2>1 DEF TodoOutside, W
    <2> QED BY <2>3, <2>4, <2>5 DEF PassInv
  <1> QED BY <1>1, <1>2, <1>3

\* Steps that unmount what the pass found.
LEMMA LeaveUnmount ==
    ASSUME LeaveInv, \E d \in Dirs : ReleaseUnder(d) \/ Sweep(d)
    PROVE  PassInv'
  <1>1. PICK d \in Dirs : ReleaseUnder(d) \/ Sweep(d)
    OBVIOUS
  <1>2. /\ InPass /\ pc # "drop" /\ UNCHANGED <<pc, config, served, at, held, all, allStale>>
        /\ table' = Unmounted({d}) /\ todo' \subseteq todo
    BY <1>1 DEF ReleaseUnder, Sweep, daemonVars, InPass
  <1>3. \A e \in Dirs : table'[e] \in Stacks => table'[e] = table[e]
    BY <1>2, UnmountedMeans
  <1>4. RecordsApart' /\ UnvisitedRead' /\ VisitedHeld'
    BY <1>2, <1>3, ShrunkApart, StillRead, StillHeld
  <1>5. NotServedYet' /\ RecordsDeclared' /\ TodoOutside'
    BY <1>2 DEF LeaveInv, PassInv, NotServedYet, RecordsDeclared, TodoOutside, InPass, W
  <1> QED BY <1>4, <1>5 DEF PassInv

\* Steps that move through the file without touching a mount or a record.
LEMMA LeaveVisit ==
    ASSUME LeaveInv, Plain, EnterVisit \/ VisitHeld \/ EnterServe \/ EnterSweep
    PROVE  PassInv'
  <1>1. /\ InPass /\ InPass' /\ UNCHANGED <<table, served, config, all, allStale>>
        /\ held \subseteq held'
    BY DEF EnterVisit, VisitHeld, EnterServe, EnterSweep, passVars, InPass, Visiting, VouchFor
  <1>2. RecordsApart'
    BY <1>1, ShrunkApart
  <1>3. at' = at \/ (at' = at + 1 /\ VisitHeld)
    BY DEF EnterVisit, VisitHeld, EnterServe, EnterSweep, passVars
  <1>4. UnvisitedRead'
    BY <1>1, <1>3, StillRead
  <1>5. VisitedHeld'
    <2>1. VisitHeld => W.name \in Names /\ FolderDirs(W) \subseteq held'
      BY NameAt DEF VisitHeld, Visiting, VouchFor
    <2> QED BY <1>1, <1>3, <2>1, StillHeld
  <1>6. RecordsDeclared'
    <2>1. CASE EnterVisit
      BY <1>1, <2>1 DEF EnterVisit, RecordsDeclared, LeaveInv, AccountInv, TypeOK, DaemonType
    <2>2. CASE VisitHeld \/ EnterServe \/ EnterSweep
      BY <1>1, <2>2 DEF VisitHeld, EnterServe, EnterSweep, Visiting, RecordsDeclared, LeaveInv,
                        PassInv, InPass
    <2> QED BY <2>1, <2>2
  <1>7. NotServedYet' /\ TodoOutside'
    <2>1. CASE EnterVisit \/ VisitHeld
      BY <2>1 DEF EnterVisit, VisitHeld, Visiting, NotServedYet, TodoOutside
    <2>2. CASE EnterServe
      BY <2>2 DEF EnterServe, LeaveInv, PassInv, NotServedYet, TodoOutside, passVars, W
    <2>3. CASE EnterSweep
      <3>1. at = Len(config) + 1
        BY <2>3, EntryType DEF EnterSweep, LeaveInv, AccountInv, TypeOK, DaemonType, InRange
      <3> QED BY <2>3, <3>1 DEF EnterSweep, NotServedYet, TodoOutside, Left
    <2> QED BY <2>1, <2>2, <2>3
  <1> QED BY <1>2, <1>4, <1>5, <1>6, <1>7 DEF PassInv

\* Establishing a workspace: nothing recorded overlaps the entry being visited.
LEMMA LeaveServe ==
    ASSUME LeaveInv, Plain, ServeFolder \/ ServeFails \/ ServeDone
    PROVE  PassInv'
  <1>0. /\ pc = "serve" /\ at <= Len(config) /\ at \in Nat
        /\ W \in Workspaces /\ W \in Declared(config) /\ W.name \in Names
        /\ W.name \in NamesOf(config) /\ served[W.name] = None
    BY NameAt DEF LeaveInv, PassInv, NotServedYet, AccountInv, TypeOK, InRange,
                  ServeFolder, ServeFails, ReportFailed, ServeDone
  <1>a. /\ InPass /\ pc # "drop"
        /\ \A n \in Names : served[n] # None =>
             /\ n # W.name /\ n \in NamesOf(config) /\ served[n] \in Workspaces
             /\ ~Overlap(served[n].target, W.target)
    BY <1>0, RecordedApart DEF LeaveInv, PassInv, RecordsDeclared, InPass
  <1>1. CASE ServeFolder
    <2>1. /\ UNCHANGED <<pc, config, served, at, held, all, allStale, todo>>
          /\ nth < Len(W.folders)
          /\ table' = [table EXCEPT ![RealDir(FolderDir(W, nth + 1))] = W.stack]
      BY <1>1 DEF ServeFolder, daemonVars
    <2>2. RealDir(FolderDir(W, nth + 1)) \in FolderDirs(W)
      <3>1. nth + 1 \in 1..Len(W.folders)
        BY <1>0, <2>1, DirsType DEF LeaveInv, AccountInv, TypeOK, InRange
      <3> QED BY <1>0, <3>1, PlainDirs DEF Plain, FolderDirs
    <2>3. UnvisitedRead'
      <3> SUFFICES ASSUME NEW n \in Names, served[n] # None, ~Visited(n),
                          NEW d \in FolderDirs(served[n]), table'[d] \in Stacks
                   PROVE  d \in all \ allStale
        BY <2>1 DEF UnvisitedRead, Visited
      <3>1. d \in Dirs /\ d \notin FolderDirs(W)
        BY <1>0, <1>a, DirsType, ApartDirs DEF Plain
      <3>2. table'[d] = table[d]
        BY <2>1, <2>2, <3>1 DEF LeaveInv, AccountInv, TypeOK, MachineType
      <3> QED BY <1>a, <3>2 DEF LeaveInv, PassInv, UnvisitedRead
    <2>4. RecordsApart' /\ VisitedHeld'
      BY <1>a, <2>1, ShrunkApart, StillHeld
    <2> QED BY <2>1, <2>3, <2>4 DEF LeaveInv, PassInv, NotServedYet, RecordsDeclared,
                                   TodoOutside, InPass, W
  <1>2. CASE ServeFails
    <2>1. /\ UNCHANGED <<config, served, held, all, allStale>> /\ at' = at + 1 /\ pc' = "visit"
          /\ ServerUnmount(MountedSoFar)
      BY <1>2 DEF ServeFails, ReportFailed, NextEntry, ReleaseServer
    <2>2. \A d \in Dirs : table'[d] \in Stacks => table'[d] = table[d]
      BY <2>1, UnmountedMeans DEF ServerUnmount
    <2>3. RecordsApart' /\ UnvisitedRead' /\ VisitedHeld'
      BY <1>0, <1>a, <2>1, <2>2, ShrunkApart, StillRead, StillHeld
    <2> QED BY <1>a, <2>1, <2>3 DEF PassInv, NotServedYet, RecordsDeclared, TodoOutside
  <1>3. CASE ServeDone
    <2>1. /\ UNCHANGED <<config, table, all, allStale>> /\ at' = at + 1 /\ pc' = "visit"
          /\ served' = [served EXCEPT ![W.name] = W] /\ held' = held \cup FolderDirs(W)
      BY <1>3 DEF ServeDone, NextEntry, VouchFor
    <2>2. \A n \in Names : IF n = W.name THEN served'[n] = W ELSE served'[n] = served[n]
      BY <2>1 DEF LeaveInv, AccountInv, TypeOK, DaemonType
    <2>3. RecordsApart'
      <3>1. \A n \in Names : served'[n] # None => served'[n].name = n
        BY <2>2 DEF LeaveInv, PassInv, RecordsApart
      <3>2. ASSUME NEW m \in Names, NEW n \in Names, m # n, served'[m] # None, served'[n] # None
            PROVE  ~Overlap(served'[m].target, served'[n].target)
        <4>1. CASE m # W.name /\ n # W.name
          BY <2>2, <3>2, <4>1 DEF LeaveInv, PassInv, RecordsApart
        <4>2. CASE m = W.name \/ n = W.name
          BY <1>a, <2>2, <3>2, <4>2 DEF Overlap
        <4> QED BY <4>1, <4>2
      <3> QED BY <3>1, <3>2 DEF RecordsApart
    <2>4. RecordsDeclared'
      BY <1>0, <1>a, <2>1, <2>2 DEF RecordsDeclared
    <2>5. UnvisitedRead'
      <3> SUFFICES ASSUME NEW n \in Names, served'[n] # None, ~Visited(n)',
                          NEW d \in FolderDirs(served'[n]), table[d] \in Stacks
                   PROVE  d \in all \ allStale
        BY <2>1 DEF UnvisitedRead
      <3>1. n # W.name /\ ~Visited(n)
        <4>1. at \in 1..(at' - 1) /\ 1..(at - 1) \subseteq 1..(at' - 1)
          BY <1>0, <2>1 DEF LeaveInv, AccountInv, TypeOK, InRange
        <4> QED BY <2>1, <4>1 DEF Visited, W
      <3>2. served'[n] = served[n]
        BY <2>2, <3>1
      <3> QED BY <1>a, <3>1, <3>2 DEF LeaveInv, PassInv, UnvisitedRead
    <2>6. VisitedHeld'
      <3> SUFFICES ASSUME NEW j \in 1..at, config[j].enabled, served'[config[j].name] # None
                   PROVE  FolderDirs(config[j]) \subseteq held'
        BY <1>0, <2>1 DEF VisitedHeld
      <3>1. CASE j = at
        BY <2>1, <3>1 DEF W
      <3>2. CASE j # at
        <4>1. j \in 1..(at - 1) /\ j \in 1..Len(config)
          BY <1>0, <3>2, EntryType DEF LeaveInv, AccountInv, TypeOK, DaemonType
        <4>2. config[j].name # W.name
          BY <1>0, <4>1, NameAt DEF Visited
        <4>3. config[j] \in Workspaces
          BY <4>1, EntryType DEF LeaveInv, AccountInv, TypeOK, DaemonType
        <4>4. served[config[j].name] # None
          BY <2>2, <4>2, <4>3, WorkspaceType
        <4> QED BY <1>a, <2>1, <4>1, <4>4 DEF LeaveInv, PassInv, VisitedHeld
      <3> QED BY <3>1, <3>2
    <2> QED BY <2>1, <2>3, <2>4, <2>5, <2>6 DEF PassInv, NotServedYet, TodoOutside
  <1> QED BY <1>1, <1>2, <1>3

\* The rest of the machine adds no view of this daemon and touches no record.
LEMMA LeaveDisturb ==
    ASSUME LeaveInv, \/ \E c \in Configs \cup {Invalid} : Edit(c)
                     \/ \E d \in Dirs, s \in Alien : Disturb(d, s)
    PROVE  PassInv'
  <1>1. /\ UNCHANGED <<pc, config, served, at, held, all, allStale, todo>>
    BY DEF Edit, Disturb, daemonVars, passVars
  <1>2. \A d \in Dirs : table'[d] \in Stacks => table'[d] = table[d]
    BY ConfigAssumption DEF Edit, Disturb, LeaveInv, AccountInv, TypeOK, MachineType
  <1>3. RecordsApart'
    BY <1>1, ShrunkApart
  <1>4. UnvisitedRead' /\ VisitedHeld'
    <2>1. CASE InPass
      BY <1>1, <1>2, <2>1, StillRead, StillHeld
    <2>2. CASE ~InPass
      BY <1>1, <2>2 DEF UnvisitedRead, VisitedHeld, InPass
    <2> QED BY <2>1, <2>2
  <1> QED BY <1>1, <1>3, <1>4
       DEF LeaveInv, PassInv, NotServedYet, RecordsDeclared, TodoOutside, InPass, W

LEMMA LeaveInit == Init => LeaveInv
  <1> SUFFICES ASSUME Init PROVE PassInv
    BY AccountInit DEF LeaveInv
  <1>1. \A n \in Names : served[n] = None
    BY DEF Init, NoneServed
  <1> QED BY <1>1 DEF Init, PassInv, NotServedYet, RecordsApart, RecordsDeclared, VisitedHeld,
                      UnvisitedRead, TodoOutside, InPass

LEMMA LeaveStep == Plain /\ LeaveInv /\ [Next]_vars => LeaveInv'
  <1> SUFFICES ASSUME Plain, LeaveInv, [Next]_vars PROVE PassInv'
    BY AccountStep DEF LeaveInv
  <1>0. NotServedYet'
    BY AccountStep DEF LeaveInv, AccountInv
  <1>1. CASE BeginPass
    BY <1>1, LeaveBegin
  <1>2. CASE TableUnreadable \/ EndPass \/ Crash \/ Stop
    BY <1>2, LeaveOut DEF TableUnreadable, EndPass, Crash, Stop, Exit
  <1>3. CASE BeginRefused \/ UNCHANGED vars
    BY <1>3 DEF BeginRefused, vars, daemonVars, passVars, LeaveInv, PassInv, NotServedYet,
                RecordsApart, RecordsDeclared, VisitedHeld, UnvisitedRead, TodoOutside, InPass,
                Visited, W
  <1>4. CASE (\E n \in Names : DropUndeclared(n)) \/ VisitDisabled \/ VisitOutOfDate
    BY <1>0, <1>4, LeaveRelease
  <1>5. CASE \E d \in Dirs : ReleaseUnder(d) \/ Sweep(d)
    BY <1>5, LeaveUnmount
  <1>6. CASE EnterVisit \/ VisitHeld \/ EnterServe \/ EnterSweep
    BY <1>6, LeaveVisit
  <1>7. CASE ServeFolder \/ ServeFails \/ ServeDone
    BY <1>7, LeaveServe
  <1>8. CASE \/ \E c \in Configs \cup {Invalid} : Edit(c)
             \/ \E d \in Dirs, s \in Alien : Disturb(d, s)
    BY <1>8, LeaveDisturb
  <1> QED BY <1>1, <1>2, <1>3, <1>4, <1>5, <1>6, <1>7, <1>8 DEF Next, PassStep

\* What a held workspace is: its record has its directories, each carries a view
\* of this daemon.
LEMMA HeldLiveMeans ==
    ASSUME LeaveInv, Plain, NEW w \in Declared(config), HeldLive(w)
    PROVE  /\ w \in Workspaces /\ w.name \in Names /\ served[w.name] # None
           /\ KernelDirs(w) = FolderDirs(w)
           /\ FolderDirs(w) = FolderDirs(served[w.name])
           /\ served[w.name].target = w.target
           /\ \A d \in FolderDirs(w) : d \in Dirs /\ table[d] \in Stacks
  <1>1. w \in Workspaces /\ w.name \in Names /\ w.stack \in Stacks
    BY EntryType, WorkspaceType DEF LeaveInv, AccountInv, TypeOK, DaemonType
  <1>2. KernelDirs(w) = FolderDirs(w) /\ FolderDirs(w) \in SUBSET Dirs
    BY <1>1, PlainDirs, DirsType DEF Plain
  <1>3. /\ served[w.name] # None /\ served[w.name].target = w.target
        /\ served[w.name].folders = w.folders
    BY DEF HeldLive, SameAs
  <1>4. FolderDirs(w) = FolderDirs(served[w.name])
    BY <1>3 DEF FolderDirs, FolderDir
  <1> QED BY <1>1, <1>2, <1>3, <1>4 DEF HeldLive, Serving

\* Releasing another workspace's record does not touch it.
LEMMA LeftByRelease ==
    ASSUME LeaveInv, Plain, NEW w \in Declared(config), HeldLive(w), NEW d \in KernelDirs(w),
           NEW n \in Names, n # w.name, ReleaseWorkspace(n)
    PROVE  table'[d] = table[d]
  <1>1. d \in FolderDirs(served[w.name]) /\ d \in Dirs /\ w.name \in Names
        /\ served[w.name] # None
    BY HeldLiveMeans
  <1>2. ASSUME served[n] # None PROVE d \notin KernelDirs(served[n])
    <2>1. served[n] \in Workspaces /\ served[w.name] \in Workspaces
      BY <1>1, <1>2 DEF LeaveInv, AccountInv, TypeOK, DaemonType
    <2>2. ~Overlap(served[w.name].target, served[n].target)
      BY <1>1, <1>2 DEF LeaveInv, PassInv, RecordsApart
    <2> QED BY <1>1, <2>1, <2>2, ApartDirs, PlainDirs DEF Plain
  <1> QED BY <1>1, <1>2, ReleaseShrinks DEF LeaveInv, AccountInv

LEMMA LeftAlone ==
    ASSUME LeaveInv, Plain, PassStep, NEW w \in Wanted, HeldLive(w), NEW d \in KernelDirs(w)
    PROVE  table'[d] = table[d]
  <1>0. /\ w \in Declared(config) /\ w.enabled /\ w \in Workspaces /\ w.name \in Names
        /\ served[w.name] # None /\ served[w.name].target = w.target
        /\ served[w.name] \in Workspaces
        /\ d \in Dirs /\ d \in FolderDirs(w) /\ table[d] \in Stacks
        /\ w.name \in NamesOf(config)
    BY HeldLiveMeans DEF Wanted, NamesOf, LeaveInv, AccountInv, TypeOK, DaemonType
  <1>1. ASSUME NEW n \in Names, DropUndeclared(n) PROVE table'[d] = table[d]
    BY <1>0, <1>1, LeftByRelease DEF DropUndeclared
  <1>2. CASE VisitDisabled
    <2>1. W.name # w.name /\ W.name \in Names /\ ReleaseWorkspace(W.name)
      BY <1>0, <1>2, NameAt DEF VisitDisabled, Visiting
    <2> QED BY <1>0, <2>1, LeftByRelease
  <1>3. CASE VisitOutOfDate
    <2>1. W.name \in Names /\ ReleaseWorkspace(W.name) /\ InPass
      BY <1>3, NameAt DEF VisitOutOfDate, Visiting, InPass
    <2>2. W.name # w.name
      <3>1. SUFFICES ASSUME W.name = w.name PROVE FALSE
        OBVIOUS
      <3>2. W = w /\ ~Visited(w.name)
        BY <1>0, <1>3, <3>1, NameAt DEF VisitOutOfDate, Visiting
      <3>3. FolderDirs(w) \subseteq all \ allStale
        BY <1>0, <2>1, <3>2, HeldLiveMeans DEF LeaveInv, PassInv, UnvisitedRead
      <3>4. Holds(W)
        BY <3>2, <3>3 DEF Holds, HeldLive
      <3> QED BY <1>3, <3>4 DEF VisitOutOfDate
    <2> QED BY <1>0, <2>1, <2>2, LeftByRelease
  <1>4. CASE VisitHeld \/ EnterVisit \/ EnterServe \/ ServeDone \/ EnterSweep \/ EndPass
    BY <1>4 DEF VisitHeld, EnterVisit, EnterServe, ServeDone, EnterSweep, EndPass
  <1>5. ASSUME pc \in {"under", "serve"}
        PROVE  /\ W \in Workspaces /\ ~Overlap(w.target, W.target)
               /\ at <= Len(config) /\ nth \in Nat
    <2>1. at <= Len(config) /\ nth \in Nat /\ served[W.name] = None
      BY <1>5 DEF LeaveInv, AccountInv, TypeOK, InRange, PassInv, NotServedYet
    <2>2. W \in Declared(config) /\ W.name # w.name
      BY <1>0, <2>1, NameAt
    <2> QED BY <1>0, <2>1, <2>2, RecordedApart
  <1>6. ASSUME NEW e \in Dirs, ReleaseUnder(e) PROVE table'[d] = table[d]
    <2>1. e \in Under(all, W.target) /\ table' = Unmounted({e})
      BY <1>6 DEF ReleaseUnder, LeaveInv, PassInv, TodoOutside
    <2>2. d # e
      BY <1>0, <1>5, <1>6, <2>1, ApartDirs DEF Plain, ReleaseUnder
    <2> QED BY <1>0, <2>1, <2>2 DEF Unmounted
  <1>7. CASE ServeFolder
    <2>1. RealDir(FolderDir(W, nth + 1)) # d
      BY <1>0, <1>7, ConfigAssumption DEF ServeFolder, Occupied, Alien
    <2> QED BY <1>0, <1>7, <2>1 DEF ServeFolder, LeaveInv, AccountInv, TypeOK, MachineType
  <1>8. CASE ServeFails
    <2>1. pc = "serve" /\ ServerUnmount(MountedSoFar)
      BY <1>8 DEF ServeFails, ReportFailed, ReleaseServer
    <2>2. MountedSoFar \subseteq FolderDirs(W)
      <3>1. \A i \in 1..nth : i \in 1..Len(W.folders)
        BY <1>5, <2>1, DirsType DEF LeaveInv, AccountInv, TypeOK, InRange, W
      <3> QED BY <1>5, <2>1, <3>1, PlainDirs DEF Plain, MountedSoFar, FolderDirs
    <2>3. d \notin MountedSoFar
      BY <1>0, <1>5, <2>1, <2>2, ApartDirs DEF Plain
    <2> QED BY <1>0, <2>1, <2>3 DEF ServerUnmount, Unmounted
  <1>9. ASSUME NEW e \in Dirs, Sweep(e) PROVE table'[d] = table[d]
    <2>1. at = Len(config) + 1 /\ e \notin held /\ table' = Unmounted({e}) /\ InPass
      BY <1>9 DEF Sweep, LeaveInv, PassInv, TodoOutside, InPass
    <2>2. PICK i \in 1..Len(config) : config[i] = w
      BY <1>0 DEF Declared
    <2>3. i \in 1..(at - 1)
      BY <2>1, <2>2, EntryType DEF LeaveInv, AccountInv, TypeOK, DaemonType
    <2>4. FolderDirs(w) \subseteq held
      BY <1>0, <2>1, <2>2, <2>3 DEF LeaveInv, PassInv, VisitedHeld
    <2> QED BY <1>0, <2>1, <2>4 DEF Unmounted
  <1> QED BY <1>1, <1>2, <1>3, <1>4, <1>6, <1>7, <1>8, <1>9 DEF PassStep

\* Reloading leaves alone every workspace that is still as declared and live,
\* under files that link no target, repeat no name and let no target change
\* hands between workspaces declared together.
THEOREM HeldIsLeftAlone ==
    ASSUME Canonical, UniqueNames, NoReuse
    PROVE  Spec => LeaveAlone
  <1>0. Plain
    BY DEF Plain
  <1>1. Init => LeaveInv
    BY LeaveInit
  <1>2. LeaveInv /\ [Next]_vars => LeaveInv'
    BY <1>0, LeaveStep
  <1>3. LeaveInv /\ [Next]_vars =>
          [PassStep => \A w \in Wanted :
             HeldLive(w) => \A d \in KernelDirs(w) : table'[d] = table[d]]_vars
    BY <1>0, LeftAlone
  <1> QED BY <1>1, <1>2, <1>3, PTL DEF Spec, LeaveAlone

\* Along the way: the bookkeeping of a pass is right at every moment.
THEOREM PassBookkeeping ==
    ASSUME Canonical, UniqueNames, NoReuse
    PROVE  Spec => []PassInv
  <1>0. Plain
    BY DEF Plain
  <1>1. Init => LeaveInv
    BY LeaveInit
  <1>2. LeaveInv /\ [Next]_vars => LeaveInv'
    BY <1>0, LeaveStep
  <1>3. LeaveInv => PassInv
    BY DEF LeaveInv
  <1> QED BY <1>1, <1>2, <1>3, PTL DEF Spec

============================================================================
