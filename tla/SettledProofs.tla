--------------------------- MODULE SettledProofs ---------------------------
(***************************************************************************)
(* Proofs about what a pass of Reconcile leaves behind when nobody touches *)
(* a mount while it runs: what is declared is mounted, nothing else is,    *)
(* and what is reported as failed has a reason of its own.                 *)
(***************************************************************************)
EXTENDS ReconcileProofs

----------------------------------------------------------------------------
\* Facts about unmounting.

LEMMA CanonicalDirs == ASSUME Canonical PROVE \A d \in Dirs : RealDir(d) = d
  BY DEF Canonical, RealDir, Dirs

\* Another user's mount stays whatever is unmounted.
LEMMA OtherStays ==
    ASSUME NEW ds, NEW d \in Dirs, table[d] = "other"
    PROVE  Unmounted(ds)[d] = "other"
  BY DEF Unmounted, Unmountable

\* A step that unmounts and does nothing else to the table.
LEMMA UnmountKeeps ==
    ASSUME NEW ds, table' = Unmounted(ds) \/ ServerUnmount(ds), NEW d \in Dirs
    PROVE  /\ d \notin ds => table'[d] = table[d]
           /\ table[d] = "other" => table'[d] = "other"
           /\ table'[d] \in {table[d], "absent"}
  <1>1. PICK ss : table' = Unmounted(ds \ ss)
    <2>1. CASE table' = Unmounted(ds)
      <3>1. ds \ {} = ds
        OBVIOUS
      <3> QED BY <2>1, <3>1
    <2> QED BY <2>1 DEF ServerUnmount
  <1> QED BY <1>1, OtherStays DEF Unmounted

\* The same of a step that releases what is recorded under a name: what the pass
\* has not released since is untouched.
LEMMA ReleaseKeeps ==
    ASSUME TypeOK, Canonical, NEW n \in Names, ReleaseWorkspace(n)
    PROVE  /\ gone \subseteq gone'
           /\ \A d \in Dirs : /\ table[d] = "other" => table'[d] = "other"
                              /\ table'[d] \in {table[d], "absent"}
                              /\ d \notin gone' => table'[d] = table[d]
  <1>1. CASE served[n] = None /\ UNCHANGED <<table, served, gone>>
    BY <1>1
  <1>2. CASE served[n] # None /\ ServerUnmount(KernelDirs(served[n]))
             /\ gone' = gone \cup FolderDirs(served[n])
    <2>1. KernelDirs(served[n]) = FolderDirs(served[n])
      BY <1>2, PlainDirs DEF TypeOK, DaemonType
    <2> QED BY <1>2, <2>1, UnmountKeeps
  <1> QED BY <1>1, <1>2 DEF ReleaseWorkspace

----------------------------------------------------------------------------
\* What the pass read is there when it unmounts it.

ListedInv == TypeOK /\ StillListed

\* Steps that change no mount.
LEMMA ListedQuiet ==
    ASSUME ListedInv, EnterVisit \/ VisitHeld \/ EnterServe \/ ServeDone \/ EnterSweep \/ EndPass
    PROVE  StillListed'
  <1>1. UNCHANGED <<table, strays, disturbed>>
    BY DEF EnterVisit, VisitHeld, EnterServe, ServeDone, EnterSweep, EndPass
  <1>2. CASE EndPass
    BY <1>1, <1>2 DEF EndPass, ListedInv, StillListed, Calm, InPass
  <1>3. CASE EnterSweep
    BY <1>1, <1>3 DEF EnterSweep, Left, ListedInv, StillListed, Calm, InPass
  <1>4. CASE EnterServe
    <2>1. MountedSoFar' = {}
      BY <1>4 DEF EnterServe, passVars, ListedInv, TypeOK, InRange, MountedSoFar
    <2> QED BY <1>1, <1>4, <2>1 DEF EnterServe, passVars, ListedInv, StillListed, Calm, InPass
  <1>5. CASE EnterVisit \/ VisitHeld \/ ServeDone
    <2>1. UNCHANGED <<all, gone>> /\ InPass /\ pc # "sweep" /\ pc' = "visit"
      BY <1>5 DEF EnterVisit, VisitHeld, ServeDone, Visiting, passVars, NextEntry, InPass
    <2> QED BY <1>1, <2>1 DEF ListedInv, StillListed, Calm
  <1> QED BY <1>2, <1>3, <1>4, <1>5

\* Steps that release a record.
LEMMA ListedRelease ==
    ASSUME ListedInv, Canonical,
           (\E n \in Names : DropUndeclared(n)) \/ VisitDisabled \/ VisitOutOfDate
    PROVE  StillListed'
  <1>1. /\ \E n \in Names : ReleaseWorkspace(n)
        /\ UNCHANGED <<all, strays, disturbed>>
        /\ InPass /\ pc # "sweep" /\ pc' \notin {"serve", "sweep"}
    BY VisitedType DEF DropUndeclared, VisitDisabled, VisitOutOfDate, Visiting, InPass, ListedInv
  <1>2. all \subseteq Dirs /\ strays \subseteq Dirs
    BY DEF ListedInv, TypeOK, DaemonType, PassType
  <1>3. /\ gone \subseteq gone'
        /\ \A d \in Dirs : /\ table[d] = "other" => table'[d] = "other"
                           /\ d \notin gone' => table'[d] = table[d]
    BY <1>1, ReleaseKeeps DEF ListedInv
  <1> QED BY <1>1, <1>2, <1>3 DEF ListedInv, StillListed, Calm

\* Steps that unmount one directory of the table as read.
LEMMA ListedUnmount ==
    ASSUME ListedInv, \E d \in Dirs : ReleaseUnder(d) \/ Sweep(d)
    PROVE  StillListed'
  <1>1. PICK d \in Dirs : ReleaseUnder(d) \/ Sweep(d)
    OBVIOUS
  <1>2. /\ InPass /\ pc # "serve" /\ UNCHANGED <<pc, all, disturbed>>
        /\ table' = Unmounted({d}) /\ d \in todo /\ todo' = todo \ {d}
        /\ all \subseteq Dirs /\ todo \subseteq Dirs /\ strays \subseteq Dirs
    BY <1>1 DEF ReleaseUnder, Sweep, daemonVars, InPass, ListedInv, TypeOK, DaemonType, PassType
  <1>3. \A e \in Dirs : /\ e # d => table'[e] = table[e]
                        /\ table[e] = "other" => table'[e] = "other"
    BY <1>2, UnmountKeeps
  <1>4. CASE ReleaseUnder(d)
    <2>1. pc = "under" /\ gone' = (IF Unmountable(d) THEN gone \cup {d} ELSE gone)
          /\ strays' = strays
      BY <1>4 DEF ReleaseUnder, daemonVars
    <2>2. ~Unmountable(d) => table'[d] = table[d]
      BY <1>2 DEF Unmounted
    <2> QED BY <1>2, <1>3, <2>1, <2>2 DEF ListedInv, StillListed, Calm
  <1>5. CASE Sweep(d)
    <2>1. pc = "sweep" /\ strays' = (IF Unmountable(d) THEN strays ELSE strays \cup {d})
      BY <1>5 DEF Sweep
    <2>2. ~disturbed => table[d] # "absent"
      BY <1>2, <2>1 DEF ListedInv, StillListed, Calm
    <2>3. ~disturbed /\ ~Unmountable(d) => table'[d] = "other"
      BY <1>3, <2>2 DEF Unmountable
    <2> QED BY <1>2, <1>3, <2>1, <2>3 DEF ListedInv, StillListed, Calm
  <1> QED BY <1>1, <1>4, <1>5

\* Establishing a workspace: it mounts where nothing is, and unmounts nothing else.
LEMMA ListedServe ==
    ASSUME ListedInv, Canonical, ServeFolder \/ ServeFails
    PROVE  StillListed'
  <1>0. /\ pc = "serve" /\ InPass /\ W \in Workspaces /\ nth \in Nat
        /\ all \subseteq Dirs /\ strays \subseteq Dirs
        /\ UNCHANGED <<all, gone, strays, disturbed>>
    BY VisitedType DEF ServeFolder, ServeFails, ReportFailed, NextEntry, daemonVars, InPass, ListedInv, TypeOK,
                       InRange, DaemonType, PassType
  <1>1. CASE ServeFolder
    <2> DEFINE d == FolderDir(W, nth + 1)
    <2>1. d \in Dirs /\ RealDir(d) = d
      <3>1. nth + 1 \in 1..Len(W.folders)
        BY <1>0, <1>1, DirsType DEF ServeFolder
      <3> QED BY <1>0, <3>1, DirsType, CanonicalDirs
    <2>2. table[d] = "absent" /\ table' = [table EXCEPT ![d] = W.stack] /\ nth' = nth + 1
          /\ UNCHANGED <<pc, at, config>>
      BY <1>1, <2>1 DEF ServeFolder, Occupied, daemonVars
    <2>3. MountedSoFar' = MountedSoFar \cup {d}
      <3>1. W' = W
        BY <2>2 DEF W
      <3>2. 1..nth' = 1..nth \cup {nth + 1}
        BY <1>0, <2>2
      <3> QED BY <2>1, <3>1, <3>2 DEF MountedSoFar
    <2>4. \A e \in Dirs : e # d => table'[e] = table[e]
      BY <2>2 DEF ListedInv, TypeOK, MachineType
    <2>5. ~disturbed => d \notin all \ gone /\ d \notin strays
      BY <1>0, <2>2 DEF ListedInv, StillListed, Calm
    <2> QED BY <1>0, <2>2, <2>3, <2>4, <2>5 DEF ListedInv, StillListed, Calm
  <1>2. CASE ServeFails
    <2>1. pc' = "visit" /\ ServerUnmount(MountedSoFar)
      BY <1>2 DEF ServeFails, ReportFailed, NextEntry, ReleaseServer
    <2>2. \A e \in Dirs : /\ e \notin MountedSoFar => table'[e] = table[e]
                          /\ table[e] = "other" => table'[e] = "other"
      BY <2>1, UnmountKeeps
    <2> QED BY <1>0, <2>1, <2>2 DEF ListedInv, StillListed, Calm
  <1> QED BY <1>1, <1>2

\* The start of a pass, and whatever happens outside of one.
LEMMA ListedMachine ==
    ASSUME ListedInv,
           \/ BeginPass \/ TableUnreadable \/ Crash \/ Stop
           \/ \E c \in Configs \cup {Invalid} : Edit(c)
           \/ \E d \in Dirs, s \in Alien : Disturb(d, s)
    PROVE  StillListed'
  <1>1. CASE BeginPass
    BY <1>1 DEF BeginPass, ClearReports, Listed, StillListed
  <1>2. CASE Crash \/ Stop
    BY <1>2 DEF Crash, Stop, Exit, StillListed, Calm, InPass
  <1>3. CASE TableUnreadable \/ \E d \in Dirs, s \in Alien : Disturb(d, s)
    BY <1>3 DEF TableUnreadable, Disturb, StillListed, Calm
  <1>4. CASE \E c \in Configs \cup {Invalid} : Edit(c)
    BY <1>4 DEF Edit, daemonVars, passVars, ListedInv, StillListed, Calm, InPass, MountedSoFar, W
  <1> QED BY <1>1, <1>2, <1>3, <1>4

LEMMA ListedStep == Canonical /\ ListedInv /\ [Next]_vars => ListedInv'
  <1> SUFFICES ASSUME Canonical, ListedInv, [Next]_vars PROVE StillListed'
    BY TypeBegin, TypeRelease, TypeUnmount, TypeVisit, TypeServe, TypeMachine, TypeStutter
       DEF Next, PassStep, ListedInv
  <1>1. CASE BeginRefused \/ UNCHANGED vars
    BY <1>1 DEF BeginRefused, vars, daemonVars, passVars, ListedInv, StillListed, Calm, InPass,
                MountedSoFar, W
  <1> QED BY <1>1, ListedQuiet, ListedRelease, ListedUnmount, ListedServe, ListedMachine
          DEF Next, PassStep

LEMMA ListedInit == Init => ListedInv
  BY TypeInit DEF Init, ListedInv, StillListed, Calm, InPass

\* A mount a pass reports as impossible to release is there, and is another
\* user's: what the pass released earlier it does not try to release again.
THEOREM StraysNeverGone ==
    ASSUME Canonical
    PROVE  Spec => []StraysAreOthers
  <1>1. Init => ListedInv
    BY ListedInit
  <1>2. ListedInv /\ [Next]_vars => ListedInv'
    BY ListedStep
  <1>3. ListedInv => StraysAreOthers
    BY DEF ListedInv, StillListed, StraysAreOthers, Settled
  <1> QED BY <1>1, <1>2, <1>3, PTL DEF Spec

----------------------------------------------------------------------------
\* Whose the mounts are that a pass finds where it records a workspace, and where
\* it is about to establish one.

GroundInv == ListedInv /\ NothingKept /\ RecordedMine /\ PlaceCleared

\* What has been mounted of the workspace being established.
LEMMA MountedIn ==
    ASSUME TypeOK, Canonical, pc = "serve"
    PROVE  /\ W \in Workspaces /\ W \in Declared(config) /\ at \in 1..Len(config) /\ nth \in Nat
           /\ MountedSoFar \subseteq FolderDirs(W)
           /\ nth = Len(W.folders) => MountedSoFar = FolderDirs(W)
           /\ nth < Len(W.folders) =>
                /\ nth + 1 \in 1..Len(W.folders)
                /\ FolderDir(W, nth + 1) \in FolderDirs(W)
                /\ RealDir(FolderDir(W, nth + 1)) = FolderDir(W, nth + 1)
                /\ FolderDir(W, nth + 1) \in Dirs
  <1>1. /\ W \in Workspaces /\ W \in Declared(config) /\ nth \in Nat /\ nth <= Len(W.folders)
        /\ at \in 1..Len(config)
    BY VisitedType DEF TypeOK, InRange, W
  <1>2. /\ \A i \in 1..Len(W.folders) : /\ RealDir(FolderDir(W, i)) = FolderDir(W, i)
                                        /\ FolderDir(W, i) \in Dirs
        /\ Len(W.folders) \in Nat
    BY <1>1, PlainDirs, DirsType
  <1> QED BY <1>1, <1>2 DEF MountedSoFar, FolderDirs

\* One folder more is mounted, where nothing was.
LEMMA OneMore ==
    ASSUME TypeOK, Canonical, ServeFolder
    PROVE  /\ UNCHANGED <<pc, at, config, served, failed, strays, all, held, gone, todo, disturbed>>
           /\ W' = W
           /\ \E d \in FolderDirs(W) : /\ d \in Dirs /\ table[d] = "absent" /\ table'[d] = W.stack
                                       /\ \A e \in Dirs : e # d => table'[e] = table[e]
                                       /\ MountedSoFar' = MountedSoFar \cup {d}
  <1> DEFINE d == FolderDir(W, nth + 1)
  <1>1. d \in FolderDirs(W) /\ d \in Dirs /\ RealDir(d) = d /\ nth \in Nat
    BY MountedIn DEF ServeFolder
  <1>2. /\ UNCHANGED <<pc, at, config, served, failed, strays, all, held, gone, todo, disturbed>>
        /\ table[d] = "absent" /\ table' = [table EXCEPT ![d] = W.stack] /\ nth' = nth + 1
    BY <1>1 DEF ServeFolder, Occupied, daemonVars
  <1>3. W' = W
    BY <1>2 DEF W
  <1>4. MountedSoFar' = MountedSoFar \cup {d}
    <2>1. 1..nth' = 1..nth \cup {nth + 1}
      BY <1>1, <1>2
    <2> QED BY <1>1, <1>3, <2>1 DEF MountedSoFar
  <1>5. table'[d] = W.stack /\ \A e \in Dirs : e # d => table'[e] = table[e]
    BY <1>1, <1>2 DEF TypeOK, MachineType
  <1> QED BY <1>1, <1>2, <1>3, <1>4, <1>5

\* The records after a step are among those before it, and no mount has appeared.
LEMMA MineShrinks ==
    ASSUME ListedInv, RecordedMine,
           \A n \in Names : served'[n] # None => served'[n] = served[n],
           \A d \in Dirs : table'[d] \in {table[d], "absent"},
           pc' = "serve" => MountedSoFar' = {}
    PROVE  RecordedMine'
  <1>1. \A n \in Names : served[n] # None => FolderDirs(served[n]) \subseteq Dirs
    BY DirsType DEF ListedInv, TypeOK, DaemonType
  <1> QED BY <1>1 DEF RecordedMine

LEMMA GroundRelease ==
    ASSUME GroundInv, Canonical,
           (\E n \in Names : DropUndeclared(n)) \/ VisitDisabled \/ VisitOutOfDate
    PROVE  NothingKept' /\ RecordedMine' /\ PlaceCleared'
  <1>1. PICK n \in Names : ReleaseWorkspace(n)
    BY VisitedType DEF DropUndeclared, VisitDisabled, VisitOutOfDate, Visiting, GroundInv, ListedInv
  <1>2. InPass' /\ pc' # "serve"
    BY DEF DropUndeclared, VisitDisabled, VisitOutOfDate, Visiting, InPass
  <1>3. RecordedMine'
    BY <1>1, <1>2, ReleaseShrinks, ReleaseKeeps, MineShrinks DEF GroundInv, ListedInv
  <1>4. PlaceCleared'
    <2>1. CASE VisitOutOfDate
      <3>1. W' = W /\ W.enabled /\ UNCHANGED all
        BY <2>1 DEF VisitOutOfDate, W
      <3> QED BY <2>1, <3>1 DEF VisitOutOfDate, PlaceCleared
    <2>2. CASE (\E m \in Names : DropUndeclared(m)) \/ VisitDisabled
      BY <2>2 DEF DropUndeclared, VisitDisabled, Visiting, PlaceCleared
    <2> QED BY <2>1, <2>2
  <1> QED BY <1>2, <1>3, <1>4 DEF NothingKept

LEMMA GroundUnmount ==
    ASSUME GroundInv, \E d \in Dirs : ReleaseUnder(d) \/ Sweep(d)
    PROVE  NothingKept' /\ RecordedMine' /\ PlaceCleared'
  <1>1. PICK d \in Dirs : ReleaseUnder(d) \/ Sweep(d)
    OBVIOUS
  <1>2. /\ InPass /\ pc # "serve" /\ UNCHANGED <<pc, all, served, config, at, disturbed>>
        /\ table' = Unmounted({d}) /\ todo' = todo \ {d} /\ d \in todo
    BY <1>1 DEF ReleaseUnder, Sweep, daemonVars, InPass
  <1>3. \A e \in Dirs : /\ e # d => table'[e] = table[e]
                        /\ table[e] = "other" => table'[e] = "other"
                        /\ table'[e] \in {table[e], "absent"}
    BY <1>2, UnmountKeeps
  <1>4. RecordedMine'
    BY <1>2, <1>3, MineShrinks DEF GroundInv
  <1>5. PlaceCleared'
    <2>1. CASE ReleaseUnder(d)
      <3>1. pc = "under" /\ gone' = (IF Unmountable(d) THEN gone \cup {d} ELSE gone)
            /\ W' = W /\ W.enabled /\ todo \subseteq Under(all, W.target)
            /\ Under(all, W.target) \subseteq Dirs /\ Under(all, W.target) \subseteq all
        BY <1>2, <2>1 DEF ReleaseUnder, W, GroundInv, PlaceCleared, Under, ListedInv, TypeOK,
                          PassType
      <3>2. ASSUME ~disturbed, NEW e \in Under(all, W.target) \ (gone' \cup todo')
            PROVE  table'[e] = "other"
        <4>1. CASE e = d
          <5>1. ~Unmountable(d) /\ d \in all \ gone
            BY <3>1, <3>2, <4>1
          <5>2. table[d] # "absent"
            BY <3>1, <3>2, <5>1 DEF GroundInv, ListedInv, StillListed, Calm, InPass
          <5> QED BY <1>3, <4>1, <5>1, <5>2 DEF Unmountable
        <4>2. CASE e # d
          <5>1. e \in Under(all, W.target) \ (gone \cup todo)
            BY <1>2, <3>1, <3>2, <4>2
          <5> QED BY <1>3, <3>1, <3>2, <5>1 DEF GroundInv, PlaceCleared
        <4> QED BY <4>1, <4>2
      <3> QED BY <1>2, <3>1, <3>2 DEF PlaceCleared
    <2>2. CASE Sweep(d)
      BY <2>2 DEF Sweep, PlaceCleared
    <2> QED BY <1>1, <2>1, <2>2
  <1> QED BY <1>2, <1>4, <1>5 DEF NothingKept, InPass

LEMMA GroundVisit ==
    ASSUME GroundInv, EnterVisit \/ VisitHeld \/ EnterServe \/ EnterSweep \/ EndPass
    PROVE  NothingKept' /\ RecordedMine' /\ PlaceCleared'
  <1>1. UNCHANGED <<table, served>> /\ pc' # "under"
    BY DEF EnterVisit, VisitHeld, EnterServe, EnterSweep, EndPass, Visiting
  <1>2. CASE EnterServe
    <2>1. MountedSoFar' = {} /\ W' = W /\ pc = "under" /\ todo = {}
          /\ UNCHANGED <<all, gone, todo, disturbed>> /\ InPass'
      BY <1>2 DEF EnterServe, passVars, GroundInv, ListedInv, TypeOK, InRange, MountedSoFar, W,
                  InPass
    <2>2. RecordedMine'
      BY <1>1, <2>1, MineShrinks DEF GroundInv
    <2>3. PlaceCleared'
      BY <1>1, <2>1 DEF GroundInv, PlaceCleared
    <2> QED BY <2>1, <2>2, <2>3 DEF NothingKept
  <1>3. CASE EnterVisit \/ VisitHeld \/ EnterSweep \/ EndPass
    <2>1. /\ pc' \notin {"serve", "under"}
          /\ InPass' \/ (all' = {} /\ held' = {} /\ gone' = {})
      BY <1>3 DEF EnterVisit, VisitHeld, EnterSweep, EndPass, Visiting, InPass
    <2>2. RecordedMine'
      BY <1>1, <2>1, MineShrinks DEF GroundInv
    <2> QED BY <2>1, <2>2 DEF NothingKept, PlaceCleared
  <1> QED BY <1>2, <1>3

LEMMA GroundServe ==
    ASSUME GroundInv, Canonical, ServeFolder \/ ServeFails \/ ServeDone
    PROVE  NothingKept' /\ RecordedMine' /\ PlaceCleared'
  <1>0. pc = "serve" /\ InPass'
    BY DEF ServeFolder, ServeFails, ReportFailed, ServeDone, NextEntry, daemonVars, InPass
  <1>a. /\ W \in Workspaces /\ W.name \in Names /\ W.stack \notin Alien
        /\ MountedSoFar \subseteq FolderDirs(W) /\ FolderDirs(W) \subseteq Dirs
        /\ \A n \in Names : served[n] # None => FolderDirs(served[n]) \subseteq Dirs
    BY <1>0, MountedIn, WorkspaceType, DirsType, ConfigAssumption
       DEF GroundInv, ListedInv, TypeOK, DaemonType
  <1>1. CASE ServeFolder
    <2>1. /\ UNCHANGED <<pc, served, all, gone, todo, disturbed>> /\ W' = W
      BY <1>1, OneMore DEF GroundInv, ListedInv
    <2>2. PICK d \in FolderDirs(W) :
             /\ d \in Dirs /\ table[d] = "absent" /\ table'[d] = W.stack
             /\ \A e \in Dirs : e # d => table'[e] = table[e]
             /\ MountedSoFar' = MountedSoFar \cup {d}
      BY <1>1, OneMore DEF GroundInv, ListedInv
    <2>3. RecordedMine'
      BY <1>0, <1>a, <2>1, <2>2 DEF GroundInv, RecordedMine, Alien
    <2>4. PlaceCleared'
      <3>1. Under(all, W.target) \subseteq Dirs
        BY DEF Under, GroundInv, ListedInv, TypeOK, PassType
      <3> QED BY <1>0, <2>1, <2>2, <3>1 DEF GroundInv, PlaceCleared
    <2> QED BY <1>0, <2>3, <2>4 DEF NothingKept
  <1>2. CASE ServeFails
    <2>1. ServerUnmount(MountedSoFar) /\ served' = served /\ pc' = "visit"
      BY <1>2 DEF ServeFails, ReportFailed, ReleaseServer, NextEntry
    <2>2. RecordedMine'
      BY <2>1, UnmountKeeps, MineShrinks DEF GroundInv
    <2> QED BY <1>0, <2>1, <2>2 DEF NothingKept, PlaceCleared
  <1>3. CASE ServeDone
    <2>1. /\ table' = table /\ pc' = "visit" /\ served' = [served EXCEPT ![W.name] = W]
          /\ nth = Len(W.folders)
      BY <1>3 DEF ServeDone, NextEntry
    <2>2. \A n \in Names : IF n = W.name THEN served'[n] = W ELSE served'[n] = served[n]
      BY <2>1 DEF GroundInv, ListedInv, TypeOK, DaemonType
    <2>3. MountedSoFar = FolderDirs(W)
      BY <1>0, <2>1, MountedIn DEF GroundInv, ListedInv
    <2>4. RecordedMine'
      BY <1>0, <2>1, <2>2, <2>3 DEF GroundInv, RecordedMine
    <2> QED BY <1>0, <2>1, <2>4 DEF NothingKept, PlaceCleared
  <1> QED BY <1>1, <1>2, <1>3

LEMMA GroundMachine ==
    ASSUME GroundInv, Canonical, Undisputed,
           \/ BeginPass \/ TableUnreadable \/ Crash \/ Stop
           \/ \E c \in Configs \cup {Invalid} : Edit(c)
           \/ \E d \in Dirs, s \in Alien : Disturb(d, s)
    PROVE  NothingKept' /\ RecordedMine' /\ PlaceCleared'
  <1>1. CASE BeginPass
    <2>1. pc' = "drop" /\ UNCHANGED <<table, served>>
      BY <1>1 DEF BeginPass
    <2>2. RecordedMine'
      BY <2>1, MineShrinks DEF GroundInv
    <2> QED BY <2>1, <2>2 DEF NothingKept, PlaceCleared, InPass
  <1>2. CASE TableUnreadable
    <2>1. pc' = "idle" /\ UNCHANGED <<table, served, all, held, gone>> /\ ~InPass
      BY <1>2 DEF TableUnreadable, passVars, InPass
    <2>2. RecordedMine'
      BY <2>1, MineShrinks DEF GroundInv
    <2> QED BY <2>1, <2>2 DEF GroundInv, NothingKept, PlaceCleared
  <1>3. CASE Crash \/ Stop
    <2>1. pc' = "down" /\ served' = NoneServed /\ all' = {} /\ held' = {} /\ gone' = {}
      BY <1>3 DEF Crash, Stop, Exit
    <2> QED BY <2>1 DEF NothingKept, RecordedMine, PlaceCleared, NoneServed
  <1>4. CASE \E c \in Configs \cup {Invalid} : Edit(c)
    BY <1>4 DEF Edit, daemonVars, passVars, GroundInv, NothingKept, RecordedMine, PlaceCleared,
                InPass, MountedSoFar, W
  <1>5. ASSUME NEW d \in Dirs, NEW s \in Alien, Disturb(d, s)
        PROVE  NothingKept' /\ RecordedMine' /\ PlaceCleared'
    <2>1. /\ UNCHANGED <<pc, served, all, held, gone, todo>> /\ W' = W /\ disturbed'
          /\ MountedSoFar' = MountedSoFar
      BY <1>5 DEF Disturb, daemonVars, passVars, W, MountedSoFar
    <2>2. \A e \in Dirs : \/ table'[e] = table[e]
                          \/ table'[e] \in {"absent", "stale"}
                          \/ e = d /\ d \in Intruders
      BY <1>5 DEF Disturb, GroundInv, ListedInv, TypeOK, MachineType
    <2>3. \A w \in Workspaces : d \in FolderDirs(w) => d \notin Intruders
      BY PlainDirs DEF Undisputed
    <2>4. /\ \A n \in Names : served[n] # None =>
               served[n] \in Workspaces /\ FolderDirs(served[n]) \subseteq Dirs
          /\ pc = "serve" => W \in Workspaces /\ MountedSoFar \subseteq FolderDirs(W)
                             /\ FolderDirs(W) \subseteq Dirs
      BY MountedIn, DirsType DEF GroundInv, ListedInv, TypeOK, DaemonType
    <2>5. RecordedMine'
      BY <2>1, <2>2, <2>3, <2>4 DEF GroundInv, RecordedMine
    <2> QED BY <2>1, <2>5 DEF GroundInv, NothingKept, PlaceCleared, InPass
  <1> QED BY <1>1, <1>2, <1>3, <1>4, <1>5

LEMMA GroundInit == Init => GroundInv
  <1> SUFFICES ASSUME Init PROVE NothingKept /\ RecordedMine /\ PlaceCleared
    BY ListedInit DEF GroundInv
  <1>1. \A n \in Names : served[n] = None
    BY DEF Init, NoneServed
  <1> QED BY <1>1 DEF Init, NothingKept, RecordedMine, PlaceCleared

LEMMA GroundStep == Canonical /\ Undisputed /\ GroundInv /\ [Next]_vars => GroundInv'
  <1> SUFFICES ASSUME Canonical, Undisputed, GroundInv, [Next]_vars
               PROVE  NothingKept' /\ RecordedMine' /\ PlaceCleared'
    BY ListedStep DEF GroundInv
  <1>1. CASE BeginRefused \/ UNCHANGED vars
    BY <1>1 DEF BeginRefused, vars, daemonVars, passVars, GroundInv, NothingKept, RecordedMine,
                PlaceCleared, InPass, MountedSoFar, W
  <1> QED BY <1>1, GroundRelease, GroundUnmount, GroundVisit, GroundServe, GroundMachine
          DEF Next, PassStep

----------------------------------------------------------------------------
\* Every mount of a pass is one it read, vouches for or is making; every failure
\* has a reason of its own.

Tidy == Canonical /\ UniqueNames /\ Undisputed
KnownInv == GroundInv /\ MountsKnown /\ FailedVisited
SettledInv == KnownInv /\ NothingElseMounted /\ FailsAlone

\* What a record's or an entry's directories are.
LEMMA EntryDirs ==
    ASSUME TypeOK, NEW i \in 1..(at - 1)
    PROVE  /\ i \in 1..Len(config) /\ config[i] \in Declared(config)
           /\ config[i] \in Workspaces /\ config[i].name \in Names
           /\ FolderDirs(config[i]) \subseteq Dirs
  <1>1. i \in 1..Len(config) /\ Len(config) \in Nat
    BY EntryType DEF TypeOK, DaemonType, InRange
  <1>2. config[i] \in Declared(config) /\ config[i] \in Workspaces
    BY <1>1, EntryType DEF TypeOK, DaemonType
  <1> QED BY <1>1, <1>2, WorkspaceType, DirsType

\* Two entries of a file have two names, and share no directory.
LEMMA EntriesApart ==
    ASSUME TypeOK, Canonical, at <= Len(config), NEW i \in 1..(at - 1)
    PROVE  /\ FolderDirs(config[i]) \cap FolderDirs(W) = {}
           /\ UniqueNames => config[i].name # W.name
  <1>1. /\ i \in 1..Len(config) /\ at \in 1..Len(config) /\ i # at
        /\ config[i] \in Workspaces /\ W \in Workspaces
    BY EntryDirs, VisitedType, EntryType DEF TypeOK, DaemonType, InRange
  <1>2. config \in Configs
    <2>1. config # <<>>
      BY <1>1
    <2> QED BY <2>1 DEF TypeOK, DaemonType
  <1>3. ~Overlap(config[i].target, W.target)
    BY <1>1, <1>2, ConfigAssumption DEF Valid, W
  <1> QED BY <1>1, <1>2, <1>3, ApartDirs DEF UniqueNames, W

\* The entry being visited has not failed.
LEMMA NotFailedYet ==
    ASSUME KnownInv, Tidy, Calm, at <= Len(config)
    PROVE  W.name \notin failed
  <1>1. \A i \in 1..(at - 1) : config[i].name # W.name
    BY EntriesApart DEF Tidy, KnownInv, GroundInv, ListedInv
  <1> QED BY <1>1 DEF KnownInv, FailedVisited

\* What stands keeps standing, and so does what is established next.
LEMMA StandsStill ==
    ASSUME TypeOK, UNCHANGED config, at' \in {at, at + 1},
           \A i \in 1..(at - 1) : config[i].name \in failed' => config[i].name \in failed
    PROVE  \A d : Stands(d) => Stands(d)'
  <1>0. at \in Nat /\ (at' = at \/ at' = at + 1)
    BY EntryType DEF TypeOK, DaemonType, InRange
  <1>1. \A i \in 1..(at - 1) : i \in 1..(at' - 1)
    <2>1. CASE at' = at
      BY <2>1
    <2>2. CASE at' = at + 1
      BY <1>0, <2>2
    <2> QED BY <1>0, <2>1, <2>2
  <1> SUFFICES ASSUME NEW d, Stands(d) PROVE Stands(d)'
    OBVIOUS
  <1>2. PICK i \in 1..(at - 1) :
          config[i].enabled /\ config[i].name \notin failed /\ d \in FolderDirs(config[i])
    BY DEF Stands
  <1>3. i \in 1..(at' - 1) /\ config[i].name \notin failed'
    BY <1>1, <1>2
  <1> QED BY <1>2, <1>3 DEF Stands, FolderDirs, FolderDir

LEMMA StandsNext ==
    ASSUME KnownInv, Tidy, Calm, at <= Len(config), W.enabled, UNCHANGED <<config, failed>>,
           at' = at + 1
    PROVE  \A d \in FolderDirs(W) : Stands(d)'
  <1>1. W.name \notin failed /\ at \in 1..(at' - 1)
    BY NotFailedYet DEF KnownInv, GroundInv, ListedInv, TypeOK, InRange
  <1> QED BY <1>1 DEF Stands, W

\* A reason lasts: nothing a pass does removes another user's mount.
LEMMA ReasonLasts ==
    ASSUME NEW i, config[i] \in Workspaces, OwnReason(config[i]), UNCHANGED config,
           \A d \in Dirs : table[d] = "other" => table'[d] = "other"
    PROVE  OwnReason(config[i])'
  <1>1. KernelDirs(config[i]) \subseteq Dirs
    BY DirsType
  <1> QED BY <1>1 DEF OwnReason, RepeatsFolder

\* So what has failed so far keeps its reason as long as nothing else fails.
LEMMA FailedStill ==
    ASSUME KnownInv, Calm' => Calm, UNCHANGED <<config, failed>>, at' \in {at, at + 1},
           \A d \in Dirs : table[d] = "other" => table'[d] = "other"
    PROVE  FailedVisited'
  <1> SUFFICES ASSUME Calm, NEW n \in failed
               PROVE  \E i \in 1..(at' - 1) :
                        config[i].name = n /\ config[i].enabled /\ OwnReason(config[i])'
    BY DEF FailedVisited, OwnReason, RepeatsFolder
  <1>1. PICK i \in 1..(at - 1) : config[i].name = n /\ config[i].enabled /\ OwnReason(config[i])
    BY DEF KnownInv, FailedVisited
  <1>2. config[i] \in Workspaces /\ i \in 1..(at' - 1)
    BY EntryDirs DEF KnownInv, GroundInv, ListedInv, TypeOK, InRange
  <1> QED BY <1>1, <1>2, ReasonLasts

\* Releasing a record leaves nothing where it was, but a mount that was busy.
LEMMA ReleaseClears ==
    ASSUME GroundInv, Canonical, NEW n \in Names, ReleaseWorkspace(n),
           NEW d \in Dirs \ Contended, d \in gone' \ gone
    PROVE  table'[d] = "absent"
  <1>1. /\ served[n] # None /\ d \in FolderDirs(served[n]) /\ KernelDirs(served[n]) = FolderDirs(served[n])
        /\ ServerUnmount(KernelDirs(served[n]))
    BY PlainDirs DEF ReleaseWorkspace, GroundInv, ListedInv, TypeOK, DaemonType
  <1>2. table[d] # "other"
    BY <1>1 DEF GroundInv, RecordedMine
  <1> QED BY <1>1, <1>2 DEF ServerUnmount, Unmounted, Unmountable

LEMMA KnownRelease ==
    ASSUME KnownInv, Tidy,
           (\E n \in Names : DropUndeclared(n)) \/ VisitDisabled \/ VisitOutOfDate
    PROVE  MountsKnown' /\ FailedVisited'
  <1>1. PICK n \in Names : ReleaseWorkspace(n)
    BY VisitedType DEF DropUndeclared, VisitDisabled, VisitOutOfDate, Visiting, KnownInv,
                       GroundInv, ListedInv
  <1>2. /\ UNCHANGED <<config, failed, held, all, disturbed>> /\ at' \in {at, at + 1}
        /\ InPass /\ pc \notin {"serve", "sweep"} /\ pc' \notin {"serve", "sweep"} /\ TypeOK
    BY DEF DropUndeclared, VisitDisabled, VisitOutOfDate, Visiting, InPass, KnownInv, GroundInv,
           ListedInv
  <1>3. \A d : Stands(d) => Stands(d)'
    BY <1>2, StandsStill
  <1>4. /\ \A d \in Dirs : /\ table[d] = "other" => table'[d] = "other"
                           /\ table'[d] \in {table[d], "absent"}
        /\ \A d \in Dirs \ Contended : d \in gone' \ gone => table'[d] = "absent"
    BY <1>1, <1>2, ReleaseKeeps, ReleaseClears DEF KnownInv, Tidy
  <1>5. FailedVisited'
    BY <1>2, <1>4, FailedStill DEF Calm
  <1> QED BY <1>2, <1>3, <1>4, <1>5 DEF KnownInv, MountsKnown, Calm

LEMMA KnownUnmount ==
    ASSUME KnownInv, \E d \in Dirs : ReleaseUnder(d) \/ Sweep(d)
    PROVE  MountsKnown' /\ FailedVisited'
  <1>1. PICK d \in Dirs : ReleaseUnder(d) \/ Sweep(d)
    OBVIOUS
  <1>2. /\ UNCHANGED <<config, failed, held, all, disturbed, at, pc>> /\ InPass /\ pc # "serve"
        /\ table' = Unmounted({d}) /\ todo' = todo \ {d} /\ TypeOK
    BY <1>1 DEF ReleaseUnder, Sweep, daemonVars, InPass, KnownInv, GroundInv, ListedInv
  <1>3. \A e : Stands(e) => Stands(e)'
    BY <1>2, StandsStill
  <1>4. /\ \A e \in Dirs : /\ e # d => table'[e] = table[e]
                           /\ table[e] = "other" => table'[e] = "other"
        /\ table'[d] # "absent" => table'[d] = table[d] /\ ~Unmountable(d)
    <2>1. table'[d] # "absent" => table'[d] = table[d] /\ ~Unmountable(d)
      BY <1>2 DEF Unmounted
    <2> QED BY <1>2, <2>1, UnmountKeeps
  <1>5. FailedVisited'
    BY <1>2, <1>4, FailedStill DEF Calm, InPass
  <1>6. CASE ReleaseUnder(d)
    <2>1. pc = "under" /\ gone' = (IF Unmountable(d) THEN gone \cup {d} ELSE gone)
      BY <1>6 DEF ReleaseUnder
    <2> QED BY <1>2, <1>3, <1>4, <1>5, <2>1 DEF KnownInv, MountsKnown, Calm
  <1>7. CASE Sweep(d)
    <2>1. pc = "sweep" /\ strays' = (IF Unmountable(d) THEN strays ELSE strays \cup {d})
      BY <1>7 DEF Sweep
    <2> QED BY <1>2, <1>3, <1>4, <1>5, <2>1 DEF KnownInv, MountsKnown, Calm
  <1> QED BY <1>1, <1>6, <1>7

LEMMA KnownVisit ==
    ASSUME KnownInv, Tidy, EnterVisit \/ VisitHeld \/ EnterServe \/ EnterSweep
    PROVE  MountsKnown' /\ FailedVisited'
  <1>1. /\ UNCHANGED <<table, config, failed, all, gone, disturbed>> /\ InPass /\ InPass'
        /\ at' \in {at, at + 1} /\ pc \notin {"serve", "sweep"} /\ TypeOK
    BY DEF EnterVisit, VisitHeld, EnterServe, EnterSweep, Visiting, passVars, InPass, KnownInv,
           GroundInv, ListedInv
  <1>2. \A e : Stands(e) => Stands(e)'
    BY <1>1, StandsStill
  <1>3. FailedVisited'
    BY <1>1, FailedStill DEF Calm
  <1>4. ASSUME Calm PROVE \A d \in held' : Stands(d)'
    <2>1. \A d \in held : Stands(d)'
      BY <1>2, <1>4 DEF KnownInv, MountsKnown
    <2>2. CASE VisitHeld
      <3>1. \A d \in FolderDirs(W) : Stands(d)'
        BY <1>1, <1>4, <2>2, StandsNext DEF VisitHeld, Visiting
      <3> QED BY <2>1, <2>2, <3>1 DEF VisitHeld, VouchFor
    <2>3. CASE EnterVisit \/ EnterServe \/ EnterSweep
      BY <2>1, <2>3 DEF EnterVisit, EnterServe, EnterSweep, passVars
    <2> QED BY <2>2, <2>3
  <1>5. CASE EnterSweep
    <2>1. pc' = "sweep" /\ todo' = all \ (held \cup gone) /\ held' = held
      BY <1>5 DEF EnterSweep, Left
    <2> QED BY <1>1, <1>2, <1>3, <1>4, <2>1 DEF KnownInv, MountsKnown, Calm
  <1>6. CASE EnterVisit \/ VisitHeld \/ EnterServe
    <2>1. pc' # "sweep"
      BY <1>6 DEF EnterVisit, VisitHeld, EnterServe, Visiting
    <2> QED BY <1>1, <1>2, <1>3, <1>4, <2>1 DEF KnownInv, MountsKnown, Calm
  <1> QED BY <1>5, <1>6

\* An entry that cannot be established has a reason of its own: whatever occupies
\* one of its directories the pass could not release, and no other entry put there.
LEMMA FailsForReason ==
    ASSUME KnownInv, Tidy, ServeFails, ~disturbed
    PROVE  OwnReason(W)
  <1>0. /\ pc = "serve" /\ CannotServe /\ Calm /\ TypeOK /\ Canonical /\ at <= Len(config)
        /\ W \in Workspaces
    BY MountedIn, VisitedType DEF ServeFails, ReportFailed, Calm, InPass, KnownInv, GroundInv, ListedInv, Tidy, TypeOK, InRange
  <1>1. CASE W.stack \in Missing
    BY <1>1 DEF OwnReason
  <1>2. CASE nth < Len(W.folders) /\ (Occupied(FolderDir(W, nth + 1)) \/ FolderDir(W, nth + 1) \in Blocked)
    <2> DEFINE d == FolderDir(W, nth + 1)
    <2>1. /\ d \in FolderDirs(W) /\ d \in Dirs /\ RealDir(d) = d
          /\ nth \in Nat /\ nth + 1 \in 1..Len(W.folders)
          /\ KernelDirs(W) = FolderDirs(W) /\ d[1] = W.target
      BY <1>0, <1>2, MountedIn, PlainDirs
    <2>2. CASE d \in Blocked \cup Contended
      BY <2>1, <2>2 DEF OwnReason
    <2>3. CASE table[d] # "absent" /\ d \notin Contended
      <3>1. CASE d \in all \ gone
        <4>1. d \in Under(all, W.target)
          BY <1>0, <2>1, <3>1, WorkspaceType, PathAssumption DEF Under
        <4>2. table[d] = "other"
          BY <1>0, <3>1, <4>1 DEF KnownInv, GroundInv, PlaceCleared, Calm
        <4> QED BY <2>1, <4>2 DEF OwnReason
      <3>2. CASE Stands(d)
        BY <1>0, <2>1, <3>2, EntriesApart DEF Stands
      <3>3. CASE d \in MountedSoFar
        <4>1. PICK i \in 1..nth : d = RealDir(FolderDir(W, i))
          BY <3>3 DEF MountedSoFar
        <4>2. i \in 1..Len(W.folders) /\ i # nth + 1
          BY <1>0, <2>1, DirsType
        <4>3. W.folders[i] = W.folders[nth + 1]
          BY <1>0, <4>1, <4>2, PlainDirs DEF FolderDir
        <4> QED BY <2>1, <4>2, <4>3 DEF OwnReason, RepeatsFolder
      <3> QED BY <1>0, <2>1, <2>3, <3>1, <3>2, <3>3 DEF KnownInv, MountsKnown
    <2> QED BY <1>2, <2>1, <2>2, <2>3 DEF Occupied
  <1> QED BY <1>0, <1>1, <1>2 DEF CannotServe

LEMMA KnownServe ==
    ASSUME KnownInv, Tidy, ServeFolder \/ ServeFails \/ ServeDone
    PROVE  MountsKnown' /\ FailedVisited'
  <1>0. /\ pc = "serve" /\ InPass /\ InPass' /\ pc' # "sweep" /\ TypeOK /\ Canonical /\ UniqueNames
        /\ at <= Len(config) /\ UNCHANGED <<config, all, gone, disturbed>>
    BY DEF ServeFolder, ServeFails, ReportFailed, ServeDone, NextEntry, daemonVars, InPass, KnownInv, GroundInv,
           ListedInv, Tidy, TypeOK, InRange
  <1>1. CASE ServeFolder
    <2>1. /\ UNCHANGED <<pc, at, failed, held>> /\ W' = W
          /\ \E d \in FolderDirs(W) : /\ d \in Dirs /\ table[d] = "absent"
                                      /\ \A e \in Dirs : e # d => table'[e] = table[e]
                                      /\ MountedSoFar' = MountedSoFar \cup {d}
      BY <1>0, <1>1, OneMore
    <2>2. \A e : Stands(e) => Stands(e)'
      BY <1>0, <2>1, StandsStill
    <2>3. FailedVisited'
      BY <1>0, <2>1, FailedStill DEF Calm
    <2> QED BY <1>0, <2>1, <2>2, <2>3 DEF KnownInv, MountsKnown, Calm
  <1>2. CASE ServeFails
    <2>1. /\ failed' = failed \cup {W.name} /\ at' = at + 1 /\ pc' = "visit"
          /\ UNCHANGED held /\ ServerUnmount(MountedSoFar)
      BY <1>2 DEF ServeFails, ReportFailed, NextEntry, ReleaseServer
    <2>2. \A i \in 1..(at - 1) : config[i].name # W.name
      BY <1>0, EntriesApart
    <2>3. \A e : Stands(e) => Stands(e)'
      BY <1>0, <2>1, <2>2, StandsStill
    <2>4. \A e \in Dirs : /\ table[e] = "other" => table'[e] = "other"
                          /\ table'[e] \in {table[e], "absent"}
      BY <2>1, UnmountKeeps
    <2>5. ASSUME NEW e \in Dirs \ Contended, e \in MountedSoFar PROVE table'[e] = "absent"
      <3>1. table[e] # "other"
        BY <1>0, <2>5 DEF KnownInv, GroundInv, RecordedMine
      <3> QED BY <2>1, <2>5, <3>1 DEF ServerUnmount, Unmounted, Unmountable
    <2>6. FailedVisited'
      <3> SUFFICES ASSUME Calm, NEW n \in failed'
                   PROVE  \E i \in 1..(at' - 1) :
                            config[i].name = n /\ config[i].enabled /\ OwnReason(config[i])'
        BY <1>0, <2>1 DEF FailedVisited, OwnReason, RepeatsFolder, Calm
      <3>1. at \in 1..(at' - 1) /\ 1..(at - 1) \subseteq 1..(at' - 1)
        BY <1>0, <2>1 DEF TypeOK, InRange
      <3>2. CASE n = W.name
        <4>1. OwnReason(W) /\ W \in Workspaces /\ W.enabled
          BY <1>0, <1>2, FailsForReason, VisitedType DEF Calm, KnownInv, GroundInv, PlaceCleared
        <4>2. OwnReason(config[at]) /\ config[at] \in Workspaces /\ config[at].enabled
          BY <4>1 DEF W
        <4>3. PICK i \in 1..(at' - 1) : i = at
          BY <3>1
        <4>4. OwnReason(config[i])'
          BY <1>0, <2>4, <4>2, <4>3, ReasonLasts
        <4> QED BY <1>0, <3>2, <4>2, <4>3, <4>4 DEF W
      <3>3. CASE n \in failed
        <4>1. PICK i \in 1..(at - 1) :
                config[i].name = n /\ config[i].enabled /\ OwnReason(config[i])
          BY <3>3 DEF KnownInv, FailedVisited
        <4>2. config[i] \in Workspaces
          BY <1>0, EntryDirs
        <4> QED BY <1>0, <2>4, <3>1, <4>1, <4>2, ReasonLasts
      <3> QED BY <2>1, <3>2, <3>3
    <2> QED BY <1>0, <2>1, <2>3, <2>4, <2>5, <2>6 DEF KnownInv, MountsKnown, Calm
  <1>3. CASE ServeDone
    <2>1. /\ UNCHANGED <<table, failed>> /\ at' = at + 1 /\ pc' = "visit"
          /\ held' = held \cup FolderDirs(W) /\ nth = Len(W.folders)
      BY <1>3 DEF ServeDone, NextEntry, VouchFor
    <2>2. \A e : Stands(e) => Stands(e)'
      BY <1>0, <2>1, StandsStill
    <2>3. FailedVisited'
      BY <1>0, <2>1, FailedStill DEF Calm
    <2>4. MountedSoFar = FolderDirs(W) /\ W.enabled
      BY <1>0, <2>1, MountedIn DEF KnownInv, GroundInv, PlaceCleared
    <2>5. Calm => \A d \in FolderDirs(W) : Stands(d)'
      BY <1>0, <2>1, <2>4, StandsNext
    <2> QED BY <1>0, <2>1, <2>2, <2>3, <2>4, <2>5 DEF KnownInv, MountsKnown, Calm
  <1> QED BY <1>1, <1>2, <1>3

LEMMA KnownStep == Tidy /\ KnownInv /\ [Next]_vars => KnownInv'
  <1> SUFFICES ASSUME Tidy, KnownInv, [Next]_vars PROVE MountsKnown' /\ FailedVisited'
    BY GroundStep DEF KnownInv, Tidy
  <1>1. CASE BeginPass
    <2>1. /\ all' = Listed /\ held' = {} /\ gone' = {} /\ failed' = {} /\ pc' = "drop"
          /\ table' = table
      BY <1>1 DEF BeginPass, ClearReports, KnownInv, GroundInv, NothingKept, InPass
    <2> QED BY <2>1 DEF MountsKnown, FailedVisited, Listed
  <1>2. CASE TableUnreadable \/ EndPass \/ Crash \/ Stop \/ \E d \in Dirs, s \in Alien : Disturb(d, s)
    <2>1. ~Calm'
      BY <1>2 DEF TableUnreadable, EndPass, Crash, Stop, Exit, Disturb, Calm, InPass
    <2> QED BY <2>1 DEF MountsKnown, FailedVisited
  <1>3. CASE BeginRefused \/ UNCHANGED vars \/ \E c \in Configs \cup {Invalid} : Edit(c)
    BY <1>3 DEF BeginRefused, Edit, vars, daemonVars, passVars, KnownInv, MountsKnown,
                FailedVisited, Stands, OwnReason, RepeatsFolder, Calm, InPass, MountedSoFar, W
  <1> QED BY <1>1, <1>2, <1>3, KnownRelease, KnownUnmount, KnownVisit, KnownServe
          DEF Next, PassStep

LEMMA KnownInit == Init => SettledInv
  BY GroundInit DEF SettledInv, KnownInv, Init, MountsKnown, FailedVisited, Calm, InPass,
                    NothingElseMounted, FailsAlone, Settled

\* At the end of the sweep all that is mounted stands, or is another user's.
LEMMA SettledEnd ==
    ASSUME KnownInv, Tidy, EndPass
    PROVE  NothingElseMounted' /\ FailsAlone'
  <1>0. /\ pc = "sweep" /\ todo = {} /\ TypeOK
        /\ UNCHANGED <<table, config, failed, strays, disturbed>>
    BY DEF EndPass, KnownInv, GroundInv, ListedInv
  <1>1. ASSUME NEW i \in 1..(at - 1), config[i].enabled
        PROVE  config[i] \in Wanted' /\ KernelDirs(config[i]) = FolderDirs(config[i])
    BY <1>0, <1>1, EntryDirs, PlainDirs DEF Wanted, Tidy
  <1>2. NothingElseMounted'
    <2> SUFFICES ASSUME ~disturbed, NEW d \in Dirs \ Contended, table[d] # "absent"
                 PROVE  \/ d \in strays /\ table[d] = "other"
                        \/ \E w \in Wanted' : w.name \notin failed /\ d \in KernelDirs(w)
      BY <1>0 DEF NothingElseMounted, Settled
    <2>1. d \in strays \/ Stands(d)
      BY <1>0 DEF KnownInv, MountsKnown, Calm, InPass
    <2>2. d \in strays => table[d] = "other"
      BY DEF KnownInv, GroundInv, ListedInv, StillListed
    <2> QED BY <1>1, <2>1, <2>2 DEF Stands
  <1>3. FailsAlone'
    <2> SUFFICES ASSUME ~disturbed, NEW n \in failed
                 PROVE  \E w \in Wanted' : w.name = n /\ OwnReason(w)
      BY <1>0 DEF FailsAlone, Settled, OwnReason, RepeatsFolder
    <2>1. PICK i \in 1..(at - 1) : config[i].name = n /\ config[i].enabled /\ OwnReason(config[i])
      BY <1>0 DEF KnownInv, FailedVisited, Calm, InPass
    <2> QED BY <1>1, <2>1
  <1> QED BY <1>2, <1>3

LEMMA SettledStep == Tidy /\ SettledInv /\ [Next]_vars => SettledInv'
  <1> SUFFICES ASSUME Tidy, SettledInv, [Next]_vars PROVE NothingElseMounted' /\ FailsAlone'
    BY KnownStep DEF SettledInv
  <1>1. CASE EndPass
    BY <1>1, SettledEnd DEF SettledInv
  <1>2. CASE BeginRefused \/ UNCHANGED vars \/ \E c \in Configs \cup {Invalid} : Edit(c)
    BY <1>2 DEF BeginRefused, Edit, vars, daemonVars, passVars, SettledInv, NothingElseMounted,
                FailsAlone, Settled, Wanted, OwnReason, RepeatsFolder
  <1>3. CASE TableUnreadable \/ \E d \in Dirs, s \in Alien : Disturb(d, s)
    BY <1>3 DEF TableUnreadable, Disturb, NothingElseMounted, FailsAlone, Settled
  <1>4. CASE BeginPass \/ Crash \/ Stop
    BY <1>4 DEF BeginPass, Crash, Stop, Exit, NothingElseMounted, FailsAlone, Settled
  <1>5. CASE PassStep /\ ~EndPass
    <2>1. pc' # "idle"
      BY <1>5 DEF PassStep, DropUndeclared, EnterVisit, VisitDisabled, VisitHeld, VisitOutOfDate,
                  Visiting, ReleaseUnder, EnterServe, ServeFolder, ServeFails, ReportFailed, ServeDone,
                  NextEntry, EnterSweep, Sweep, daemonVars
    <2> QED BY <2>1 DEF NothingElseMounted, FailsAlone, Settled
  <1> QED BY <1>1, <1>2, <1>3, <1>4, <1>5 DEF Next

\* Once a pass has ended undisturbed, nothing is mounted but what is declared and
\* has not failed, another user's mounts, reported as such, and busy mounts.
THEOREM NothingElseIsMounted ==
    ASSUME Canonical, UniqueNames, Undisputed
    PROVE  Spec => []NothingElseMounted
  <1>0. Tidy
    BY DEF Tidy
  <1>1. Init => SettledInv
    BY KnownInit
  <1>2. SettledInv /\ [Next]_vars => SettledInv'
    BY <1>0, SettledStep
  <1>3. SettledInv => NothingElseMounted
    BY DEF SettledInv
  <1> QED BY <1>1, <1>2, <1>3, PTL DEF Spec

\* And what has failed in it failed for a reason of its own: no workspace fails
\* because of another one, or of an earlier pass.
THEOREM FailsForItself ==
    ASSUME Canonical, UniqueNames, Undisputed
    PROVE  Spec => []FailsAlone
  <1>0. Tidy
    BY DEF Tidy
  <1>1. Init => SettledInv
    BY KnownInit
  <1>2. SettledInv /\ [Next]_vars => SettledInv'
    BY <1>0, SettledStep
  <1>3. SettledInv => FailsAlone
    BY DEF SettledInv
  <1> QED BY <1>1, <1>2, <1>3, PTL DEF Spec

----------------------------------------------------------------------------
\* What is established and live when a pass has visited it is so when it ends.

Fair == Plain /\ Undisputed
LiveInv == LeaveInv /\ GroundInv /\ RecordedOwn /\ UnvisitedLive /\ VisitedLive
WantedInv == LiveInv /\ WantedIsMounted

\* Releasing a record leaves the directories of every other as they are.
LEMMA ReleaseApart ==
    ASSUME LeaveInv, Plain, NEW m \in Names, ReleaseWorkspace(m),
           NEW n \in Names, served'[n] # None
    PROVE  /\ n # m /\ served'[n] = served[n]
           /\ \A d \in FolderDirs(served[n]) : table'[d] = table[d]
  <1>1. n # m /\ served'[n] = served[n] /\ served[n] \in Workspaces
    BY ReleaseShrinks DEF LeaveInv, AccountInv, TypeOK, DaemonType
  <1>2. ASSUME NEW d \in FolderDirs(served[n]) PROVE table'[d] = table[d]
    <2>1. d \in Dirs
      BY <1>1, DirsType
    <2>2. served[m] # None => d \notin KernelDirs(served[m])
      <3>1. CASE served[m] # None
        <4>1. served[m] \in Workspaces /\ ~Overlap(served[n].target, served[m].target)
          BY <1>1, <3>1 DEF LeaveInv, PassInv, RecordsApart, AccountInv, TypeOK, DaemonType
        <4>2. KernelDirs(served[m]) = FolderDirs(served[m])
          BY <4>1, PlainDirs DEF Plain
        <4>3. FolderDirs(served[n]) \cap FolderDirs(served[m]) = {}
          BY <1>1, <4>1, ApartDirs DEF Plain
        <4> QED BY <4>2, <4>3
      <3> QED BY <3>1
    <2> QED BY <2>1, <2>2, ReleaseShrinks DEF LeaveInv, AccountInv
  <1> QED BY <1>1, <1>2

\* No record overlaps the entry being established.
LEMMA RecordedClear ==
    ASSUME LeaveInv, Plain, pc \in {"under", "serve"}, NEW n \in Names, served[n] # None
    PROVE  /\ n # W.name
           /\ FolderDirs(served[n]) \cap FolderDirs(W) = {}
           /\ FolderDirs(served[n]) \cap Under(all, W.target) = {}
  <1>1. /\ at <= Len(config) /\ W \in Declared(config) /\ W \in Workspaces /\ n # W.name
        /\ n \in NamesOf(config)
    BY NameAt DEF LeaveInv, AccountInv, TypeOK, InRange, PassInv, NotServedYet, RecordsDeclared,
                  InPass
  <1>2. served[n] \in Workspaces /\ ~Overlap(served[n].target, W.target)
    BY <1>1, RecordedApart
  <1> QED BY <1>1, <1>2, ApartDirs DEF Plain

\* A step of a pass before the sweep leaves the directories of every record it
\* keeps as they are.
LEMMA RecordsUntouched ==
    ASSUME LeaveInv, Plain, PassStep, pc # "sweep", NEW n \in Names, served[n] # None,
           served'[n] # None
    PROVE  \A d \in FolderDirs(served[n]) : table'[d] = table[d]
  <1>0. TypeOK /\ Canonical /\ FolderDirs(served[n]) \subseteq Dirs
    BY DirsType DEF LeaveInv, AccountInv, TypeOK, DaemonType, Plain
  <1>1. CASE (\E m \in Names : DropUndeclared(m)) \/ VisitDisabled \/ VisitOutOfDate
    <2>1. \E m \in Names : ReleaseWorkspace(m)
      BY <1>0, <1>1, VisitedType DEF DropUndeclared, VisitDisabled, VisitOutOfDate, Visiting
    <2> QED BY <2>1, ReleaseApart
  <1>2. ASSUME NEW e \in Dirs, ReleaseUnder(e)
        PROVE  \A d \in FolderDirs(served[n]) : table'[d] = table[d]
    <2>1. e \in Under(all, W.target) /\ table' = Unmounted({e}) /\ pc = "under"
      BY <1>2 DEF ReleaseUnder, LeaveInv, PassInv, TodoOutside
    <2>2. e \notin FolderDirs(served[n])
      BY <2>1, RecordedClear
    <2> QED BY <1>0, <2>1, <2>2, UnmountKeeps
  <1>3. CASE ServeFolder
    <2>1. FolderDirs(served[n]) \cap FolderDirs(W) = {}
      BY <1>3, RecordedClear DEF ServeFolder
    <2>2. PICK e \in FolderDirs(W) : \A d \in Dirs : d # e => table'[d] = table[d]
      BY <1>0, <1>3, OneMore
    <2> QED BY <1>0, <2>1, <2>2
  <1>4. CASE ServeFails
    <2>1. pc = "serve" /\ ServerUnmount(MountedSoFar)
      BY <1>4 DEF ServeFails, ReportFailed, ReleaseServer
    <2>2. FolderDirs(served[n]) \cap MountedSoFar = {}
      BY <1>0, <2>1, RecordedClear, MountedIn
    <2> QED BY <1>0, <2>1, <2>2, UnmountKeeps
  <1>5. CASE EnterVisit \/ VisitHeld \/ EnterServe \/ ServeDone \/ EnterSweep
    BY <1>5 DEF EnterVisit, VisitHeld, EnterServe, ServeDone, EnterSweep
  <1>6. CASE EndPass \/ \E d \in Dirs : Sweep(d)
    BY <1>6 DEF EndPass, Sweep
  <1> QED BY <1>1, <1>2, <1>3, <1>4, <1>5, <1>6 DEF PassStep

\* A pass is one of a single configuration, and disturbs no mount but as it means to.
LEMMA PassKeeps ==
    ASSUME PassStep
    PROVE  UNCHANGED <<config, disturbed>>
  BY DEF PassStep, DropUndeclared, EnterVisit, VisitDisabled, VisitHeld, VisitOutOfDate,
         ReleaseUnder, EnterServe, ServeFolder, ServeFails, ReportFailed, ServeDone, EnterSweep, Sweep,
         EndPass, daemonVars

\* What the steps of a pass change among the records.
LEMMA RecordStep ==
    ASSUME LeaveInv, Plain, PassStep, NEW n \in Names
    PROVE  /\ served'[n] # None => served'[n] = served[n] \/ (ServeDone /\ n = W.name)
           /\ n \in NamesOf(config) /\ (at <= Len(config) => n # W.name) => served'[n] = served[n]
  <1>0. TypeOK
    BY DEF LeaveInv, AccountInv
  <1>1. ASSUME NEW m \in Names, ReleaseWorkspace(m)
        PROVE  served'[n] # None => served'[n] = served[n]
    BY <1>0, <1>1, ReleaseShrinks
  <1>2. ASSUME NEW m \in Names, ReleaseWorkspace(m), m # n
        PROVE  served'[n] = served[n]
    BY <1>0, <1>2 DEF ReleaseWorkspace, TypeOK, DaemonType
  <1>3. ASSUME NEW m \in Names, DropUndeclared(m)
        PROVE  /\ served'[n] # None => served'[n] = served[n]
               /\ n \in NamesOf(config) => served'[n] = served[n]
    BY <1>1, <1>2, <1>3 DEF DropUndeclared
  <1>4. CASE VisitDisabled \/ VisitOutOfDate
    <2>1. W.name \in Names /\ at <= Len(config) /\ ReleaseWorkspace(W.name)
      BY <1>0, <1>4, VisitedType DEF VisitDisabled, VisitOutOfDate, Visiting
    <2> QED BY <1>1, <1>2, <2>1
  <1>5. CASE ServeDone
    <2>1. W.name \in Names /\ at <= Len(config) /\ served' = [served EXCEPT ![W.name] = W]
      BY <1>0, <1>5, VisitedType DEF ServeDone, TypeOK, InRange
    <2> QED BY <1>0, <1>5, <2>1 DEF TypeOK, DaemonType
  <1>6. CASE \/ EnterVisit \/ VisitHeld \/ EnterServe \/ ServeFolder \/ ServeFails \/ EnterSweep
             \/ EndPass \/ \E d \in Dirs : ReleaseUnder(d) \/ Sweep(d)
    BY <1>6 DEF EnterVisit, VisitHeld, EnterServe, ServeFolder, ServeFails, ReportFailed, EnterSweep, EndPass,
                ReleaseUnder, Sweep, daemonVars
  <1> QED BY <1>3, <1>4, <1>5, <1>6 DEF PassStep

\* The steps of a pass, for what is recorded and what is being established.
LEMMA OwnPass ==
    ASSUME LiveInv, Plain, PassStep
    PROVE  RecordedOwn'
  <1>0. /\ TypeOK /\ Canonical /\ LeaveInv
        /\ \A n \in Names : served[n] # None => FolderDirs(served[n]) \subseteq Dirs
        /\ "absent" \notin Stacks
    BY DirsType, ConfigAssumption
       DEF LiveInv, LeaveInv, AccountInv, TypeOK, DaemonType, Plain, Alien
  <1>1. ASSUME \A n \in Names : served'[n] # None => served'[n] = served[n],
               \A d \in Dirs : table'[d] \in {table[d], "absent"},
               pc' = "serve" => MountedSoFar' = {}
        PROVE  RecordedOwn'
    BY <1>0, <1>1 DEF LiveInv, RecordedOwn
  <1>2. CASE (\E n \in Names : DropUndeclared(n)) \/ VisitDisabled \/ VisitOutOfDate
    <2>1. PICK n \in Names : ReleaseWorkspace(n)
      BY <1>0, <1>2, VisitedType DEF DropUndeclared, VisitDisabled, VisitOutOfDate, Visiting
    <2>2. pc' # "serve"
      BY <1>2 DEF DropUndeclared, VisitDisabled, VisitOutOfDate, Visiting
    <2> QED BY <1>0, <1>1, <2>1, <2>2, ReleaseShrinks, ReleaseKeeps
  <1>3. CASE \E d \in Dirs : ReleaseUnder(d) \/ Sweep(d)
    <2>1. PICK d \in Dirs : table' = Unmounted({d}) /\ served' = served /\ pc' # "serve"
      BY <1>3 DEF ReleaseUnder, Sweep, daemonVars
    <2> QED BY <1>1, <2>1, UnmountKeeps
  <1>4. CASE EnterServe
    <2>1. MountedSoFar' = {} /\ UNCHANGED <<table, served>>
      BY <1>0, <1>4 DEF EnterServe, passVars, TypeOK, InRange, MountedSoFar
    <2> QED BY <1>1, <2>1
  <1>5. CASE EnterVisit \/ VisitHeld \/ EnterSweep \/ EndPass
    <2>1. UNCHANGED <<table, served>> /\ pc' # "serve"
      BY <1>5 DEF EnterVisit, VisitHeld, EnterSweep, EndPass, Visiting
    <2> QED BY <1>1, <2>1
  <1>6. CASE ServeFolder
    <2>1. /\ pc = "serve" /\ UNCHANGED <<pc, served, disturbed>> /\ W' = W
          /\ FolderDirs(W) \subseteq Dirs /\ MountedSoFar \subseteq FolderDirs(W)
      BY <1>0, <1>6, OneMore, MountedIn, DirsType DEF ServeFolder
    <2>2. PICK d \in FolderDirs(W) : /\ d \in Dirs /\ table'[d] = W.stack
                                     /\ \A e \in Dirs : e # d => table'[e] = table[e]
                                     /\ MountedSoFar' = MountedSoFar \cup {d}
      BY <1>0, <1>6, OneMore
    <2>3. \A n \in Names : served[n] # None => d \notin FolderDirs(served[n])
      BY <1>0, <2>1, RecordedClear
    <2> QED BY <1>0, <2>1, <2>2, <2>3 DEF LiveInv, RecordedOwn
  <1>7. CASE ServeFails
    <2>1. ServerUnmount(MountedSoFar) /\ served' = served /\ pc' = "visit"
      BY <1>7 DEF ServeFails, ReportFailed, ReleaseServer, NextEntry
    <2> QED BY <1>1, <2>1, UnmountKeeps
  <1>8. CASE ServeDone
    <2>1. /\ table' = table /\ pc = "serve" /\ pc' = "visit" /\ nth = Len(W.folders)
          /\ served' = [served EXCEPT ![W.name] = W]
      BY <1>8 DEF ServeDone, NextEntry
    <2>2. MountedSoFar = FolderDirs(W)
      BY <1>0, <2>1, MountedIn
    <2>3. \A n \in Names : served'[n] = IF n = W.name THEN W ELSE served[n]
      BY <1>0, <2>1 DEF TypeOK, DaemonType
    <2> QED BY <2>1, <2>2, <2>3 DEF LiveInv, RecordedOwn
  <1> QED BY <1>2, <1>3, <1>4, <1>5, <1>6, <1>7, <1>8 DEF PassStep

LEMMA UnvisitedPass ==
    ASSUME LiveInv, Plain, PassStep
    PROVE  UnvisitedLive'
  <1>0. LeaveInv /\ TypeOK /\ UNCHANGED <<config, disturbed>>
    BY PassKeeps DEF LiveInv, LeaveInv, AccountInv
  <1>1. CASE pc = "sweep"
    <2>1. ASSUME NEW n \in Names, served[n] # None, at' = at PROVE Visited(n)'
      <3>1. at = Len(config) + 1 /\ n \in NamesOf(config) /\ Len(config) \in Nat
        BY <1>0, <1>1, <2>1, EntryType DEF LeaveInv, PassInv, TodoOutside, RecordsDeclared,
                                           InPass, TypeOK, DaemonType
      <3>2. PICK i \in 1..Len(config) : config[i].name = n
        BY <3>1 DEF NamesOf, Declared
      <3> QED BY <1>0, <2>1, <3>1, <3>2 DEF Visited
    <2>2. EndPass \/ (served' = served /\ at' = at)
      BY <1>1 DEF PassStep, DropUndeclared, EnterVisit, VisitDisabled, VisitHeld, VisitOutOfDate,
                  Visiting, ReleaseUnder, EnterServe, ServeFolder, ServeFails, ReportFailed, ServeDone,
                  EnterSweep, Sweep
    <2>3. EndPass => ~Calm'
      BY DEF EndPass, Calm, InPass
    <2> QED BY <2>1, <2>2, <2>3 DEF UnvisitedLive
  <1>2. CASE pc # "sweep"
    <2>1. /\ UNCHANGED <<all, allStale>> /\ InPass
          /\ at' = at \/ at' = at + 1
          /\ ServeDone => at' = at + 1
      BY <1>2 DEF PassStep, DropUndeclared, EnterVisit, VisitDisabled, VisitHeld, VisitOutOfDate,
                  Visiting, ReleaseUnder, EnterServe, ServeFolder, ServeFails, ReportFailed, ServeDone,
                  NextEntry, EnterSweep, Sweep, EndPass, passVars, daemonVars, InPass
    <2>2. at \in Nat
      BY <1>0 DEF TypeOK, InRange
    <2>3. ASSUME NEW n \in Names, served'[n] # None, ~Visited(n)'
          PROVE  /\ served'[n] = served[n] /\ ~Visited(n)
                 /\ \A d \in FolderDirs(served[n]) : table'[d] = table[d]
      <3>1. ~Visited(n)
        <4>1. CASE at' = at
          BY <1>0, <2>3, <4>1 DEF Visited
        <4>2. CASE at' = at + 1
          BY <1>0, <2>2, <2>3, <4>2 DEF Visited
        <4> QED BY <2>1, <4>1, <4>2
      <3>2. ~(ServeDone /\ n = W.name)
        <4>1. SUFFICES ASSUME ServeDone, n = W.name PROVE FALSE
          OBVIOUS
        <4>2. at' = at + 1 /\ at \in 1..(at' - 1) /\ config'[at].name = n
          <5>1. at \in 1..Len(config)
            BY <1>0, <4>1, EntryType DEF ServeDone, TypeOK, DaemonType, InRange
          <5> QED BY <1>0, <2>1, <2>2, <4>1, <5>1 DEF W
        <4> QED BY <2>3, <4>2 DEF Visited
      <3>3. served'[n] = served[n]
        BY <1>0, <2>3, <3>2, RecordStep
      <3> QED BY <1>0, <1>2, <2>3, <3>1, <3>3, RecordsUntouched
    <2> QED BY <1>0, <2>1, <2>3 DEF LiveInv, UnvisitedLive, Calm
  <1> QED BY <1>1, <1>2

\* A workspace held by the pass is live: it was when the table was read, and no
\* step of the pass has touched it since.
LEMMA HeldIsLive ==
    ASSUME LiveInv, Plain, VisitHeld, ~disturbed
    PROVE  HeldLive(W)
  <1>0. /\ LeaveInv /\ at <= Len(config) /\ Calm
        /\ SameAs(W, served[W.name]) /\ FolderDirs(W) \subseteq all \ allStale
    BY DEF LiveInv, VisitHeld, Visiting, Holds, Calm, InPass
  <1>1. W \in Workspaces /\ W.name \in Names /\ ~Visited(W.name)
    BY <1>0, NameAt
  <1>2. /\ served[W.name] # None /\ served[W.name].stack = W.stack
        /\ served[W.name].target = W.target /\ served[W.name].folders = W.folders
    BY <1>0 DEF SameAs
  <1>3. FolderDirs(served[W.name]) = FolderDirs(W)
    BY <1>2 DEF FolderDirs, FolderDir
  <1>4. KernelDirs(W) = FolderDirs(W)
    BY <1>1, PlainDirs DEF Plain
  <1>5. \A d \in FolderDirs(W) : table[d] = W.stack
    BY <1>0, <1>1, <1>2, <1>3 DEF LiveInv, UnvisitedLive
  <1> QED BY <1>0, <1>4, <1>5 DEF HeldLive, Serving

\* So is one the pass has just established.
LEMMA DoneIsLive ==
    ASSUME LiveInv, Plain, ServeDone, ~disturbed
    PROVE  W \in Workspaces /\ served'[W.name] = W /\ Serving(W)
  <1>1. /\ TypeOK /\ Canonical /\ pc = "serve" /\ nth = Len(W.folders)
        /\ served' = [served EXCEPT ![W.name] = W]
    BY DEF LiveInv, LeaveInv, AccountInv, Plain, ServeDone
  <1>2. W \in Workspaces /\ W.name \in Names /\ MountedSoFar = FolderDirs(W)
        /\ KernelDirs(W) = FolderDirs(W)
    BY <1>1, MountedIn, WorkspaceType, PlainDirs
  <1>3. \A d \in FolderDirs(W) : table[d] = W.stack
    BY <1>1, <1>2 DEF LiveInv, RecordedOwn
  <1> QED BY <1>1, <1>2, <1>3 DEF Serving, TypeOK, DaemonType

LEMMA VisitedPass ==
    ASSUME LiveInv, Plain, PassStep
    PROVE  VisitedLive'
  <1>0. LeaveInv /\ TypeOK /\ Canonical /\ UniqueNames /\ UNCHANGED <<config, disturbed>>
    BY PassKeeps DEF LiveInv, LeaveInv, AccountInv, Plain
  <1>1. CASE EndPass
    BY <1>1 DEF EndPass, VisitedLive, Calm, InPass
  <1>2. CASE ~EndPass
    <2>1. /\ InPass /\ failed \subseteq failed'
          /\ \/ at' = at
             \/ at' = at + 1 /\ at <= Len(config)
                /\ (VisitDisabled \/ VisitHeld \/ ServeFails \/ ServeDone)
      <3>1. pc = "serve" => at <= Len(config)
        BY <1>0 DEF TypeOK, InRange
      <3> QED BY <1>2, <3>1 DEF PassStep, DropUndeclared, EnterVisit, VisitDisabled, VisitHeld,
                  VisitOutOfDate, Visiting, ReleaseUnder, EnterServe, ServeFolder, ServeFails, ReportFailed,
                  ServeDone, NextEntry, EnterSweep, Sweep, passVars, daemonVars, InPass
    <2> SUFFICES ASSUME ~disturbed, NEW i \in 1..(at' - 1), config[i].enabled,
                        config[i].name \notin failed'
                 PROVE  HeldLive(config[i])'
      BY <1>0 DEF VisitedLive, Calm
    <2>2. at \in Nat
      BY <1>0 DEF TypeOK, InRange
    <2>3. CASE i \in 1..(at - 1)
      <3> DEFINE w == config[i]
      <3>1. /\ w \in Declared(config) /\ w \in Workspaces /\ w.name \in Names
            /\ at <= Len(config) => w.name # W.name
        BY <1>0, <2>3, EntryDirs, EntriesApart
      <3>2. HeldLive(w) /\ w \in Wanted /\ w.name \in NamesOf(config)
        BY <2>1, <2>3, <3>1 DEF LiveInv, VisitedLive, Calm, Wanted, NamesOf
      <3>3. \A d \in KernelDirs(w) : table'[d] = table[d]
        BY <1>0, <3>2, LeftAlone
      <3>4. served'[w.name] = served[w.name]
        BY <1>0, <3>1, <3>2, RecordStep
      <3> QED BY <1>0, <3>2, <3>3, <3>4 DEF HeldLive, Serving
    <2>4. CASE i = at /\ i \notin 1..(at - 1)
      <3>1. /\ at' = at + 1 /\ at <= Len(config) /\ W = config[i]
            /\ VisitDisabled \/ VisitHeld \/ ServeFails \/ ServeDone
        BY <2>1, <2>2, <2>4 DEF W
      <3>2. CASE VisitDisabled
        BY <3>1, <3>2 DEF VisitDisabled
      <3>3. CASE ServeFails
        BY <3>1, <3>3 DEF ServeFails, ReportFailed
      <3>4. CASE VisitHeld
        <4>1. HeldLive(W) /\ UNCHANGED <<table, served>>
          BY <3>4, HeldIsLive DEF VisitHeld
        <4> QED BY <1>0, <3>1, <4>1 DEF HeldLive, Serving
      <3>5. CASE ServeDone
        <4>1. W \in Workspaces /\ served'[W.name] = W /\ Serving(W) /\ table' = table
          BY <3>5, DoneIsLive DEF ServeDone
        <4>2. W # None
          BY <4>1, WorkspaceType
        <4> QED BY <1>0, <3>1, <4>1, <4>2 DEF HeldLive, Serving, SameAs
      <3> QED BY <3>1, <3>2, <3>3, <3>4, <3>5
    <2> QED BY <2>1, <2>2, <2>3, <2>4
  <1> QED BY <1>1, <1>2

\* The start of a pass, and the rest of the machine.
LEMMA LiveMachine ==
    ASSUME LiveInv,
           \/ BeginPass \/ BeginRefused \/ TableUnreadable \/ Crash \/ Stop
           \/ \E c \in Configs \cup {Invalid} : Edit(c)
           \/ \E d \in Dirs, s \in Alien : Disturb(d, s)
           \/ UNCHANGED vars
    PROVE  RecordedOwn' /\ UnvisitedLive' /\ VisitedLive'
  <1>0. /\ TypeOK
        /\ \A n \in Names : served[n] # None => FolderDirs(served[n]) \subseteq Dirs
    BY DirsType DEF LiveInv, LeaveInv, AccountInv, TypeOK, DaemonType
  <1>1. CASE BeginPass
    <2>1. /\ UNCHANGED <<table, served, at>> /\ pc' = "drop" /\ at = 1
          /\ all' = Listed /\ allStale' = {d \in Dirs : table[d] = "stale"}
      BY <1>0, <1>1 DEF BeginPass, TypeOK, InRange
    <2>2. ASSUME NEW n \in Names, served[n] # None,
                 NEW d \in FolderDirs(served[n]) \cap (all' \ allStale')
          PROVE  table[d] = served[n].stack
      <3>1. d \in Dirs /\ table[d] \in MountState /\ table[d] \notin {"absent", "stale"}
        BY <1>0, <2>1, <2>2 DEF Listed, TypeOK, MachineType
      <3>2. table[d] \notin {"foreign", "other"}
        BY <2>2 DEF LiveInv, GroundInv, RecordedMine
      <3> QED BY <2>2, <3>1, <3>2 DEF MountState, Alien, LiveInv, RecordedOwn
    <2> QED BY <2>1, <2>2 DEF LiveInv, RecordedOwn, UnvisitedLive, VisitedLive
  <1>2. CASE TableUnreadable
    <2>1. UNCHANGED <<table, served>> /\ pc' = "idle"
      BY <1>2 DEF TableUnreadable
    <2> QED BY <2>1 DEF LiveInv, RecordedOwn, UnvisitedLive, VisitedLive, Calm, InPass
  <1>3. CASE Crash \/ Stop
    <2>1. served' = NoneServed /\ pc' = "down"
      BY <1>3 DEF Crash, Stop, Exit
    <2> QED BY <2>1 DEF NoneServed, RecordedOwn, UnvisitedLive, VisitedLive, Calm, InPass
  <1>4. CASE BeginRefused \/ UNCHANGED vars \/ \E c \in Configs \cup {Invalid} : Edit(c)
    <2>1. /\ UNCHANGED <<table, daemonVars, passVars, disturbed>>
          /\ W' = W
      BY <1>4 DEF BeginRefused, Edit, vars, daemonVars, passVars, W
    <2> QED BY <2>1 DEF daemonVars, passVars, LiveInv, RecordedOwn, UnvisitedLive, VisitedLive,
                        Calm, InPass, MountedSoFar, Visited, HeldLive, Serving
  <1>5. ASSUME NEW d \in Dirs, NEW s \in Alien, Disturb(d, s)
        PROVE  RecordedOwn' /\ UnvisitedLive' /\ VisitedLive'
    <2>1. /\ UNCHANGED <<served, pc>> /\ disturbed' /\ W' = W /\ MountedSoFar' = MountedSoFar
      BY <1>5 DEF Disturb, daemonVars, passVars, W, MountedSoFar
    <2>2. \A e \in Dirs : table'[e] \in Stacks => table'[e] = table[e]
      BY <1>0, <1>5, ConfigAssumption DEF Disturb, TypeOK, MachineType
    <2>3. pc = "serve" => MountedSoFar \subseteq Dirs
      <3>1. ASSUME pc = "serve" PROVE MountedSoFar \subseteq Dirs
        <4>1. W \in Workspaces /\ nth \in Nat /\ nth <= Len(W.folders)
          BY <1>0, <3>1, VisitedType DEF TypeOK, InRange, W
        <4> QED BY <4>1, DirsType, RealDirType DEF MountedSoFar
      <3> QED BY <3>1
    <2> QED BY <1>0, <2>1, <2>2, <2>3
         DEF LiveInv, RecordedOwn, UnvisitedLive, VisitedLive, Calm
  <1> QED BY <1>1, <1>2, <1>3, <1>4, <1>5

LEMMA LiveInit == Init => WantedInv
  <1> SUFFICES ASSUME Init PROVE RecordedOwn /\ UnvisitedLive /\ VisitedLive /\ WantedIsMounted
    BY LeaveInit, GroundInit DEF WantedInv, LiveInv
  <1>1. \A n \in Names : served[n] = None
    BY DEF Init, NoneServed
  <1> QED BY <1>1 DEF Init, RecordedOwn, UnvisitedLive, VisitedLive, WantedIsMounted, Settled,
                      Calm, InPass

LEMMA LiveStep == Fair /\ LiveInv /\ [Next]_vars => LiveInv'
  <1> SUFFICES ASSUME Fair, LiveInv, [Next]_vars
               PROVE  RecordedOwn' /\ UnvisitedLive' /\ VisitedLive'
    BY LeaveStep, GroundStep DEF LiveInv, Fair, Plain
  <1>1. CASE PassStep
    BY <1>1, OwnPass, UnvisitedPass, VisitedPass DEF Fair
  <1> QED BY <1>1, LiveMachine DEF Next

\* At the end of the sweep every entry has been visited.
LEMMA WantedEnd ==
    ASSUME LiveInv, EndPass
    PROVE  WantedIsMounted'
  <1>1. /\ pc = "sweep" /\ TypeOK /\ UNCHANGED <<table, config, failed, disturbed>>
        /\ at = Len(config) + 1
    BY DEF EndPass, LiveInv, LeaveInv, AccountInv, PassInv, TodoOutside
  <1> SUFFICES ASSUME ~disturbed, NEW w \in Wanted', w.name \notin failed PROVE Serving(w)'
    BY <1>1 DEF WantedIsMounted, Settled
  <1>2. PICK i \in 1..Len(config) : w = config[i] /\ w.enabled
    BY <1>1 DEF Wanted, Declared
  <1>3. i \in 1..(at - 1)
    BY <1>1, <1>2, EntryType DEF TypeOK, DaemonType
  <1>4. Serving(w)
    BY <1>1, <1>2, <1>3 DEF LiveInv, VisitedLive, Calm, InPass, HeldLive
  <1> QED BY <1>1, <1>4 DEF Serving

LEMMA WantedStep == Fair /\ WantedInv /\ [Next]_vars => WantedInv'
  <1> SUFFICES ASSUME Fair, WantedInv, [Next]_vars PROVE WantedIsMounted'
    BY LiveStep DEF WantedInv
  <1>1. CASE EndPass
    BY <1>1, WantedEnd DEF WantedInv
  <1>2. CASE BeginRefused \/ UNCHANGED vars \/ \E c \in Configs \cup {Invalid} : Edit(c)
    BY <1>2 DEF BeginRefused, Edit, vars, daemonVars, passVars, WantedInv, WantedIsMounted,
                Settled, Wanted, Serving
  <1>3. CASE TableUnreadable \/ \E d \in Dirs, s \in Alien : Disturb(d, s)
    BY <1>3 DEF TableUnreadable, Disturb, WantedIsMounted, Settled
  <1>4. CASE BeginPass \/ Crash \/ Stop
    BY <1>4 DEF BeginPass, Crash, Stop, Exit, WantedIsMounted, Settled
  <1>5. CASE PassStep /\ ~EndPass
    <2>1. pc' # "idle"
      BY <1>5 DEF PassStep, DropUndeclared, EnterVisit, VisitDisabled, VisitHeld, VisitOutOfDate,
                  Visiting, ReleaseUnder, EnterServe, ServeFolder, ServeFails, ReportFailed, ServeDone,
                  NextEntry, EnterSweep, Sweep, daemonVars
    <2> QED BY <2>1 DEF WantedIsMounted, Settled
  <1> QED BY <1>1, <1>2, <1>3, <1>4, <1>5 DEF Next

\* Once a pass has ended undisturbed, every enabled workspace that has not failed
\* is mounted whole, live, with the sources it declares.
THEOREM WantedIsMountedWhole ==
    ASSUME Canonical, UniqueNames, NoReuse, Undisputed
    PROVE  Spec => []WantedIsMounted
  <1>0. Fair
    BY DEF Fair, Plain
  <1>1. Init => WantedInv
    BY LiveInit
  <1>2. WantedInv /\ [Next]_vars => WantedInv'
    BY <1>0, WantedStep
  <1>3. WantedInv => WantedIsMounted
    BY DEF WantedInv
  <1> QED BY <1>1, <1>2, <1>3, PTL DEF Spec

\* Along the way: all that a pass is sure of at every moment.
THEOREM SettleBookkeeping ==
    ASSUME Canonical, UniqueNames, NoReuse, Undisputed
    PROVE  Spec => []SettleInv
  <1>0. Fair /\ Tidy
    BY DEF Fair, Plain, Tidy
  <1>1. Init => WantedInv /\ KnownInv
    BY LiveInit, KnownInit DEF SettledInv
  <1>2. WantedInv /\ KnownInv /\ [Next]_vars => WantedInv' /\ KnownInv'
    BY <1>0, WantedStep, KnownStep
  <1>3. WantedInv /\ KnownInv => SettleInv
    BY DEF WantedInv, LiveInv, KnownInv, GroundInv, ListedInv, SettleInv
  <1> QED BY <1>1, <1>2, <1>3, PTL DEF Spec

============================================================================
