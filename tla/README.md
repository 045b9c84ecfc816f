# A specification of airfs in TLA+

airfs serves merged, read-only views of source directories: one daemon per user
mounts, for every *workspace* its configuration file declares, one FUSE file
system per *folder* under the workspace's *target*. This directory specifies
the parts of it where order, failure and concurrency matter, checks them with
TLC on small machines, and proves the main results with TLAPS for machines of
any size.

Conventions: definitions keep the names of the code where they can. A comment
*A mistake: …* marks an operator that no specification uses: it is a plausible
bug in the definition that follows it, and shows that a property can fail.
`PROJECT.json` maps every definition to the lines of source it stands for.

## The system

| part | state | operations | hard about it |
|---|---|---|---|
| **reconciliation** `sdk/daemon/daemon.go` | `servers`, `served`, `failed`, `config` of the daemon; the kernel's mount table; the file | `reconcile` and its helpers `stopServing`, `holds`, `releaseWorkspace`, `releaseUnder`; `Reload`; `releaseEverything` | the mount table is read once and used throughout; directories change hands; every step can fail; the daemon may die at each step and start over on what it left |
| **daemon lifecycle** `sdk/daemon/daemon.go`, `client.go`, `detach.go` | the socket file, the listener, `stopped`, one goroutine per request | `Start`, `listen`, `Wait`, `Stop`, `handle`; `Dial`, `send`; `Detach` | two daemons starting, two requests at once, requests against a stopping daemon, signals, kills |
| **mounting** `sdk/mount/mount.go` | the servers of a workspace, the kernel's table | `Serve`, `release`, `Mounts`, `Under`, `Unmount` | partial failure, stale and busy mounts, mounts of other users |
| **configuration** `sdk/config/config.go`, `path.go` | none | `Load`, `Parse`, `SameAs`, validity | two targets in one tree; deciding that nothing changed |
| **editing** `sdk/config/file.go`, `cmd/airfs/declare.go` | the file | `Edit` and the mutations | read, change and replace without a lock |
| **layered view** `sdk/layerfs`, `sdk/mount/node.go` | none: every operation reads the layers again | `Open`, `Stat`, `ReadDir`, `Shadowed`, `Origin`, FUSE lookups | layers change between a listing and a lookup |
| **linking** `sdk/link` | the project's directories; names claimed in a run | `Run`, `adopt`, `place`, `identical` | decides, then moves; partial runs; a dry run that must predict a real one |
| **commands** `cmd/airfs` | none | `up`, `down`, `reload`, `status`, `add`, … | `down` races the daemon it stops and any that starts |

How they interact: a command edits the file and sends a request over the
control socket; the handler reads the file and reconciles under `daemon.mu`;
reconciliation unmounts and mounts, and reads back the mount table, which other
processes, other users and other daemons change as well. Handlers, the main
goroutine, signals and other processes interleave freely.

What makes each correct:

- *reconciliation*: after a pass what is mounted is what is declared, no more
  and no less; what need not change is never touched; a failure concerns one
  workspace; nothing the daemon mounts escapes its records; reports are true;
  the machine heals once it is left alone.
- *lifecycle*: one daemon, reachable, that tells the truth about itself, makes
  an answered edit effective, releases everything when it stops, and does stop.
- *editing*: a file that was written is valid and whole; an edit decides over
  what is inherited and touches nothing else; the report names all it changed.
- *views*: a name that is listed can be looked up, in the same layer; the last
  layer wins; what cannot be read is an error, not another view.
- *linking*: no resource is lost or overwritten; an interrupted run can be
  repeated; a dry run reports what a run would do; the report is complete.

## Modules

| module | what it is |
|---|---|
| `Reconcile` | one daemon, the mount table and the file: reconciliation step by step |
| `Mounted` | the abstract specification `Reconcile` implements: what readers of the views may rely on |
| `Lifecycle` | daemons, their sockets and request handlers, and the commands that reach them |
| `Editing` | the commands that edit the configuration, and the meaning of what they write |
| `View` | the union of layers and the root node that serves it, while the layers are edited |
| `Link` | linking tools into a shared root, and the adoption of their entries |
| `MCReconcile`, `MCLifecycle`, `MCEditing`, `MCView`, `MCLink` | small machines and files for TLC |
| `ReconcileProofs`, `SettledProofs`, `MountedProofs`, `LifecycleProofs`, `EditingProofs`, `ViewProofs`, `LinkProofs`, `LinkedProofs` | the theorems |

The components meet in few places. `Reconcile` has the mount table and the file
in one module because both are read and written in one pass. `Mounted` is
instantiated by `Reconcile` with a refinement mapping. `Lifecycle` uses a pass
as one step, and `Editing` refines what `Lifecycle` does in two (`Run`,
`Write`). A view reads sources only, so `View` shares no state with the others,
and `Link` works in a project that the daemon does not know.

### Reconcile

State: `table` gives the mount at each directory that some workspace may use
(`"absent"`, `"stale"`, `"other"` for another user's, or the stack of sources
it serves); `file` and `config` are sequences of workspaces, in file order;
`served` and `failed` are the daemon's records (`servers` and `served` have the
same domain in the code and are one variable). Of a pass: `all`, the table as
it was read; `held` and `gone`; `at`, the entry it visits; `todo`, the
directories still to unmount; `outcome` and `strays`, what it reports.

Actions follow the code in order: `BeginPass` (or `BeginRefused`, when the file
is invalid, or `TableUnreadable`), `DropUndeclared`, then for each entry
`VisitDisabled`, `VisitHeld`, or `VisitOutOfDate` followed by `ReleaseUnder` for
each mount found and `ServeFolder` for each folder, ending in `ServeFails` or
`ServeDone`; then `Sweep` for each directory left over and `EndPass`. Each
unmount and mount is a step of its own, so `Crash`, `Stop` and `Disturb` (the
rest of the machine) fall between any two calls that touch the table. `Edit`
replaces the file at any time.

The constants give the paths and the machine. `Inside` and `Real` say which
targets lie in which, and what a target is once the kernel has resolved its
links: the code compares declared paths with the paths of the mount table, which
are resolved. `Configs` are the files a person may write, `Invalid` stands for
the rest. `Contended` directories have open files: `fusermount3 -u` works on
them only when lazy, which is the fallback of `Unmount` but not of the library
call that `releaseWorkspace` uses. `Blocked` directories refuse a mount,
`Missing` stacks have an unreadable source, `Leftovers` and `Intruders` are what
previous daemons and other processes may mount.

### Mounted

State: `goal`, the plans that are declared and enabled (a plan is a workspace
without its flags); `up`, those established and live; the `table`. Its actions
say what may happen to them, in any order: another configuration is adopted
(`Adopt`), mounts are taken away (`Withdraw`), one directory is mounted
(`Mount`), a plan is complete (`Complete`), the rest of the machine changes a
directory (`Interfere`), the daemon ends (`End`). What it forbids is the point:
a plan that is up and a goal loses nothing but to the rest of the machine, no
mount is put over another or made for what is not wanted, and nothing is up by
halves. `Reconcile` maps `served` and `table` to it (`Goal`, `Up`); `outside`
counts the steps of the rest of the machine, so that `Reconcile` cannot call a
step of its own an interference.

### Lifecycle

State: per daemon, where its main goroutine is (`pc`), its records, whether its
listener is open and its `stopped` channel closed; `sock`, whose listener the
socket file leads to; per command, where it is (`cpc`) and where the handler of
its request is (`hpc`). A pass is one step here (`Pass`): it holds `daemon.mu`
throughout, and `Reconcile` shows what it does. A workspace is mounted as a
whole, `mounts` says by whom.

`parent` is the process that ran `up --detach`: `Detach` waits for anything to
answer on the socket (`ParentSees`), for the end of the daemon it started
(`ParentLoses`), and for a deadline at which it kills it (`ParentDeadline`).
`cmdUp` then connects twice more, to probe the socket (`ParentDials`) and to ask
for the status (`ParentAsks`): the daemon, or whichever `asked` says it got, may
have stopped or given up by then, in which case the parent fails; else it is
accepted and answered as any client (`ParentHandled`, `ParentAnswered`).
`Reload` is three steps (`HandlerLoad`, `HandlerSet`, `HandlerPass`) since it
reads the file before it locks and locks twice. `Edit` is two (`Run`, `Write`).
`Dial` and `Send` are two connections. `CloseListener` unlinks the path of the
socket whatever it has become, and `RemoveSocket` removes whatever is there.

### Editing

State: the `file` and who wrote it; per command, what it was asked, the document
it read (`seen`), the one it validated (`draft`), its temporary file, and what
it reports (`changed`). `Read`, `Change` or `Refuse`, `CreateTemp`,
`WriteTemp`, `Rename` follow `config.Edit` and `write`; `Abandon` is a failing
call or a kill at any of them, and `Save` is a person. A document is the
sequence of its blocks; a block says some fields and inherits others through a
merge key. `Meanings` resolves it as `resolveWorkspace` and the YAML library
do: an alias leads to the last anchor of its name above it, own fields come
first, defaults last. `Valid` is `resolve` with `checkTargets`, `Difference` is
`difference`, and `Declare`, `RemoveBlock` and `SetEnabled` are the mutations.

### View

State: the `layers` as they are now; the operation under way (`op`), the layer
it reads next (`at`), and what it has gathered (`owner` is `index`'s map,
`holders` that of `Shadowed`); how the last one ended (`answer`); an open root
directory (`entries`, `offset`, and what it handed out). An operation reads one
layer per step (`ReadLayer`, `SkipMissing`, `FailLayer`), then ends in `List`,
`Shadowed`, `NobodyHas`, `Found` or `WentAway`; the last two are the second look
at the layer that won. `Edit` changes any layer between any two of those steps,
and `past` remembers what each layer was while the operation went on, so that
an answer can be judged. `ReadPortion` is `rootDir.ReadDir`. `"lookup"` is
`rootNode.Lookup`, which differs from `"open"` (`Open`, `Stat` and `ReadDir` of
an entry) in having no way to tell a failure from an absence.

### Link

State: the `tree` of what the root and each tool's directory hold, and the
`kind` of each tool's path; of a run, the `order` of its tools, whether it is
`dry`, the entries `todo`, the number of names tried (`k`), the names
`claimed`, and the report (`moves`, `action`). One action per branch of `link`
(`Refuse`, `AlreadyLinked`, `NothingThere`, `Adopt`, then `RemoveDir` and
`Symlink`) and of `place` (`ClaimName`, `FindIdentical`, `TryNext`, `GiveUp`,
then `Rename` or `Drop`), with the failure of each call beside it: `LinkFails`
for looking at the tool's path, making the root and listing the directory,
`LookFails` for looking at a name, `RenameFails`, `DropFails`, `RemoveDirFails`
and `SymlinkFails`. Looking at a name and renaming onto it are two steps, as
they are in the code, and so are comparing an entry with its copy and removing
it. `Kill` ends a run anywhere, also halfway through a `RemoveAll`. `Save` is
another process, which writes an entry between any two steps, under a new name
or over an old one, also where the next call will rename or remove. `AtStake` is
what that call writes over or removes, and what stands elsewhere is `Standing`.
`Shared` tools have the root itself for a directory, under another path.

`owed`, `exposed`, `origin`, `begun`, `late`, `balked`, `calm` and `predicted`
are history for the properties. Only `Save` changes the first three: what it
wrote over is owed to nobody any more, and what then stands nowhere but at stake
is `exposed`. No step of a run takes anything out of `owed`.

## What is checked

| run | machine | what it shows |
|---|---|---|
| `reconcile_pass` | several files that change targets, folders, sources and flags, or list a folder twice; crash, stop, unmounts by hand, severed mounts, stale and foreign leftovers, a missing source, a directory that refuses a mount, a busy one; a workspace with a fault of its own before and after one without | `WantedIsMounted`, `NothingElseMounted`: mounted is what is declared; `LeaveAlone`: held workspaces are not touched; `FailsAlone`: a workspace that fails has a reason of its own, and none fails for the sake of another; `OwnMountsAccounted`, `StraysAreOthers`; `PassInv`, `SettleInv`: what a pass is sure of at each of its steps; `Implements`: every step is one of `Mounted` |
| `reconcile_heals` | targets that change hands, refused unmounts; fairness | `Heals`: once nothing interferes and reloads keep coming, the machine is as declared for good |
| `lifecycle_one` | one daemon, three starts, detached or not, two faults, every command, one at a time | `WaitingIsReachable`, `StatusTells`, `EditsTakeEffect`, `StaleIsReleased`, `DetachTells` |
| `lifecycle_live` | two daemons, a command, two signals or kills; fairness | `MountsAreRecorded`, also when daemons unmount each other's mounts or fail to bind; `StopEnds`, `Answered` |
| `link_adopt` | two tools with entries that collide with each other, with the root and with the names the other would get, or for which there is no place; both orders, dry and real; two kills or saves; failing calls; fairness of the run | `NothingLost`, `RootKept`, `EntriesKept`: what was in the project is in it, whole, where it was or where it was to go, but for what is saved between a look and the call that follows; `DryRunTells`, `ReportTells`; `RunLinks`: a run repeated completes; `RunEnds` |
| `view_reads` | three layers, two names, two edits at any moment, missing and unreadable layers | `ListingRight`, `AnswerRight`, `ListedIsLookedUp`, `ErrorsAreTold`, `ShadowsRight`, `PortionsAddUp` |
| `editing_file` | two commands and a person, documents with anchors, merge keys and a repeated name | `WrittenIsValid`, `EditTakesHold`, `ReportTells` |

Each of the other runs exhibits one disagreement between the code and what its
documents or comments say; `PROJECT.json` quotes the sentence and the line.

| run | what happens |
|---|---|
| `reconcile_reuse` | two workspaces exchange targets; one is reported established and left unmounted |
| `lifecycle_race` | two daemons started together both serve |
| `lifecycle_stop` | a reload in progress mounts again after a stop released everything |
| `lifecycle_reloads` | two reloads cross: the one with the older file ends last, and takes back an edit that was answered |
| `link_alias` | `.opencode` is a link to `.ai`: every entry is identical to itself, and is removed |

The models contain more of the kind, for which no run is kept.

- *Reconciliation.* A target behind a symbolic link is mounted anew by every
  pass, since declared paths are compared with resolved ones (`Real` other than
  the identity). A workspace with an open file is reported released and stays
  mounted: `releaseWorkspace` drops the error of `Unmount`. A file with two
  entries of one name has the second release what the first mounted. A mount of
  another user's that the sweep cannot release makes `Failures` report a failure
  to establish. A foreign mount put at a served directory is held as the
  daemon's own, since `holds` asks only whether something live is there.
- *Lifecycle.* Between two reloads that cross, status shows a workspace neither
  established nor failed. An edit made between a daemon's reading of the file
  and its bind is not seen. When `Accept` fails, `Wait` returns over its mounts.
  A daemon started by `up --detach` that could not establish every workspace
  gives up once it listens: `Stop` only closes the listener, and the process
  exits over the mounts it has made, though `daemon.go:144` says that `Stop`
  "releases every mount the daemon holds" (with one such daemon `StopReleases`
  is violated as it is in `lifecycle_stop`). Nor does anybody learn which
  workspace failed: the daemon reports nothing, leaving that to its caller, and
  the caller gets no status from it, though `daemon.md:148-150` says that it
  "knows which ones were not" established. `DetachTells` shows only that it does
  not succeed. An `up --detach` run while a daemon serves may find that one on
  the socket before its own has been refused, and then says that it serves in
  the background and succeeds: with two daemons `DetachTells` is violated,
  though `cli.md` has `up` refuse "when a daemon is already running".
- *Editing.* Of two edits at once the file keeps one, and the report of the
  other says nothing of it. `rm` removes the first of two entries of one name.
- *Linking.* Three windows lose or move what the documents say is kept, and TLC
  finds each in a project of one or two entries. An entry that is saved between
  the comparison with its copy (`adopt.go:99`) and `RemoveAll` (`adopt.go:105`)
  is removed with what was saved, and a file saved in the root between `Lstat`
  (`adopt.go:74`) and the rename (`adopt.go:89`) is replaced: both violate
  `NothingEverLost`, where "nothing is deleted" but a byte-identical duplicate
  and nothing in the root is "overwritten" (`adopt.go:27`, `adopt.go:53`);
  `NothingLost` excepts exactly these (`exposed`). After a failed rename the
  name stays claimed (`adopt.go:85`), and a later tool drops its identical copy
  although the root never got the entry: that violates `EntriesAlwaysKept`,
  where a run that fails leaves "every entry either at its old path or its new
  one" (`link.md:146-147`); `EntriesKept` speaks until then, and by
  `NothingLost` the content is still where the first tool had it. What an
  interrupted `RemoveAll` leaves of a copy is adopted by the next run under a
  suffix.
- *Views.* A layer that cannot be read makes a lookup answer that the name does
  not exist, also for names of the other layers: `Origin` has only a boolean to
  answer with (`layerfs.go:96`), though `layered-fs.md:80-82` promises an error.
  A name whose winner vanishes between the reading of the layers and
  the second look is reported absent, though an earlier layer has it.

**Bounds.** In `Reconcile`, two or three workspaces, at most two folders and two
stacks: an interaction between workspaces needs two, and a third entry adds only
another turn of the same loop; two folders are needed for a workspace to be half
mounted. In three of the files a workspace whose source is missing or whose
directory is busy stands before or after one that has nothing wrong with it, so
that its failure could spread. `MaxEvents` bounds crashes, edits and
disturbances together, so that two of them may meet in one pass; passes
themselves are unbounded. In `Lifecycle` `MaxStarts` bounds how often `airfs up`
is run and `MaxFaults` signals, kills, deadlines and failures of `Accept`;
commands are unbounded; `Detaching` says whether `up` is run with `--detach`:
either way in `lifecycle_one`, in the foreground elsewhere, where a detached
daemon would only be one more that stops by itself. Two daemons and two commands
are enough for every race between two of them. The liveness run has a single
workspace, which is enough to be served, lost and fought over.

In `Link`, two tools are enough for a claim to be contested, and two listed
names, one of which is the suffixed form of the other, for a tool to collide
with itself; `Attempts` is 3, the least that has every form of a candidate, and
is exhausted in one of the projects, while another has a name in the root that
cannot be compared; runs are unbounded, `MaxEvents` lets a kill and a save meet.
In `View`, three layers have a first, a last and one in between; two edits may
hide a name and uncover it again. In `Editing`, two commands cross each other, a
third follows on what they left, and one event falls anywhere. Symmetry is used
there only, between the commands, which start alike, for invariants; elsewhere
file order and roles tell the constants apart.

**Fairness.** `Heals` assumes that a pass that has begun goes on (weak fairness
of its steps: it is one goroutine's straight-line code), and its premise that
reloads keep coming; nobody is assumed to edit. `StopEnds` and `Answered`
assume that goroutines and processes which can go on do, each by itself.
`RunEnds` assumes that a run that has begun goes on, and of the other actions of
`Link` nothing.
Nothing is assumed of users, signals or faults. An unmount that never returns
(the library waits for the serving loops to end) would break the liveness of
both modules about the daemon; it is outside the models. `Editing` and `View`
have no fairness: a command or an operation that stops short is one of the cases.

## What is proved

`ReconcileProofs` proves, for any number of workspaces, targets, folders and
files, any links and any number of events:

- `TypeCorrect`: `Spec => []TypeOK`. Besides types, `TypeOK` ties `at` to the
  length of `config` and says what each value of `pc` allows.
- `EveryMountAccounted`: `Spec => []OwnMountsAccounted`. A live mount of the
  daemon, other than one that refused to be unmounted, belongs to a workspace
  on record or to the one being served. Inductive together with `TypeOK`: each
  unmount is followed by the removal of the record in the same step, and a
  failing `Serve` releases what it had mounted.
- `PassBookkeeping` and `HeldIsLeftAlone`: under `Canonical`, `UniqueNames` and
  `NoReuse`, `Spec => []PassInv` and `Spec => LeaveAlone`. No step of any pass
  touches a workspace that is as declared and live. `PassInv` is the inductive
  invariant: records of different names never overlap (`RecordsApart`), from the
  first visit on they are declared (`RecordsDeclared`), what was visited and
  serves is in `held` (`VisitedHeld`), what was not visited and is live was live
  when the table was read (`UnvisitedRead`, `NotServedYet`), and what is left to
  unmount is outside every held workspace (`TodoOutside`). Without it, `Sweep`
  could unmount a workspace mounted in the same pass.

The three hypotheses are not enforced by the code: a target behind a link and
`reconcile_reuse` violate the first and the last, and show what it costs. All
the assumptions on constants are named `ASSUME`s of the modules, which the MC
modules make TLC evaluate.

`SettledProofs` proves what a pass leaves behind when nobody else touches a
mount while it runs:

- `StraysNeverGone`, under `Canonical`: `Spec => []StraysAreOthers`. What was
  read and not yet released is still mounted (`StillListed`), so an unmount
  fails only on what is another user's.
- `NothingElseIsMounted` and `FailsForItself`, under `Canonical`, `UniqueNames`
  and `Undisputed`: `Spec => []NothingElseMounted` and `Spec => []FailsAlone`.
  Every mount is one that was read and is still to be dealt with, one that a
  visited entry stands for, or one just made (`MountsKnown`); when an entry is
  served, nothing but other users' mounts is left under its target
  (`PlaceCleared`), so it fails only on those or for a fault of its own
  (`FailedVisited`).
- `WantedIsMountedWhole`, with `NoReuse` as well: `Spec => []WantedIsMounted`.
  What was visited and has not failed is established and live (`VisitedLive`);
  what was live when the table was read stays so until it is visited
  (`UnvisitedLive`); and a view found at a recorded directory is that of the
  record (`RecordedOwn`).
- `SettleBookkeeping`: `Spec => []SettleInv`, the conjunction of these parts,
  which `reconcile_pass` checks.

`Undisputed` says that no other process mounts an airfs view where the file may
mount a workspace. The daemon recognises a mount by its type only, so such a
view would be taken for one of its own.

`MountedProofs` proves `ReconcileImplements`: under the same hypotheses,
`Spec => Implements`, that is `M!Spec` with `goal`, `up` and `table` mapped. The
invariant behind it is that of `PassBookkeeping` and `EveryMountAccounted`
(`LeaveInv`), with the fact that only enabled workspaces are served
(`ServesEnabled`). `UpIsHeld` is the hinge: a plan that is up and a goal is a
workspace held live, so that what `HeldIsLeftAlone` says of directories says it
of plans. Each action of `Reconcile` is then matched with one of `Mounted`:
releases with `Withdraw`, `ServeFolder` with `Mount`, `ServeDone` with
`Complete`, loading with `Adopt`, crash and stop with `End`; the rest stutter.

`LifecycleProofs` proves, for any number of daemons, commands, workspaces,
starts and faults:

- `LifecycleTypeCorrect`: `Spec => []TypeOK`, where `TypeOK` includes that a
  daemon listens only from its bind until it is told to stop, and that no
  handler outlives its process (`ListenersRun`, `StoppedRun`, `HandledRun`:
  inductive only together).
- `EveryMountRecorded`: `Spec => []MountsAreRecorded`. It is inductive next to
  the types and needs nothing of the other daemons: a pass leaves mounted only
  what it recorded or what was recorded before, and others can only take mounts
  away.
- `AloneIsReachable`: with at most one daemon (`Alone`),
  `Spec => []WaitingIsReachable`, from the invariant `Reachable`, which speaks
  of the time from the bind on. `lifecycle_race` shows that `Alone` is needed.
- `AloneCleans`: `Spec => []StaleIsReleased`, with at most one daemon.
- `OneClientIsTold`: with one command at a time (`OneClient`) and any number of
  daemons, `Spec => []StatusTells`. The invariant (`Records`) accounts for the
  records from the first pass to the release, but for the time in which a
  handler has stored a configuration and not reconciled it, and says that what
  it will reconcile is what it stored. Two handlers break it.
- `AloneDetachTells`: with both hypotheses, `Spec => DetachTells`. A parent is
  answered only by a daemon that waits for requests, which one that gives up
  never does, and by then the records account for every workspace (`Records`);
  it fails only when it finds nobody, when it is cut off, or at its deadline,
  each of which means that its daemon has ended or was told to stop.
- `AnsweredEditHolds`: with both, `Spec => []EditsTakeEffect`. The invariant
  (`InEffect`) does not speak of the daemon that answered but of any time until
  the next command: if there is a daemon that has read the file, it has read
  this one, and if it has made its first pass, what it serves is mounted. It
  needs that nobody but the only command writes the file, and that it does not
  while its request is handled (`Proceeds`, `Asks`).

`EditingProofs` proves `WrittenDocumentIsValid`, `Spec => []WrittenIsValid`, for
any commands, people, documents and failures. The invariant follows the document
from its validation to the rename: a draft is valid from `Change` on, the
temporary file holds the draft from `WriteTemp` on (`DraftsValid`), and each
command renames only a file of its own. Validity itself is never unfolded: the
theorem holds whatever `Valid` says, because nothing is written that was not
validated. Three more theorems are about what documents mean:

- `EditingIsTyped`: `Spec => []TypeOK`.
- `EditsTakeHold`: `Spec => []EditTakesHold`. The invariant (`FollowInv`) is
  that a draft is the command applied to what was read, and valid. The rest is
  what each mutation does to a sequence of blocks: the other blocks are kept in
  their order (`Kept`), and the edited one states what was asked itself, so that
  what it inherits does not matter.
- `ReportsTell`: `Spec => []ReportTells`. `difference` compares each block with
  the first of its name that was there, so a second block of a name could hide a
  change. It cannot: the blocks of a valid document have different targets, no
  removal changes the target of another block (`TargetsStay`), and so, where
  nothing is reported of a name, it had one block (`OneRemains`).

`Meanings` is a recursive function, a block inheriting from one above it. That
such a function exists and satisfies its equation, and what `TargetsStay` says
of it, is shown by the smallest index at which it would fail, since induction
over data is not at hand.

`ViewProofs` proves, for any number of layers, names and edits, `ListingIsRight`,
`AnswersAreRight`, `FailuresAreTold` and `LookupFollowsListing`. One invariant,
`ViewInv`, has all four: while layers are read, each name belongs to a layer
that won it among those already read, judged by all the states they went
through (`OwnersRight`); the present state of a layer is one of these, and what
was passed was not unreadable throughout (`PastRight`); a listing that nothing
has disturbed is the merge of the layers as they are (`ListedRight`). An edit
only adds states to `past`, under which "some time" stays true and "all along"
can only become false, in the direction each property allows. Further:

- `ShadowsAreRight`: `Spec => []ShadowsRight`, from `HoldersInv`: the layers
  noted for a name are those already read in which it was found, in the order
  they were read.
- `PortionsAlwaysAddUp`: `Spec => []PortionsAddUp`. What was handed out is the
  part of the listing up to the offset (`HandleInv`), and EOF is said only at
  its end.
- `ViewIsTyped`: `Spec => []TypeOK`, which needs both, since `served` has names
  in it only because the listing has.

`LinkProofs` proves, for any tools, entries, contents, orders and faults:

- `LinkTypeCorrect`: `Spec => []TypeOK`.
- `NothingIsLost`, when `Shared = {}`: `Spec => []NothingLost`. That a content
  is somewhere is not inductive: it may be where the next call writes or
  removes. The invariant is that all that is owed and not exposed stands where
  that call leaves it (`Safe`). When an entry is found identical, its twin is
  elsewhere (`HasTwin`): the holder of the name is in the root, or was claimed
  by a tool whose turn came before (`ClaimsPast`) for an entry that has left
  `todo` (`ClaimsPlaced`), so never the entry itself. A save between then and
  the call can only add to what is exposed (`SafeSave`). `link_alias` is the
  entry itself, and violates it.
- `RootIsKept`, when `Shared = {}`: `Spec => RootKept`. When a rename is due,
  only a name taken since it was looked at is on disk.
- `EntriesAreKept`, when `Shared = {}`: `Spec => []EntriesKept`. Again an entry
  must stand out of the next call's reach (`KeptSafely`), and it needs where the
  copy of an entry to be dropped is: at the very name the entry would have had,
  since what a real run has claimed is in the root, but for the rename that is
  due (`ClaimedThere`). A failed rename leaves a claim with nothing in the root.

`LinkedProofs` proves, when `Shared = {}`, what runs do that nothing disturbs:
no kill, no file saved by another process, no failing call. A tool that is
refused because one of its entries cannot be placed is part of such a run.

- `EveryToolIsLinked`: `Spec => []RunLinks`. The invariant (`RunInv`) is that
  every tool whose turn is over is settled, and that the directory of the one
  being linked holds nothing but what is still to be placed (`LinkedSoFar`), so
  that it can be removed; that every name claimed is in the root, but for the
  rename that is due (`ClaimsKept`); and that the names tried so far are in the
  root and hold something else (`TriedSoFar`), so that a tool that is refused
  has an entry without a place (`GivenUp`). It still has one when the run ends,
  since what is in the root stays there (`UnplaceableStays`).
- `ReportIsTrue`: `Spec => []ReportTells`, from the same invariant: at each step
  the report tells what was done so far, and the entries in `todo` are as they
  were when the turn began (`ToldSoFar`).
- `DryRunIsTrue`: `Spec => []DryRunTells`, which compares two runs. The project
  changes while the second goes on, so that the two never look at the same
  directories; but what they held when the run began (`Was`) can be told at any
  time from what the run has claimed and begun (`RunHolds`, `HoldsStep`). What
  is right to report of an entry is a function of that and of the claims made so
  far (`MoveRight`, `MoveUnique`), and so is whether one is refused
  (`RefusalRight`, `RefusalUnique`, `MoveNotRefused`). A dry run reports what is
  right
  (`DryInv`), this stays right until something changes (`Foretold`), and a run
  makes the moves it foretold, one by one, with the same claims after each
  (`Follows`). The claims after each move are given by one function of the tool
  and the move, chosen when the dry run makes them: no operator has to compute
  them again, which would take recursion. `TellInv` is the whole.

Only model-checked: `Heals`, `StopEnds`, `Answered` and `RunEnds`, which are
liveness and out of the prover's reach. Every other property of a passing run is
a theorem, under the hypotheses named above.

## What is not modelled

- In `Reconcile`: mounts stacked on one directory, targets that become links
  while mounted, folders of one workspace that are directories of another's
  view, and what serving loops do while they end. Paths are abstract; the
  parsing of `mountinfo` and its escapes is not a property here.
- In `Lifecycle`: folders, changed declarations, invalid files, an unreadable
  mount table and busy mounts (all in `Reconcile`); the status request, whose
  answer is a function of the daemon's state (`StatusTells` is about that state),
  other than when `up --detach` makes it; its look at the mount table after
  that, which only adds to what it prints; the death of the parent of a detached
  daemon, which leaves the daemon as it is; timestamps; different
  configuration paths for different commands.
- In `Editing`: layout, comments and what the encoder does to them; values of a
  wrong type, unknown keys, several documents, anchors on anything but a block;
  the expansion of paths (`sdk/config/path.go`, `AsDeclared`), which is a
  function of the environment best left to tests.
- In `View`: the nodes below a top level entry, which pass each call on to the
  operating system with write bits cleared, and keep no state; modes and owners.
  (`Readdir` masks Go's type bits with those of the kernel, so that the type in
  a listing is always unknown, and a reader has to look it up.)
- In `Link`: roots and tools of a second resource type (no row of the table has
  one; `claimed` is keyed by the name alone and would then mix them up); a dry
  run that does not notice that the root cannot be made; what relative links
  among the entries mean after they moved; other processes that remove or rename
  entries; two runs at once.
- Argument parsing, reports, exit codes, the preflight probe, packaging: no
  state to go wrong.

## Plan

What is left, in the order of what can do most harm:

1. `Lifecycle` with the deadline of `down`, whose unmounts must be told from
   mounts made meanwhile.
2. `Lifecycle` over `Editing`: an answered edit is served although others edit.
3. `SettledProofs` without `Undisputed`, for the workspaces that no other
   process's view is in the way of.
