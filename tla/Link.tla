-------------------------------- MODULE Link --------------------------------
(***************************************************************************)
(* airfs link (sdk/link Run, link, adopt, place): every entry a tool keeps *)
(* in a directory of its own is moved into the root of the project, and    *)
(* the directory is replaced by a symbolic link to the root.               *)
(*                                                                         *)
(* A run goes tool by tool and entry by entry.  Each call that changes the *)
(* project is a step, so that the process may be killed, and other         *)
(* processes may save files, between any two of them.  Runs follow one     *)
(* another; a dry run takes the same steps and changes nothing.            *)
(*                                                                         *)
(* Abstracted: an entry is its content, a directory as much as a file; the *)
(* name of an entry is a sequence of words, to which place appends the     *)
(* flag of the tool and a number; paths are compared as they are written   *)
(* (Rejected), except that the directory of a tool may be the root itself  *)
(* under another path (Shared).  All tools have one resource type, as all  *)
(* rows of the table do.  Two runs never overlap.                          *)
(***************************************************************************)
EXTENDS Naturals, Sequences, FiniteSets

CONSTANTS
    Tools,      \* the tools of the table
    Orders,     \* the tools that command lines name, in order
    Listing,    \* names that tools give their entries, in lexical order
    Contents,   \* what an entry may be
    Opaque,     \* contents of which no two are identical: sockets, devices
    Unreadable, \* contents that cannot be compared
    Saved,      \* contents other processes save while a run goes on
    Debris,     \* what is left of an entry that was not wholly removed
    None,       \* no entry, no claim, no report
    Root,       \* the directory of the root, and who holds a name found in it
    Attempts,   \* names tried for an entry before it is given up
    Trees,      \* what the directories may hold before the first run
    Layouts,    \* what the paths of the tools may be before the first run
    Rejected,   \* tools whose path contains the root or lies in it
    Shared,     \* tools whose directory is the root itself, by way of a link
    Stuck,      \* tools for which a call on the file system may fail
    MaxEvents   \* bound on kills and on files saved by other processes

Entries == {Listing[i] : i \in 1..Len(Listing)}

\* The name tried for an entry at a given attempt.
Candidate(n, t, k) ==
    CASE k = 0 -> n
      [] k = 1 -> Append(n, t)
      [] OTHER -> n \o <<t, k>>

Tries == 0..(Attempts - 1)
Names == Entries \cup {Candidate(n, t, k) : n \in Entries, t \in Tools, k \in Tries}

Claim == [tool: Tools, name: Entries]
Places == Tools \cup {Root}
Held == Contents \cup {Debris}
Tree == [Places -> [Names -> Held \cup {None}]]

\* The path of a tool: nothing, a directory, a link to the root, a link to
\* something else, or anything but a directory or a link.
Kinds == {"absent", "dir", "linked", "elsewhere", "file"}

ASSUME ToolAssumption ==
    /\ Orders \subseteq Seq(Tools)
    /\ \A o \in Orders : \A i, j \in 1..Len(o) : o[i] = o[j] => i = j
    /\ Root \notin Tools /\ None \notin Tools \cup {Root}
    /\ Rejected \subseteq Tools /\ Shared \subseteq Tools /\ Stuck \subseteq Tools
ASSUME EntryAssumption ==
    /\ Listing \in Seq(Entries)
    /\ Attempts \in Nat \ {0}
    /\ None \notin Held \cup Claim /\ Debris \notin Contents
    /\ Opaque \subseteq Contents /\ Unreadable \subseteq Contents /\ Saved \subseteq Contents
ASSUME ProjectAssumption ==
    /\ Trees \subseteq Tree /\ Layouts \subseteq [Tools -> Kinds]
    /\ \A tr \in Trees : \A p \in Places : \A n \in Names : tr[p][n] # Debris
    /\ \A tr \in Trees : \A t \in Tools : \A n \in Names : tr[t][n] # None => n \in Entries
    /\ MaxEvents \in Nat

VARIABLES
    tree,       \* what each directory holds
    kind,       \* what the path of each tool is
    pc,         \* where the run is
    order,      \* the tools of the run, as their flags were given
    dry,        \* it is a dry run
    at,         \* position in order of the tool being linked
    todo,       \* names of its entries still to be placed
    k,          \* names tried for the next of them
    contested,  \* who held the last of those names
    claimed,    \* names spoken for in this run: where each came from
    moves,      \* what was reported of each tool's entries
    action,     \* what was reported of each tool
    begun,      \* what each directory held when its tool's turn came
    owed,       \* contents that were ever in the project, and no one else replaced
    exposed,    \* those of them that stood nowhere but at stake when others saved
    origin,     \* entries that tools ever had, and that stood when others saved
    late,       \* the root's names that others took after they were found free
    calm,       \* nothing went wrong since the run began
    balked,     \* a rename has failed
    predicted,  \* what a dry run reported, while nothing has changed since
    events      \* kills and saves so far

project == <<tree, kind>>
run == <<pc, order, dry, at, todo, k, contested, claimed, moves, action>>
kept == <<owed, exposed, origin>>
history == <<begun, kept, late, calm, balked, predicted, events>>
vars == <<project, run, history>>

Holder == Tools \cup {Root, None}
Move == [name: Entries, as: Names, taken: Holder, deduped: BOOLEAN]

NoEntry == [n \in Names |-> None]
NoClaim == [n \in Names |-> None]
NoMoves == [t \in Tools |-> <<>>]
NoAction == [t \in Tools |-> "none"]

Report == [order |-> order, moves |-> moves, action |-> action]

ProjectType == tree \in Tree /\ kind \in [Tools -> Kinds]

RunType ==
    /\ pc \in {"idle", "tool", "place", "rename", "drop", "link"}
    /\ order \in Orders \cup {<<>>} /\ dry \in BOOLEAN
    /\ at \in 1..(Len(order) + 1)
    /\ pc \in {"place", "rename", "drop", "link"} => at <= Len(order)
    /\ todo \subseteq Entries /\ (pc \in {"rename", "drop"} => todo # {} /\ ~dry)
    /\ k \in Tries /\ contested \in Holder
    /\ claimed \in [Names -> Claim \cup {None}]

ReportType ==
    /\ moves \in [Tools -> Seq(Move)]
    /\ action \in [Tools -> {"none", "linked", "unchanged", "refused"}]

HistoryType ==
    /\ begun \in [Tools -> [Names -> Held \cup {None}]]
    /\ owed \subseteq Contents /\ exposed \subseteq owed
    /\ origin \subseteq Tools \X Entries \X Contents
    /\ late \subseteq Names /\ calm \in BOOLEAN /\ balked \in BOOLEAN
    /\ events \in Nat

TypeOK == ProjectType /\ RunType /\ ReportType /\ HistoryType

Init ==
    /\ tree \in Trees /\ kind \in Layouts
    /\ \A t \in Tools : kind[t] # "dir" => tree[t] = NoEntry
    /\ pc = "idle" /\ order = <<>> /\ dry = FALSE
    /\ at = 1 /\ todo = {} /\ k = 0 /\ contested = None /\ claimed = NoClaim
    /\ moves = NoMoves /\ action = NoAction
    /\ begun = [t \in Tools |-> NoEntry]
    /\ owed = {tree[p][n] : p \in Places, n \in Names} \ {None} /\ exposed = {}
    /\ origin = {e \in Tools \X Entries \X Contents : tree[e[1]][e[2]] = e[3]}
    /\ late = {} /\ calm = FALSE /\ balked = FALSE /\ predicted = None
    /\ events = 0

----------------------------------------------------------------------------
\* A run, tool by tool.

Start(o, d) ==
    /\ pc = "idle"
    /\ pc' = "tool" /\ order' = o /\ dry' = d
    /\ at' = 1 /\ todo' = {} /\ k' = 0 /\ contested' = None /\ claimed' = NoClaim
    /\ moves' = NoMoves /\ action' = NoAction
    /\ begun' = [t \in Tools |-> NoEntry]
    /\ late' = {} /\ calm' = TRUE
    /\ predicted' = IF dry THEN predicted ELSE None
    /\ UNCHANGED <<project, kept, balked, events>>

Linking == pc = "tool" /\ at <= Len(order)
T == order[at]
Dir(t) == IF t \in Shared THEN Root ELSE t

\* The turn of the tool is over; the run goes on with the next.
NextTool == pc' = "tool" /\ at' = at + 1 /\ todo' = {} /\ k' = 0 /\ contested' = None
Ends(how) == NextTool /\ action' = [action EXCEPT ![T] = how]

Obstructed(t) == t \in Rejected \/ kind[t] \in {"elsewhere", "file"}

\* A call fails: the tool is refused, with what it has still to place where it is.
CallFails ==
    /\ T \in Stuck
    /\ Ends("refused")
    /\ calm' = FALSE
    /\ UNCHANGED <<project, order, dry, claimed, moves, begun, kept, late, balked, predicted,
                   events>>

\* Its path cannot be looked at, the root cannot be made, it cannot be listed.
LinkFails == Linking /\ CallFails

\* Something is in the way: this tool is refused, the others are not.
Refuse ==
    /\ Linking
    /\ Obstructed(T)
    /\ Ends("refused")
    /\ UNCHANGED <<project, order, dry, claimed, moves, history>>

AlreadyLinked ==
    /\ Linking
    /\ ~Obstructed(T) /\ kind[T] = "linked"
    /\ Ends("unchanged")
    /\ UNCHANGED <<project, order, dry, claimed, moves, history>>

\* A mistake: a tool that holds nothing is left as it is.
NothingToDo ==
    /\ Linking
    /\ ~Obstructed(T) /\ kind[T] = "absent"
    /\ Ends("unchanged")
    /\ UNCHANGED <<project, order, dry, claimed, moves, history>>

NothingThere ==
    /\ Linking
    /\ ~Obstructed(T) /\ kind[T] = "absent"
    /\ pc' = "link"
    /\ UNCHANGED <<project, order, dry, at, todo, k, contested, claimed, moves, action,
                   history>>

\* adopt: list what the tool holds, in lexical order.
Adopt ==
    /\ Linking
    /\ ~Obstructed(T) /\ kind[T] = "dir"
    /\ todo' = {n \in Entries : tree[Dir(T)][n] # None}
    /\ begun' = [begun EXCEPT ![T] = tree[Dir(T)]]
    /\ pc' = "place"
    /\ UNCHANGED <<project, order, dry, at, k, contested, claimed, moves, action,
                   kept, late, calm, balked, predicted, events>>

----------------------------------------------------------------------------
\* place: find a name for the next entry.

Placing == pc = "place" /\ todo # {}
\* Entries are placed in the order they are listed in.
First(S) == Listing[CHOOSE i \in 1..Len(Listing) :
                        Listing[i] \in S /\ \A j \in 1..Len(Listing) : Listing[j] \in S => i <= j]
N == First(todo)
C == Candidate(N, T, k)
Source == tree[Dir(T)][N]

\* A mistake: only what was moved is reported.
RememberMoved(name, as, taken, deduped) ==
    moves' = [moves EXCEPT ![T] =
                IF deduped THEN @
                ELSE Append(@, [name |-> name, as |-> as, taken |-> taken,
                                deduped |-> deduped])]

Remember(name, as, taken, deduped) ==
    moves' = [moves EXCEPT ![T] =
                Append(@, [name |-> name, as |-> as, taken |-> taken, deduped |-> deduped])]
NextEntry == pc' = "place" /\ todo' = todo \ {N} /\ k' = 0 /\ contested' = None

OnDisk == tree[Root][C] # None

\* A mistake: a name claimed by another tool, and not on disk, is free.
TakenOnDisk == OnDisk

\* A mistake: only the names of this run are looked at.
TakenClaimed == claimed[C] # None

Taken == OnDisk \/ claimed[C] # None
HeldBy == IF claimed[C] # None THEN claimed[C].tool ELSE Root

\* Where the holder of the name is read from: the root when it is there.
HolderContent ==
    IF OnDisk THEN tree[Root][C] ELSE tree[Dir(claimed[C].tool)][claimed[C].name]

\* A mistake: whatever has the name is the same thing.
SameName(a, b) == a \notin Opaque

Identical(a, b) == a = b /\ a \notin Opaque \cup {Debris}
Compares(a, b) == {a, b} \cap (Unreadable \cup {None}) = {}

\* A dry run ends here; a real one has still to rename.
ClaimName ==
    /\ Placing
    /\ ~Taken
    /\ claimed' = [claimed EXCEPT ![C] = [tool |-> T, name |-> N]]
    /\ IF dry THEN NextEntry /\ Remember(N, C, contested, FALSE)
              ELSE pc' = "rename" /\ UNCHANGED <<todo, k, contested, moves>>
    /\ late' = {}
    /\ UNCHANGED <<project, order, dry, at, action, begun, kept, calm, balked,
                   predicted, events>>

FindIdentical ==
    /\ Placing
    /\ Taken /\ Compares(Source, HolderContent) /\ Identical(Source, HolderContent)
    /\ IF dry THEN NextEntry /\ Remember(N, C, HeldBy, TRUE)
              ELSE pc' = "drop" /\ UNCHANGED <<todo, k, contested, moves>>
    /\ UNCHANGED <<project, order, dry, at, claimed, action, history>>

\* A mistake: the same name is tried again.
TrySame ==
    /\ Placing /\ k + 1 < Attempts
    /\ Taken /\ Compares(Source, HolderContent) /\ ~Identical(Source, HolderContent)
    /\ contested' = HeldBy
    /\ UNCHANGED <<project, pc, order, dry, at, todo, k, claimed, moves, action, history>>

\* A mistake: the search for a name has no end.
TryOn ==
    /\ Placing
    /\ Taken /\ Compares(Source, HolderContent) /\ ~Identical(Source, HolderContent)
    /\ contested' = HeldBy
    /\ k' = k + 1
    /\ UNCHANGED <<project, pc, order, dry, at, todo, claimed, moves, action, history>>

TryNext ==
    /\ Placing /\ k + 1 < Attempts
    /\ Taken /\ Compares(Source, HolderContent) /\ ~Identical(Source, HolderContent)
    /\ contested' = HeldBy
    /\ k' = k + 1
    /\ UNCHANGED <<project, pc, order, dry, at, todo, claimed, moves, action, history>>

\* Whether the name is free cannot be found out.
LookFails == Placing /\ CallFails

\* The holder cannot be compared, or every name was tried: the tool is refused,
\* with its remaining entries where they were.
GiveUp ==
    /\ Placing
    /\ Taken
    /\ \/ ~Compares(Source, HolderContent)
       \/ k + 1 = Attempts /\ ~Identical(Source, HolderContent)
    /\ Ends("refused")
    /\ UNCHANGED <<project, order, dry, claimed, moves, history>>

\* Rename moves the entry onto the name that was free when it was looked at.
\* A file that another process has put there since is replaced.
Rename ==
    /\ pc = "rename"
    /\ tree' = [tree EXCEPT ![Root][C] = Source, ![Dir(T)][N] = None]
    /\ Remember(N, C, contested, FALSE)
    /\ NextEntry
    /\ UNCHANGED <<kind, order, dry, at, claimed, action, history>>

\* Another file system, a directory that cannot be written to, a directory that
\* another process has put at the name.
RenameFails ==
    /\ pc = "rename"
    /\ T \in Stuck \/ OnDisk
    /\ Ends("refused")
    /\ calm' = FALSE /\ balked' = TRUE
    /\ UNCHANGED <<project, order, dry, claimed, moves, begun, kept, late,
                   predicted, events>>

\* RemoveAll of an identical copy, or of what another process has put in its
\* place since it was compared.
Drop ==
    /\ pc = "drop"
    /\ tree' = [tree EXCEPT ![Dir(T)][N] = None]
    /\ Remember(N, C, HeldBy, TRUE)
    /\ NextEntry
    /\ UNCHANGED <<kind, order, dry, at, claimed, action, history>>

DropFails ==
    /\ pc = "drop"
    /\ T \in Stuck
    /\ \E left \in {Source, Debris} : tree' = [tree EXCEPT ![Dir(T)][N] = left]
    /\ Ends("refused")
    /\ calm' = FALSE
    /\ UNCHANGED <<kind, order, dry, claimed, moves, begun, kept, late, balked,
                   predicted, events>>

----------------------------------------------------------------------------
\* Once every entry is placed: remove the directory, leave a link.

Empty(p) == \A n \in Names : tree[p][n] = None

\* A mistake: the directory is removed with whatever it holds.
RemoveAllDir ==
    /\ pc = "place" /\ todo = {} /\ ~dry
    /\ kind' = [kind EXCEPT ![T] = "absent"]
    /\ tree' = [tree EXCEPT ![Dir(T)] = NoEntry]
    /\ pc' = "link"
    /\ UNCHANGED <<order, dry, at, todo, k, contested, claimed, moves, action, history>>

RemoveDir ==
    /\ pc = "place" /\ todo = {} /\ ~dry
    /\ Empty(Dir(T))
    /\ kind' = [kind EXCEPT ![T] = "absent"]
    /\ pc' = "link"
    /\ UNCHANGED <<tree, order, dry, at, todo, k, contested, claimed, moves, action, history>>

\* Something was saved there since the directory was listed, or it may not be
\* removed.
RemoveDirFails ==
    /\ pc = "place" /\ todo = {} /\ ~dry
    /\ T \in Stuck \/ ~Empty(Dir(T))
    /\ Ends("refused")
    /\ calm' = FALSE
    /\ UNCHANGED <<project, order, dry, claimed, moves, begun, kept, late, balked, predicted,
                   events>>

DryLinked ==
    /\ dry
    /\ \/ pc = "link"
       \/ pc = "place" /\ todo = {}
    /\ Ends("linked")
    /\ UNCHANGED <<project, order, dry, claimed, moves, history>>

Symlink ==
    /\ pc = "link" /\ ~dry
    /\ kind[T] = "absent"
    /\ kind' = [kind EXCEPT ![T] = "linked"]
    /\ Ends("linked")
    /\ UNCHANGED <<tree, order, dry, claimed, moves, history>>

\* The directory was made again meanwhile, or neither the link nor the directory
\* it is to be in can be made.
SymlinkFails ==
    /\ pc = "link" /\ ~dry
    /\ T \in Stuck \/ kind[T] # "absent"
    /\ Ends("refused")
    /\ calm' = FALSE
    /\ UNCHANGED <<project, order, dry, claimed, moves, begun, kept, late, balked, predicted,
                   events>>

Finish ==
    /\ pc = "tool" /\ at > Len(order)
    /\ pc' = "idle"
    /\ predicted' = IF dry THEN (IF calm THEN Report ELSE None) ELSE predicted
    /\ UNCHANGED <<project, order, dry, at, todo, k, contested, claimed, moves, action,
                   begun, kept, late, calm, balked, events>>

RunStep ==
    \/ LinkFails \/ Refuse \/ AlreadyLinked \/ NothingThere \/ Adopt
    \/ LookFails \/ ClaimName \/ FindIdentical \/ TryNext \/ GiveUp
    \/ Rename \/ RenameFails \/ Drop \/ DropFails
    \/ RemoveDir \/ RemoveDirFails \/ DryLinked \/ Symlink \/ SymlinkFails
    \/ Finish

----------------------------------------------------------------------------
\* The rest of the machine.

\* What the next call of the run writes over or removes, whatever is there by
\* then.  An entry that stands anywhere else stands fast.
AtStake(p, n) ==
    \/ pc = "rename" /\ <<p, n>> = <<Root, C>>
    \/ pc = "drop" /\ <<p, n>> = <<Dir(T), N>>
Holds(p, n, c) == tree[p][n] = c /\ ~AtStake(p, n)
Present(c) == \E p \in Places, n \in Names : tree[p][n] = c
Standing(c) == \E p \in Places, n \in Names : Holds(p, n, c)
Stands(e) ==
    \/ Holds(Dir(e[1]), e[2], e[3])
    \/ \E i \in Tries : Holds(Root, Candidate(e[2], e[1], i), e[3])

\* Another process saves an entry, in place of an older one or under a new name,
\* in the root or in the directory of a tool, which it makes when it is not there.
Save(p, n, c) ==
    /\ events < MaxEvents /\ events' = events + 1
    /\ tree[p][n] # c
    /\ p # Root => p \notin Shared /\ kind[p] \in {"absent", "dir"}
    /\ UNCHANGED <<run, begun, balked>>
    /\ tree' = [tree EXCEPT ![p][n] = c]
    /\ kind' = IF p = Root THEN kind ELSE [kind EXCEPT ![p] = "dir"]
    /\ owed' = {x \in owed \cup {c} : Present(x)'}
    /\ exposed' = {x \in owed' : ~Standing(x)'}
    /\ origin' = {e \in origin \cup (IF p = Root THEN {} ELSE {<<p, n, c>>}) : Stands(e)'}
    /\ late' = IF p = Root /\ tree[p][n] = None THEN late \cup {n} ELSE late
    /\ calm' = FALSE /\ predicted' = None

\* The process is killed, and what it knew is lost.
Kill ==
    /\ pc # "idle"
    /\ events < MaxEvents /\ events' = events + 1
    /\ \/ UNCHANGED tree
       \/ pc = "drop" /\ tree' = [tree EXCEPT ![Dir(T)][N] = Debris]
    /\ pc' = "idle" /\ order' = <<>> /\ dry' = FALSE
    /\ at' = 1 /\ todo' = {} /\ k' = 0 /\ contested' = None /\ claimed' = NoClaim
    /\ moves' = NoMoves /\ action' = NoAction
    /\ begun' = [t \in Tools |-> NoEntry]
    /\ late' = {} /\ calm' = FALSE /\ predicted' = None
    /\ UNCHANGED <<kind, kept, balked>>

Next ==
    \/ \E o \in Orders, d \in BOOLEAN : Start(o, d)
    \/ RunStep
    \/ \E p \in Places, n \in Entries, c \in Saved : Save(p, n, c)
    \/ Kill

Spec == Init /\ [][Next]_vars

\* A run is the straight-line code of one process; nobody has to start one.
FairSpec == Spec /\ WF_vars(RunStep)

----------------------------------------------------------------------------
\* What linking promises.

\* "Nothing is deleted, with the single exception of a byte-identical duplicate"
\* (adopt.go), "which loses nothing" (link.md): whatever is interrupted, refused or
\* run again, what was in the project is still in it, unless another process
\* replaced it.
NothingEverLost == \A c \in owed : Present(c)

\* That is more than the code can keep: it renames onto a name some time after it
\* found it free, and removes a copy some time after it found it identical.  All
\* but what others save in those moments, and what stands nowhere but there then,
\* is still in the project.
NothingLost == \A c \in owed \ exposed : Present(c)

\* "Nothing already in the root is moved, renamed or overwritten by this
\* command, ever" (link.md): true of all that was there when place looked at the
\* name, and of nothing that came later.
RootKept ==
    [][RunStep \/ Kill => \A n \in Names : tree[Root][n] # None /\ n \notin late
                              => tree'[Root][n] = tree[Root][n]]_vars

\* "A run that fails part way leaves every entry either at its old path or its
\* new one" (link.md), the latter holding it whole.
AtOldPath(e) == tree[Dir(e[1])][e[2]] = e[3]
AtNewPath(e) == \E i \in Tries : tree[Root][Candidate(e[2], e[1], i)] = e[3]
EntriesAlwaysKept == \A e \in origin : AtOldPath(e) \/ AtNewPath(e)

\* True until a rename fails: a later tool may then drop a copy that is identical
\* to an entry still to be moved.
EntriesKept == ~balked => EntriesAlwaysKept

\* "--dry-run prints exactly that report and writes nothing" (link.md): a run
\* that follows a dry run, with nothing changed in between, reports the same.
DryRunTells ==
    pc = "idle" /\ calm /\ ~dry /\ predicted # None /\ predicted.order = order
    => predicted = Report

\* "A report that can be read against git status line for line" (link.go): the
\* entries a tool no longer has are those the report names, and each is where
\* the report says.
Gone(t) == {n \in Names : begun[t][n] # None /\ tree[t][n] = None}
Reported(t) == {moves[t][i] : i \in 1..Len(moves[t])}
ReportTells ==
    pc = "idle" /\ calm /\ ~dry => \A t \in Tools \ Shared :
        /\ Gone(t) = {m.name : m \in Reported(t)}
        /\ \A m \in Reported(t) : tree[Root][m.as] = begun[t][m.name]

\* The root has no name for an entry: one after the other, the names tried for it
\* hold something else, up to one that holds what it cannot be compared with, or to
\* the last.
Other(a, b) == Compares(a, b) /\ ~Identical(a, b)
NoPlace(t, n, j) ==
    LET a == tree[Dir(t)][n]
        At(i) == tree[Root][Candidate(n, t, i)]
    IN  /\ a # None /\ At(j) # None
        /\ \A i \in 0..(j - 1) : Other(a, At(i))
        /\ ~Compares(a, At(j)) \/ (j + 1 = Attempts /\ ~Identical(a, At(j)))
Unplaceable(t) == \E n \in Entries, j \in Tries : NoPlace(t, n, j)

\* "A project where one tool was scaffolded by hand still gets the rest", and
\* running again completes what was interrupted: a run in which nothing goes
\* wrong links every tool but those that something stands in the way of, or
\* that hold an entry for which there is no place.
RunLinks ==
    pc = "idle" /\ calm /\ ~dry =>
        \A i \in 1..Len(order) :
            LET t == order[i]
            IN  IF Obstructed(t) THEN action[t] = "refused"
                ELSE \/ kind[t] = "linked" /\ action[t] \in {"linked", "unchanged"}
                     \/ kind[t] = "dir" /\ action[t] = "refused" /\ Unplaceable(t)

\* A run ends: every entry is given a name or its tool is refused.
RunEnds == pc # "idle" ~> pc = "idle"

=============================================================================
