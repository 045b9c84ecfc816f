---------------------------- MODULE LinkedProofs ----------------------------
(***************************************************************************)
(* Proofs about the runs of Link that nothing disturbs: what they report   *)
(* is what they did, they link every tool nothing stands in the way of,    *)
(* and a dry run reports what a run then does.                             *)
(***************************************************************************)
EXTENDS LinkProofs

\* A run that changes the project, and that nothing has disturbed so far.
Undisturbed == calm /\ ~dry
Handling == pc \in {"place", "rename", "drop"}

\* The directories of the tools hold nothing but entries a tool may have.
OwnEntries == \A t \in Tools, n \in Names : tree[t][n] # None => n \in Entries

\* What has become of the tools whose turn is over, and what the turn has come to.
Settled(t) ==
    IF Obstructed(t) THEN action[t] = "refused"
    ELSE \/ kind[t] = "linked" /\ action[t] \in {"linked", "unchanged"}
         \/ kind[t] = "dir" /\ action[t] = "refused" /\ Unplaceable(t)
LinkedSoFar ==
    /\ \A i \in 1..Len(order) : i < at => Settled(order[i])
    /\ pc = "idle" => at > Len(order)
    /\ Handling => /\ ~Obstructed(T) /\ kind[T] = "dir"
                   /\ \A n \in Names : tree[T][n] # None => n \in todo
    /\ pc = "link" => ~Obstructed(T) /\ kind[T] = "absent"

\* What a run claims is in the root, but for what it is about to rename; that goes
\* to a free name, and what it is about to drop is there already.
ClaimsKept ==
    pc # "idle" => \A x \in Names :
        claimed[x] # None => tree[Root][x] # None \/ (pc = "rename" /\ x = C)
NamesChecked ==
    /\ pc = "rename" => tree[Root][C] = None
    /\ pc = "drop" => tree[Root][C] = Source

\* A turn begins with the first name; the names tried so far hold something else.
FreshTurn == pc = "tool" => k = 0 /\ contested = None
TriedSoFar ==
    pc = "place" /\ todo # {} =>
        \A i \in 0..(k - 1) : Other(Source, tree[Root][Candidate(N, T, i)])

\* What was reported so far is what was done so far.
Ahead(i) == i > at \/ (i = at /\ pc = "tool")
TellsOf(t) ==
    /\ Gone(t) = {m.name : m \in Reported(t)}
    /\ \A m \in Reported(t) : tree[Root][m.as] = begun[t][m.name]
ToldSoFar ==
    /\ \A t \in Tools : TellsOf(t)
    /\ \A i \in 1..Len(order) : Ahead(i) => moves[order[i]] = <<>>
    /\ Handling => \A n \in todo : tree[T][n] = begun[T][n]

RunInv ==
    /\ TypeOK /\ TodoThere /\ OwnEntries /\ FreshTurn
    /\ Undisturbed => LinkedSoFar /\ ClaimsKept /\ NamesChecked /\ TriedSoFar /\ ToldSoFar

----------------------------------------------------------------------------
\* Steps.

\* The steps of a run that nothing disturbs.
CalmStep ==
    \/ Refuse \/ AlreadyLinked \/ NothingThere \/ Adopt
    \/ ClaimName \/ FindIdentical \/ TryNext \/ GiveUp \/ Rename \/ Drop
    \/ RemoveDir \/ Symlink \/ Finish

\* The steps at which something goes wrong.
Mishap ==
    \/ LinkFails \/ LookFails \/ RenameFails \/ DropFails \/ RemoveDirFails \/ SymlinkFails
    \/ Kill \/ \E p \in Places, n \in Entries, c \in Saved : Save(p, n, c)
LEMMA MishapTells == Mishap => calm' = FALSE
  BY DEF Mishap, LinkFails, LookFails, CallFails, RenameFails, DropFails, RemoveDirFails,
         SymlinkFails, Kill, Save

LEMMA UndisturbedStep ==
    ASSUME [Next]_vars, Undisturbed'
    PROVE  \/ \E o \in Orders, d \in BOOLEAN : Start(o, d)
           \/ Undisturbed /\ (CalmStep \/ UNCHANGED vars)
  <1>1. CASE \E o \in Orders, d \in BOOLEAN : Start(o, d)
    BY <1>1
  <1>2. CASE CalmStep
    <2>1. calm' = calm /\ dry' = dry
      BY <1>2 DEF CalmStep, Refuse, AlreadyLinked, NothingThere, Adopt, ClaimName, FindIdentical,
                  TryNext, GiveUp, Rename, Drop, RemoveDir, Symlink, Finish, history
    <2>2. Undisturbed
      BY <2>1, Zenon DEF Undisturbed
    <2> QED BY <1>2, <2>2
  <1>3. CASE UNCHANGED vars
    <2>1. calm' = calm /\ dry' = dry
      BY <1>3 DEF vars, run, history
    <2>2. Undisturbed
      BY <2>1, Zenon DEF Undisturbed
    <2> QED BY <1>3, <2>2
  <1>4. CASE DryLinked
    <2>1. dry /\ dry' = dry
      BY <1>4 DEF DryLinked
    <2> QED BY <2>1, Zenon DEF Undisturbed
  <1>5. CASE Mishap
    <2>1. calm' = FALSE
      BY <1>5, MishapTells
    <2> QED BY <2>1, Zenon DEF Undisturbed
  <1> QED BY <1>1, <1>2, <1>3, <1>4, <1>5 DEF Next, RunStep, CalmStep, Mishap

\* What a step that moves or drops an entry does to the project.
LEMMA Renamed ==
    ASSUME TypeOK, Shared = {}, Rename
    PROVE  /\ tree'[Root][C] = Source /\ tree'[T][N] = None
           /\ \A q \in Places, m \in Names :
                 <<q, m>> \notin {<<T, N>>, <<Root, C>>} => tree'[q][m] = tree[q][m]
  <1>1. pc = "rename" /\ todo # {}
    BY DEF Rename, TypeOK, RunType
  <1> QED BY <1>1, AtWork DEF Rename

LEMMA EntryLeft ==
    ASSUME TypeOK, Shared = {}, pc = "drop", NEW x, tree' = [tree EXCEPT ![Dir(T)][N] = x]
    PROVE  /\ tree'[T][N] = x
           /\ \A q \in Places, m \in Names : <<q, m>> # <<T, N>> => tree'[q][m] = tree[q][m]
  <1>1. todo # {}
    BY DEF TypeOK, RunType
  <1> QED BY <1>1, AtWork

\* Whatever a step writes in the directory of a tool is one of its entries.
LEMMA OwnStep == Shared = {} /\ TypeOK /\ OwnEntries /\ [Next]_vars => OwnEntries'
  <1> SUFFICES ASSUME Shared = {}, TypeOK, OwnEntries, [Next]_vars PROVE OwnEntries'
    OBVIOUS
  <1>1. ASSUME UNCHANGED tree PROVE OwnEntries'
    BY <1>1 DEF OwnEntries
  <1>2. ASSUME pc \in {"rename", "drop"},
               \A t \in Tools, n \in Names : <<t, n>> # <<T, N>> => tree'[t][n] = tree[t][n]
        PROVE  OwnEntries'
    <2>1. N \in Entries
      BY <1>2, AtWork DEF TypeOK, RunType
    <2> QED BY <1>2, <2>1 DEF OwnEntries
  <1>3. CASE Rename \/ Drop \/ DropFails \/ (pc = "drop" /\ tree' = [tree EXCEPT ![Dir(T)][N] = Debris])
    <2>1. pc \in {"rename", "drop"} /\ todo # {}
      BY <1>3 DEF Rename, Drop, DropFails, TypeOK, RunType
    <2>2. Root \notin Tools /\ Tools \subseteq Places
      BY ToolAssumption DEF Places
    <2>3. \A t \in Tools, n \in Names : <<t, n>> # <<T, N>> => tree'[t][n] = tree[t][n]
      <3>1. CASE Rename
        BY <2>2, <3>1, Renamed
      <3>2. CASE \E x : pc = "drop" /\ tree' = [tree EXCEPT ![Dir(T)][N] = x]
        BY <2>2, <3>2, EntryLeft
      <3> QED BY <1>3, <3>1, <3>2 DEF Drop, DropFails
    <2> QED BY <1>2, <2>1, <2>3
  <1>4. ASSUME NEW p \in Places, NEW n \in Entries, NEW c \in Saved, Save(p, n, c)
        PROVE  OwnEntries'
    BY <1>4, EntryNames DEF Save, OwnEntries, TypeOK, ProjectType, Tree, Places
  <1>5. \/ UNCHANGED tree \/ Rename \/ Drop \/ DropFails
        \/ pc = "drop" /\ tree' = [tree EXCEPT ![Dir(T)][N] = Debris]
        \/ \E p \in Places, n \in Entries, c \in Saved : Save(p, n, c)
    BY DEF Next, RunStep, Start, LinkFails, LookFails, CallFails, Refuse, AlreadyLinked,
           NothingThere, Adopt, ClaimName, FindIdentical, TryNext, GiveUp, RenameFails, RemoveDir,
           RemoveDirFails, DryLinked, Symlink, SymlinkFails, Finish, Kill, vars, project
  <1> QED BY <1>1, <1>3, <1>4, <1>5

----------------------------------------------------------------------------
\* Every tool is linked.

\* A step leaves the directories of the other tools, and what is in the root.
Leaves ==
    /\ \A t \in Tools, n \in Names : t # T => tree'[t][n] = tree[t][n]
    /\ \A x \in Names : tree[Root][x] # None => tree'[Root][x] = tree[Root][x]

LEMMA CalmLeaves ==
    ASSUME Shared = {}, TypeOK, NamesChecked, CalmStep
    PROVE  Leaves
  <1>1. Root \notin Tools /\ Tools \subseteq Places /\ Root \in Places
    BY ToolAssumption DEF Places
  <1>2. CASE Rename
    <2>1. tree[Root][C] = None /\ pc = "rename" /\ todo # {}
      BY <1>2 DEF Rename, NamesChecked, TypeOK, RunType
    <2> QED BY <1>1, <1>2, <2>1, AtWork, Renamed DEF Leaves
  <1>3. CASE Drop
    <2>1. pc = "drop" /\ todo # {}
      BY <1>3 DEF Drop, TypeOK, RunType
    <2> QED BY <1>1, <1>3, <2>1, AtWork, EntryLeft DEF Leaves, Drop
  <1>4. UNCHANGED tree \/ Rename \/ Drop
    BY DEF CalmStep, Refuse, AlreadyLinked, NothingThere, Adopt, ClaimName, FindIdentical, TryNext,
           GiveUp, RemoveDir, Symlink, Finish, project
  <1> QED BY <1>2, <1>3, <1>4 DEF Leaves

LEMMA UnplaceableStays ==
    ASSUME Shared = {}, Leaves
    PROVE  \A t \in Tools : t # T /\ Unplaceable(t) => Unplaceable(t)'
  <1> SUFFICES ASSUME NEW t \in Tools, t # T, NEW n \in Entries, NEW j \in Tries, NoPlace(t, n, j)
               PROVE  NoPlace(t, n, j)'
    BY DEF Unplaceable
  <1>1. Dir(t) = t /\ Dir(t)' = t
    BY DEF Dir
  <1>2. tree'[t][n] = tree[t][n]
    BY EntryNames DEF Leaves
  <1>3. ASSUME NEW i \in 0..j, tree[Root][Candidate(n, t, i)] # None
        PROVE  tree'[Root][Candidate(n, t, i)] = tree[Root][Candidate(n, t, i)]
    <2>1. i \in Tries
      BY EntryAssumption DEF Tries
    <2>2. Candidate(n, t, i) \in Names
      BY <2>1 DEF Names
    <2> QED BY <1>3, <2>2 DEF Leaves
  <1>4. j \in 0..j /\ \A i \in 0..(j - 1) : i \in 0..j
    BY DEF Tries
  <1>5. \A i \in 0..(j - 1) : tree[Root][Candidate(n, t, i)] # None
    BY <1>1 DEF NoPlace, Other, Compares
  <1>6. tree[Root][Candidate(n, t, j)] # None
    BY <1>1 DEF NoPlace
  <1> QED BY <1>1, <1>2, <1>3, <1>4, <1>5, <1>6 DEF NoPlace

\* What was settled stays settled.
LEMMA SettledStays ==
    ASSUME Shared = {}, TypeOK, Leaves,
           \/ UNCHANGED kind
           \/ \E x : kind' = [kind EXCEPT ![T] = x],
           \/ UNCHANGED action
           \/ \E how : action' = [action EXCEPT ![T] = how]
    PROVE  \A t \in Tools : t # T /\ Settled(t) => Settled(t)'
  <1> SUFFICES ASSUME NEW t \in Tools, t # T, Settled(t) PROVE Settled(t)'
    OBVIOUS
  <1>1. kind'[t] = kind[t] /\ action'[t] = action[t]
    BY DEF TypeOK, ProjectType, ReportType
  <1>2. Unplaceable(t) => Unplaceable(t)'
    BY UnplaceableStays
  <1> QED BY <1>1, <1>2 DEF Settled, Obstructed

\* The same tool, named otherwise.
LEMMA SettledSame ==
    ASSUME NEW t, NEW i, t = order'[i], Settled(t)'
    PROVE  Settled(order[i])'
  BY DEF Settled, Obstructed, Unplaceable, NoPlace, Dir

LEMMA OtherTurns ==
    ASSUME TypeOK, at <= Len(order)
    PROVE  /\ at \in 1..Len(order) /\ T \in Tools
           /\ \A i \in 1..Len(order) : order[i] \in Tools /\ (i # at => order[i] # T)
  <1>1. at \in 1..Len(order) /\ \A i \in 1..Len(order) : order[i] \in Tools
    BY ToolAssumption DEF TypeOK, RunType
  <1>2. \A i \in 1..Len(order) : i # at => order[i] # T
    BY <1>1, TurnsApart DEF T
  <1> QED BY <1>1, <1>2 DEF T

\* The turn of a tool ends well.
LEMMA LinkedTurn ==
    ASSUME Shared = {}, TypeOK, LinkedSoFar, Leaves, at <= Len(order), pc # "idle",
           UNCHANGED order,
           \E how : Ends(how),
           \/ UNCHANGED kind
           \/ \E x : kind' = [kind EXCEPT ![T] = x],
           \E t \in Tools : t = T /\ Settled(t)'
    PROVE  LinkedSoFar'
  <1>1. pc' = "tool" /\ at' = at + 1 /\ order' = order
        /\ \E how : action' = [action EXCEPT ![T] = how]
    BY DEF Ends, NextTool
  <1>2. \A t \in Tools : t # T /\ Settled(t) => Settled(t)'
    BY <1>1, SettledStays
  <1>3. at \in 1..Len(order) /\ Len(order) \in Nat
    BY OtherTurns, ToolAssumption DEF TypeOK, RunType
  <1>4. ASSUME NEW i \in 1..Len(order), i < at + 1, NEW t \in Tools, t = order[i]
        PROVE  Settled(t)'
    <2>1. CASE i = at
      BY <1>4, <2>1 DEF T
    <2>2. CASE i # at
      <3>1. t # T /\ Settled(t)
        BY <1>3, <1>4, <2>2, OtherTurns DEF LinkedSoFar
      <3> QED BY <1>2, <3>1
    <2> QED BY <2>1, <2>2
  <1>5. \A i \in 1..Len(order) : order[i] \in Tools
    BY OtherTurns
  <1>6. ASSUME NEW i \in 1..Len(order), i < at + 1
        PROVE  Settled(order[i])'
    <2>1. PICK t \in Tools : t = order[i]
      BY <1>5
    <2>2. Settled(t)'
      BY <1>4, <1>6, <2>1
    <2>3. t = order'[i]
      BY <1>1, <2>1
    <2> QED BY <2>2, <2>3, SettledSame
  <1>7. \A i \in 1..Len(order) : i < at + 1 => Settled(order[i])'
    BY <1>6
  <1> QED BY <1>1, <1>7 DEF LinkedSoFar, Handling

\* A turn that goes on.
LEMMA LinkedOn ==
    ASSUME Shared = {}, TypeOK, LinkedSoFar, Leaves, at <= Len(order),
           UNCHANGED <<order, at, action>>,
           \/ UNCHANGED kind
           \/ \E x : kind' = [kind EXCEPT ![T] = x],
           pc' \in {"place", "rename", "drop", "link"}, ~Obstructed(T)',
           pc' = "link" => kind'[T] = "absent",
           pc' # "link" => kind'[T] = "dir" /\ \A n \in Names : tree'[T][n] # None => n \in todo'
    PROVE  LinkedSoFar'
  <1>1. \A t \in Tools : t # T /\ Settled(t) => Settled(t)'
    BY SettledStays
  <1>2. Len(order) \in Nat /\ at \in 1..Len(order) /\ T' = T
    BY OtherTurns, ToolAssumption DEF TypeOK, RunType, T
  <1>3. ASSUME NEW i \in 1..Len(order), i < at PROVE Settled(order[i])'
    <2>1. PICK t \in Tools : t = order[i] /\ t # T
      BY <1>2, <1>3, OtherTurns
    <2>2. Settled(t)'
      BY <1>1, <1>3, <2>1 DEF LinkedSoFar
    <2>3. t = order'[i]
      BY <2>1
    <2> QED BY <2>2, <2>3, SettledSame
  <1>4. \A i \in 1..Len(order) : i < at => Settled(order[i])'
    BY <1>3
  <1> QED BY <1>2, <1>4 DEF LinkedSoFar, Handling

\* A tool is given up when there is no place for the entry it has come to.
LEMMA GivenUp ==
    ASSUME Shared = {}, TypeOK, TodoThere, ClaimsKept, TriedSoFar, GiveUp
    PROVE  Unplaceable(T)
  <1>1. /\ pc = "place" /\ todo # {} /\ Taken /\ k \in Tries
        /\ ~Compares(Source, HolderContent) \/ (k + 1 = Attempts /\ ~Identical(Source, HolderContent))
    BY DEF GiveUp, Placing, TypeOK, RunType
  <1>2. OnDisk
    BY <1>1, AtWork DEF ClaimsKept, Taken, OnDisk
  <1>3. HolderContent = tree[Root][C] /\ tree[Root][C] # None
    BY <1>2 DEF HolderContent, OnDisk
  <1>4. Source # None /\ Source = tree[Dir(T)][N] /\ N \in Entries
    BY <1>1, AtWork DEF TodoThere
  <1>5. NoPlace(T, N, k)
    BY <1>1, <1>3, <1>4 DEF NoPlace, TriedSoFar, C
  <1> QED BY <1>1, <1>4, <1>5 DEF Unplaceable

LEMMA LinkedStep ==
    ASSUME Shared = {}, TypeOK, OwnEntries, TodoThere, LinkedSoFar, ClaimsKept, NamesChecked,
           TriedSoFar, ~dry, CalmStep
    PROVE  LinkedSoFar'
  <1>0. Leaves
    BY CalmLeaves
  <1>1. CASE Refuse
    <2>1. T \in Tools /\ action'[T] = "refused" /\ kind' = kind /\ Obstructed(T)
      BY <1>1, OtherTurns DEF Refuse, Linking, Ends, TypeOK, ReportType, project
    <2>2. \E t \in Tools : t = T /\ Settled(t)'
      BY <2>1 DEF Settled, Obstructed
    <2> QED BY <1>1, <2>2, <1>0, LinkedTurn DEF Refuse, Linking, project
  <1>2. CASE AlreadyLinked
    <2>1. /\ T \in Tools /\ action'[T] = "unchanged" /\ kind' = kind /\ kind[T] = "linked"
          /\ ~Obstructed(T)
      BY <1>2, OtherTurns DEF AlreadyLinked, Linking, Ends, TypeOK, ReportType, project
    <2>2. \E t \in Tools : t = T /\ Settled(t)'
      BY <2>1 DEF Settled, Obstructed
    <2> QED BY <1>2, <2>2, <1>0, LinkedTurn DEF AlreadyLinked, Linking, project
  <1>3. CASE NothingThere
    <2>1. ~Obstructed(T)' /\ kind'[T] = "absent" /\ T' = T
      BY <1>3 DEF NothingThere, Obstructed, T, project
    <2> QED BY <1>3, <2>1, <1>0, LinkedOn DEF NothingThere, Linking, project
  <1>4. CASE Adopt
    <2>1. ~Obstructed(T)' /\ kind'[T] = "dir" /\ T' = T /\ UNCHANGED tree /\ at <= Len(order)
      BY <1>4 DEF Adopt, Linking, Obstructed, T, project
    <2>2. todo' = {n \in Entries : tree[T][n] # None} /\ T \in Tools
      BY <1>4, <2>1, OwnDir DEF Adopt
    <2>3. \A n \in Names : tree'[T][n] # None => n \in todo'
      BY <2>1, <2>2 DEF OwnEntries
    <2> QED BY <1>4, <2>1, <2>3, <1>0, LinkedOn DEF Adopt, Linking, project
  <1>5. CASE ClaimName \/ FindIdentical \/ TryNext \/ Rename \/ Drop
    <2>0. /\ Handling /\ at <= Len(order) /\ todo # {}
          /\ UNCHANGED <<order, at, action, kind>> /\ Handling' /\ T' = T
      BY <1>5 DEF ClaimName, FindIdentical, TryNext, Rename, Drop, NextEntry, Placing, project,
                  Handling, TypeOK, RunType, T
    <2>1. ~Obstructed(T)' /\ kind'[T] = "dir"
      BY <2>0 DEF LinkedSoFar, Obstructed
    <2>2. \A n \in Names : tree'[T][n] # None => n \in todo'
      <3>1. CASE UNCHANGED <<tree, todo>>
        BY <2>0, <3>1 DEF LinkedSoFar
      <3>2. CASE Rename \/ Drop
        <4>1. /\ todo' = todo \ {N} /\ tree'[T][N] = None
              /\ \A m \in Names : m # N => tree'[T][m] = tree[T][m]
          BY <2>0, <3>2, Renamed, EntryLeft, AtWork DEF Rename, Drop, NextEntry, Handling
        <4> QED BY <2>0, <4>1 DEF LinkedSoFar
      <3> QED BY <1>5, <3>1, <3>2 DEF ClaimName, FindIdentical, TryNext, project
    <2> QED BY <2>0, <2>1, <2>2, <1>0, LinkedOn DEF Handling
  <1>6. CASE RemoveDir
    <2>1. /\ pc = "place" /\ at <= Len(order) /\ T \in Tools /\ ~Obstructed(T) /\ T' = T
          /\ kind' = [kind EXCEPT ![T] = "absent"]
      BY <1>6, OtherTurns DEF RemoveDir, TypeOK, RunType, LinkedSoFar, Handling, T
    <2>2. kind'[T] = "absent" /\ ~Obstructed(T)'
      BY <2>1 DEF Obstructed, TypeOK, ProjectType
    <2> QED BY <1>6, <2>1, <2>2, <1>0, LinkedOn DEF RemoveDir
  <1>7. CASE GiveUp
    <2>1. /\ pc = "place" /\ at <= Len(order) /\ T \in Tools /\ action'[T] = "refused"
          /\ UNCHANGED <<tree, kind>>
      BY <1>7, OtherTurns DEF GiveUp, Placing, Ends, TypeOK, RunType, ReportType, project
    <2>2. ~Obstructed(T) /\ kind[T] = "dir" /\ Unplaceable(T)
      BY <1>7, <2>1, GivenUp DEF LinkedSoFar, Handling
    <2>3. PICK t \in Tools : t = T
      BY <2>1
    <2>4. Unplaceable(t)'
      BY <2>1, <2>2, <2>3 DEF Unplaceable, NoPlace, Dir
    <2>5. Settled(t)'
      BY <2>1, <2>2, <2>3, <2>4 DEF Settled, Obstructed
    <2> QED BY <1>0, <1>7, <2>1, <2>3, <2>5, LinkedTurn DEF GiveUp, project
  <1>8. CASE Symlink
    <2>1. /\ pc = "link" /\ at <= Len(order) /\ T \in Tools /\ ~Obstructed(T)
          /\ kind'[T] = "linked" /\ action'[T] = "linked"
      BY <1>8, OtherTurns DEF Symlink, Ends, TypeOK, RunType, ProjectType, ReportType, LinkedSoFar
    <2>2. \E t \in Tools : t = T /\ Settled(t)'
      BY <2>1 DEF Settled, Obstructed
    <2> QED BY <1>8, <2>1, <2>2, <1>0, LinkedTurn DEF Symlink
  <1>9. CASE Finish
    BY <1>9 DEF Finish, LinkedSoFar, Settled, Obstructed, Unplaceable, NoPlace, Dir, Handling,
                project
  <1> QED BY <1>1, <1>2, <1>3, <1>4, <1>5, <1>6, <1>7, <1>8, <1>9 DEF CalmStep

\* When a run starts nothing is settled, claimed or reported.
LEMMA LinkedStart ==
    ASSUME NEW o \in Orders, NEW d \in BOOLEAN, Start(o, d)
    PROVE  LinkedSoFar' /\ ClaimsKept' /\ NamesChecked' /\ TriedSoFar' /\ ToldSoFar'
  <1>1. /\ pc' = "tool" /\ at' = 1 /\ order' = o /\ claimed' = NoClaim /\ moves' = NoMoves
        /\ begun' = [t \in Tools |-> NoEntry] /\ Len(o) \in Nat
        /\ \A i \in 1..Len(o) : o[i] \in Tools
    BY ToolAssumption DEF Start
  <1>2. LinkedSoFar'
    BY <1>1 DEF LinkedSoFar, Handling
  <1>3. ClaimsKept' /\ NamesChecked' /\ TriedSoFar'
    BY <1>1 DEF ClaimsKept, NamesChecked, TriedSoFar, NoClaim
  <1>4. ToldSoFar'
    <2>1. \A t \in Tools : moves'[t] = <<>> /\ \A n \in Names : begun'[t][n] = None
      BY <1>1 DEF NoMoves, NoEntry
    <2>2. \A t \in Tools : TellsOf(t)'
      BY <2>1 DEF TellsOf, Gone, Reported
    <2> QED BY <1>1, <2>1, <2>2 DEF ToldSoFar, Handling
  <1> QED BY <1>2, <1>3, <1>4

----------------------------------------------------------------------------
\* The names a run gives.

LEMMA ClaimsQuiet ==
    ASSUME ClaimsKept, UNCHANGED <<tree, claimed>>, pc \notin {"idle", "rename"},
           pc' \notin {"rename", "drop"}
    PROVE  ClaimsKept' /\ NamesChecked'
  BY DEF ClaimsKept, NamesChecked

LEMMA ClaimsCalm ==
    ASSUME Shared = {}, TypeOK, TodoThere, ClaimsKept, NamesChecked, ~dry, CalmStep
    PROVE  ClaimsKept' /\ NamesChecked'
  <1>1. CASE \/ Refuse \/ AlreadyLinked \/ NothingThere \/ Adopt \/ TryNext
             \/ GiveUp \/ RemoveDir \/ Symlink \/ Finish
    <2>1. /\ UNCHANGED <<tree, claimed>> /\ pc \notin {"idle", "rename"}
          /\ pc' \notin {"rename", "drop"}
      BY <1>1 DEF Refuse, AlreadyLinked, NothingThere, Adopt, TryNext, GiveUp, RemoveDir,
                  Symlink, Finish, Linking, Placing, Ends, NextTool, project
    <2> QED BY <2>1, ClaimsQuiet
  <1>2. CASE ClaimName
    <2>1. /\ pc = "place" /\ todo # {} /\ tree[Root][C] = None /\ pc' = "rename"
          /\ UNCHANGED <<tree, order, at, todo, k>>
          /\ claimed' = [claimed EXCEPT ![C] = [tool |-> T, name |-> N]]
      BY <1>2 DEF ClaimName, Placing, Taken, OnDisk, project
    <2>2. C' = C
      BY <2>1 DEF C, N, T
    <2>3. ASSUME NEW x \in Names, claimed'[x] # None PROVE tree'[Root][x] # None \/ x = C
      BY <2>1, <2>3 DEF ClaimsKept, TypeOK, RunType
    <2> QED BY <2>1, <2>2, <2>3 DEF ClaimsKept, NamesChecked
  <1>3. CASE FindIdentical
    <2>1. /\ pc = "place" /\ todo # {} /\ Taken /\ Source = HolderContent /\ pc' = "drop"
          /\ UNCHANGED <<tree, claimed, order, at, todo, k>>
      BY <1>3 DEF FindIdentical, Placing, Identical, project
    <2>2. OnDisk
      BY <2>1, AtWork DEF ClaimsKept, Taken, OnDisk
    <2>3. tree[Root][C] = Source
      BY <2>1, <2>2 DEF HolderContent
    <2>4. C' = C /\ Source' = Source
      BY <2>1 DEF C, N, T, Source, Dir
    <2> QED BY <2>1, <2>3, <2>4 DEF ClaimsKept, NamesChecked
  <1>4. CASE Rename
    <2>1. /\ pc = "rename" /\ todo # {} /\ pc' = "place" /\ claimed' = claimed
      BY <1>4 DEF Rename, NextEntry, TypeOK, RunType
    <2>2. /\ T # Root /\ T \in Places /\ Root \in Places /\ Source # None
          /\ tree'[Root][C] = Source
          /\ \A x \in Names : x # C => tree'[Root][x] = tree[Root][x]
      BY <1>4, <2>1, AtWork, Renamed DEF TodoThere
    <2> QED BY <2>1, <2>2 DEF ClaimsKept, NamesChecked
  <1>5. CASE Drop
    <2>1. /\ pc = "drop" /\ todo # {} /\ pc' = "place" /\ claimed' = claimed
      BY <1>5 DEF Drop, NextEntry, TypeOK, RunType
    <2>2. \A x \in Names : tree'[Root][x] = tree[Root][x]
      BY <1>5, <2>1, AtWork, EntryLeft DEF Drop
    <2> QED BY <2>1, <2>2 DEF ClaimsKept, NamesChecked
  <1> QED BY <1>1, <1>2, <1>3, <1>4, <1>5 DEF CalmStep

LEMMA TriedStep ==
    ASSUME Shared = {}, TypeOK, FreshTurn, ClaimsKept, TriedSoFar, ~dry, CalmStep
    PROVE  TriedSoFar'
  <1>1. CASE Adopt
    BY <1>1 DEF Adopt, Linking, FreshTurn, TriedSoFar
  <1>2. CASE Rename \/ Drop
    <2>1. k' = 0
      BY <1>2 DEF Rename, Drop, NextEntry
    <2> QED BY <2>1 DEF TriedSoFar
  <1>3. CASE TryNext
    <2>1. /\ pc = "place" /\ todo # {} /\ Taken /\ k \in Nat /\ Other(Source, HolderContent)
          /\ UNCHANGED <<tree, order, at, todo>> /\ k' = k + 1
      BY <1>3 DEF TryNext, Placing, Other, project, TypeOK, RunType, Tries
    <2>2. OnDisk
      BY <2>1, AtWork DEF ClaimsKept, Taken, OnDisk
    <2>3. Other(Source, tree[Root][Candidate(N, T, k)])
      BY <2>1, <2>2 DEF HolderContent, C
    <2>4. N' = N /\ T' = T /\ Source' = Source
      BY <2>1 DEF N, T, Source, Dir
    <2>5. \A i \in 0..k : Other(Source, tree[Root][Candidate(N, T, i)])
      BY <2>1, <2>3 DEF TriedSoFar
    <2>6. k' - 1 = k
      BY <2>1
    <2> QED BY <2>1, <2>4, <2>5, <2>6 DEF TriedSoFar
  <1>4. pc' # "place" \/ Adopt \/ Rename \/ Drop \/ TryNext
    BY DEF CalmStep, Refuse, AlreadyLinked, NothingThere, ClaimName, FindIdentical, GiveUp,
           RemoveDir, Symlink, Finish, Ends, NextTool
  <1> QED BY <1>1, <1>2, <1>3, <1>4 DEF TriedSoFar

----------------------------------------------------------------------------
\* The report tells what was done.

\* What a step reports of the tool whose turn it is.
LEMMA ReportedMore ==
    ASSUME TypeOK, at <= Len(order), todo # {}, NEW taken, NEW deduped, Remember(N, C, taken, deduped)
    PROVE  /\ \A t \in Tools : t # T => moves'[t] = moves[t]
           /\ \A t \in Tools : t = T =>
                Reported(t)' = Reported(t) \cup
                    {[name |-> N, as |-> C, taken |-> taken, deduped |-> deduped]}
  <1> DEFINE e == [name |-> N, as |-> C, taken |-> taken, deduped |-> deduped]
  <1>1. T \in Tools /\ moves \in [Tools -> Seq(Move)]
    BY AtTool DEF TypeOK, ReportType
  <1>2. moves' = [moves EXCEPT ![T] = Append(moves[T], e)]
    BY DEF Remember
  <1> HIDE DEF e
  <1>3. moves'[T] = Append(moves[T], e) /\ \A t \in Tools : t # T => moves'[t] = moves[t]
    BY <1>1, <1>2
  <1>4. ASSUME NEW s \in Seq(Move)
        PROVE  {Append(s, e)[i] : i \in 1..Len(Append(s, e))} = {s[i] : i \in 1..Len(s)} \cup {e}
    <2>1. Len(Append(s, e)) = Len(s) + 1 /\ Len(s) \in Nat
      OBVIOUS
    <2>2. \A i \in 1..(Len(s) + 1) : Append(s, e)[i] = IF i <= Len(s) THEN s[i] ELSE e
      BY <2>1
    <2> QED BY <2>1, <2>2
  <1>5. ASSUME NEW t \in Tools, t = T PROVE Reported(t)' = Reported(t) \cup {e}
    <2>1. moves[t] \in Seq(Move) /\ moves'[t] = Append(moves[t], e)
      BY <1>1, <1>3, <1>5
    <2> QED BY <1>4, <2>1 DEF Reported
  <1> QED BY <1>3, <1>5 DEF e

LEMMA ToldQuiet ==
    ASSUME TypeOK, ToldSoFar, UNCHANGED <<tree, begun, moves, order>>,
           \/ at' = at /\ pc' # "tool" /\ (Handling' => Handling /\ todo' \subseteq todo)
           \/ at' = at + 1 /\ pc' = "tool"
    PROVE  ToldSoFar'
  <1>1. \A t \in Tools : TellsOf(t)'
    BY DEF ToldSoFar, TellsOf, Gone, Reported
  <1>2. ASSUME NEW i \in 1..Len(order), Ahead(i)' PROVE moves'[order'[i]] = <<>>
    <2>1. Ahead(i)
      BY <1>2, ToolAssumption DEF Ahead, TypeOK, RunType
    <2> QED BY <1>2, <2>1 DEF ToldSoFar
  <1>3. Handling' => \A n \in todo' : (tree[T][n] = begun[T][n])'
    BY DEF ToldSoFar, T, Handling
  <1> QED BY <1>1, <1>2, <1>3 DEF ToldSoFar

\* One more entry is gone from where it was, and is where it is reported to be.
LEMMA ToldMove ==
    ASSUME Shared = {}, TypeOK, TodoThere, ToldSoFar, pc \in {"rename", "drop"},
           UNCHANGED <<order, at, begun>>, NextEntry,
           NEW taken, NEW deduped, Remember(N, C, taken, deduped),
           tree'[Root][C] = Source, tree'[T][N] = None,
           \A q \in Places, m \in Names :
              <<q, m>> \notin {<<T, N>>, <<Root, C>>} => tree'[q][m] = tree[q][m],
           tree[Root][C] \in {None, Source}
    PROVE  ToldSoFar'
  <1>0. /\ todo # {} /\ at <= Len(order) /\ Handling /\ Root \notin Tools /\ Tools \subseteq Places
        /\ pc' = "place" /\ todo' = todo \ {N} /\ T' = T
    BY ToolAssumption DEF TypeOK, RunType, Handling, Places, NextEntry, T
  <1>1. /\ Source = tree[T][N] /\ Source = begun[T][N] /\ Source # None /\ N \in todo
        /\ N \in Names /\ T \in Tools /\ todo \subseteq Names /\ C \in Names
    BY <1>0, AtWork, EntryNames DEF TodoThere, ToldSoFar, Handling, TypeOK, RunType
  <1>2. /\ \A t \in Tools : t # T => moves'[t] = moves[t]
        /\ \A t \in Tools : t = T =>
             Reported(t)' = Reported(t) \cup
                {[name |-> N, as |-> C, taken |-> taken, deduped |-> deduped]}
    BY <1>0, ReportedMore
  <1>3. \A x \in Names : tree[Root][x] # None => tree'[Root][x] = tree[Root][x]
    <2>1. Root \in Places /\ T # Root
      BY <1>0, <1>1 DEF Places
    <2> QED BY <1>0, <1>1, <2>1
  <1>4. ASSUME NEW t \in Tools PROVE \A m \in Reported(t) : m.as \in Names /\ m.name \in Names
    <2>1. moves[t] \in Seq(Move)
      BY DEF TypeOK, ReportType
    <2>2. \A i \in 1..Len(moves[t]) : moves[t][i] \in Move
      BY <2>1
    <2> QED BY <2>2, EntryNames DEF Reported, Move
  <1>5. ASSUME NEW t \in Tools, t # T PROVE TellsOf(t)'
    <2>1. Reported(t)' = Reported(t)
      BY <1>2, <1>5 DEF Reported
    <2>2. Gone(t)' = Gone(t)
      BY <1>0, <1>5 DEF Gone
    <2>3. \A m \in Reported(t) : tree'[Root][m.as] = begun[t][m.name]
      BY <1>3, <1>4 DEF ToldSoFar, TellsOf, Gone
    <2> QED BY <2>1, <2>2, <2>3 DEF ToldSoFar, TellsOf
  <1>6. ASSUME NEW t \in Tools, t = T PROVE TellsOf(t)'
    <2> DEFINE e == [name |-> N, as |-> C, taken |-> taken, deduped |-> deduped]
    <2>1. Reported(t)' = Reported(t) \cup {e}
      BY <1>2, <1>6
    <2>2. e.name = N /\ e.as = C
      OBVIOUS
    <2>3. Gone(t)' = Gone(t) \cup {N}
      BY <1>0, <1>1, <1>6 DEF Gone
    <2>4. \A m \in Reported(t) : tree'[Root][m.as] = begun[t][m.name]
      BY <1>3, <1>4 DEF ToldSoFar, TellsOf, Gone
    <2>5. tree'[Root][C] = begun[t][N]
      BY <1>1, <1>6
    <2> HIDE DEF e
    <2>6. Gone(t)' = {m.name : m \in Reported(t)'}
      BY <2>1, <2>2, <2>3 DEF ToldSoFar, TellsOf
    <2>7. \A m \in Reported(t)' : tree'[Root][m.as] = begun[t][m.name]
      BY <2>1, <2>2, <2>4, <2>5
    <2> QED BY <2>6, <2>7 DEF TellsOf
  <1>7. ASSUME NEW i \in 1..Len(order), Ahead(i)' PROVE moves'[order'[i]] = <<>>
    <2>1. i > at /\ pc # "tool" /\ Ahead(i)
      BY <1>0, <1>7, ToolAssumption DEF Ahead, TypeOK, RunType
    <2>2. order[i] # T /\ order[i] \in Tools
      BY <1>0, <2>1, OtherTurns
    <2> QED BY <1>2, <2>1, <2>2 DEF ToldSoFar
  <1>8. \A n \in todo' : (tree[T][n] = begun[T][n])'
    BY <1>0, <1>1 DEF ToldSoFar
  <1> QED BY <1>5, <1>6, <1>7, <1>8 DEF ToldSoFar

LEMMA ToldStep ==
    ASSUME Shared = {}, TypeOK, TodoThere, ClaimsKept, NamesChecked, ToldSoFar, ~dry, CalmStep
    PROVE  ToldSoFar'
  <1>1. CASE \/ Refuse \/ AlreadyLinked \/ NothingThere \/ ClaimName \/ FindIdentical \/ TryNext
             \/ GiveUp \/ RemoveDir \/ Symlink \/ Finish
    <2>1. /\ UNCHANGED <<tree, begun, moves, order>>
          /\ \/ at' = at /\ pc' # "tool" /\ (Handling' => Handling /\ todo' \subseteq todo)
             \/ at' = at + 1 /\ pc' = "tool"
      BY <1>1 DEF Refuse, AlreadyLinked, NothingThere, ClaimName, FindIdentical, TryNext,
                  GiveUp, RemoveDir, Symlink, Finish, Linking, Placing, Ends,
                  NextTool, project, history, Handling
    <2> QED BY <2>1, ToldQuiet
  <1>2. CASE Adopt
    <2>1. /\ pc = "tool" /\ at <= Len(order) /\ pc' = "place" /\ UNCHANGED <<tree, moves, order, at>>
          /\ begun' = [begun EXCEPT ![T] = tree[Dir(T)]] /\ T' = T
      BY <1>2 DEF Adopt, Linking, project, T
    <2>2. Dir(T) = T /\ T \in Tools /\ at \in 1..Len(order) /\ T = order[at]
      BY <2>1, OwnDir, OtherTurns DEF T
    <2>3. moves[T] = <<>>
      BY <2>1, <2>2 DEF ToldSoFar, Ahead
    <2>4. begun'[T] = tree[T] /\ \A t \in Tools : t # T => begun'[t] = begun[t]
      BY <2>1, <2>2 DEF TypeOK, HistoryType
    <2>5. ASSUME NEW t \in Tools PROVE TellsOf(t)'
      <3>1. CASE t = T
        BY <2>1, <2>3, <2>4, <3>1 DEF TellsOf, Gone, Reported
      <3>2. CASE t # T
        BY <2>1, <2>4, <3>2 DEF ToldSoFar, TellsOf, Gone, Reported
      <3> QED BY <3>1, <3>2
    <2>6. \A i \in 1..Len(order) : Ahead(i)' => Ahead(i)
      BY <2>1 DEF Ahead
    <2> QED BY <2>1, <2>4, <2>5, <2>6 DEF ToldSoFar
  <1>3. CASE Rename
    <2>1. tree[Root][C] = None /\ pc = "rename"
      BY <1>3 DEF Rename, NamesChecked
    <2> QED BY <1>3, <2>1, Renamed, ToldMove DEF Rename, history
  <1>4. CASE Drop
    <2>1. tree[Root][C] = Source /\ pc = "drop" /\ todo # {}
      BY <1>4 DEF Drop, NamesChecked, TypeOK, RunType
    <2>2. /\ tree'[T][N] = None
          /\ \A q \in Places, m \in Names : <<q, m>> # <<T, N>> => tree'[q][m] = tree[q][m]
      BY <1>4, <2>1, EntryLeft DEF Drop
    <2>3. tree'[Root][C] = Source
      BY <2>1, <2>2, AtWork
    <2> QED BY <1>4, <2>1, <2>2, <2>3, ToldMove DEF Drop, history
  <1> QED BY <1>1, <1>2, <1>3, <1>4 DEF CalmStep

----------------------------------------------------------------------------
\* Runs.

LEMMA FreshStep == FreshTurn /\ [Next]_vars => FreshTurn'
  <1> SUFFICES ASSUME FreshTurn, [Next]_vars, pc' = "tool" PROVE k' = 0 /\ contested' = None
    BY DEF FreshTurn
  <1>1. \/ UNCHANGED <<pc, k, contested>>
        \/ k' = 0 /\ contested' = None
    BY DEF Next, RunStep, Start, LinkFails, LookFails, CallFails, Refuse, AlreadyLinked,
           NothingThere, Adopt, ClaimName, FindIdentical, TryNext, GiveUp, Rename, RenameFails,
           Drop, DropFails, RemoveDir, RemoveDirFails, DryLinked, Symlink, SymlinkFails, Finish,
           Save, Kill, Ends, NextTool, NextEntry, Placing, vars, run
  <1> QED BY <1>1 DEF FreshTurn

LEMMA RunInit == Init => RunInv
  <1> SUFFICES ASSUME Init PROVE RunInv
    OBVIOUS
  <1>1. TypeOK /\ TodoThere /\ FreshTurn
    BY TypeInit DEF Init, TodoThere, FreshTurn
  <1>2. OwnEntries
    BY ProjectAssumption DEF Init, OwnEntries
  <1>3. calm = FALSE
    BY DEF Init
  <1> QED BY <1>1, <1>2, <1>3, Zenon DEF RunInv, Undisturbed

LEMMA RunInvStep == Shared = {} /\ RunInv /\ [Next]_vars => RunInv'
  <1> SUFFICES ASSUME Shared = {}, RunInv, [Next]_vars PROVE RunInv'
    OBVIOUS
  <1>0. TypeOK /\ TodoThere /\ OwnEntries /\ FreshTurn
    BY DEF RunInv
  <1>1. TypeOK' /\ TodoThere' /\ OwnEntries' /\ FreshTurn'
    BY <1>0, TypeStep, TodoStep, OwnStep, FreshStep
  <1>2. ASSUME Undisturbed'
        PROVE  LinkedSoFar' /\ ClaimsKept' /\ NamesChecked' /\ TriedSoFar' /\ ToldSoFar'
    <2>1. CASE \E o \in Orders, d \in BOOLEAN : Start(o, d)
      BY <2>1, LinkedStart
    <2>2. CASE Undisturbed /\ CalmStep
      <3>1. LinkedSoFar /\ ClaimsKept /\ NamesChecked /\ TriedSoFar /\ ToldSoFar /\ ~dry
        BY <2>2 DEF RunInv, Undisturbed
      <3> QED BY <1>0, <2>2, <3>1, LinkedStep, ClaimsCalm, TriedStep, ToldStep
    <2>3. CASE Undisturbed /\ UNCHANGED vars
      <3>1. LinkedSoFar /\ ClaimsKept /\ NamesChecked /\ TriedSoFar /\ ToldSoFar
        BY <2>3 DEF RunInv
      <3>2. LinkedSoFar' /\ ClaimsKept'
        BY <2>3, <3>1 DEF vars, project, run, history, LinkedSoFar, Settled, Obstructed, Handling,
                          Unplaceable, NoPlace, Dir, ClaimsKept, C, N, T
      <3>3. NamesChecked' /\ TriedSoFar' /\ ToldSoFar'
        BY <2>3, <3>1 DEF vars, project, run, history, NamesChecked, TriedSoFar, ToldSoFar, TellsOf,
                          Gone, Reported, Ahead, Handling, C, N, T, Source, Dir
      <3> QED BY <3>2, <3>3
    <2> QED BY <1>2, <2>1, <2>2, <2>3, UndisturbedStep
  <1> QED BY <1>1, <1>2 DEF RunInv

LEMMA RunInvariant == ASSUME Shared = {} PROVE Spec => []RunInv
  <1>1. Init => RunInv
    BY RunInit
  <1>2. RunInv /\ [Next]_vars => RunInv'
    BY RunInvStep
  <1> QED BY <1>1, <1>2, PTL DEF Spec

\* When no tool's directory is the root itself: after a run that nothing disturbed,
\* the entries each tool no longer has are those the report names, and each is where
\* the report says.
THEOREM ReportIsTrue ==
    ASSUME Shared = {}
    PROVE  Spec => []ReportTells
  <1>1. RunInv => ReportTells
    <2> SUFFICES ASSUME RunInv, calm, ~dry, NEW t \in Tools \ Shared PROVE TellsOf(t)
      BY DEF ReportTells, TellsOf
    <2>1. Undisturbed
      BY DEF Undisturbed
    <2> QED BY <2>1 DEF RunInv, ToldSoFar
  <1>2. Spec => []RunInv
    BY RunInvariant
  <1> QED BY <1>1, <1>2, PTL

\* When no tool's directory is the root itself: a run that nothing disturbs links
\* every tool nothing stands in the way of, and refuses the others and those that
\* hold an entry for which the root has no place.
THEOREM EveryToolIsLinked ==
    ASSUME Shared = {}
    PROVE  Spec => []RunLinks
  <1>1. RunInv => RunLinks
    <2> SUFFICES ASSUME RunInv, pc = "idle", calm, ~dry, NEW i \in 1..Len(order)
                 PROVE  Settled(order[i])
      BY DEF RunLinks, Settled
    <2>1. Undisturbed
      BY DEF Undisturbed
    <2>2. at > Len(order) /\ \A j \in 1..Len(order) : j < at => Settled(order[j])
      BY <2>1 DEF RunInv, LinkedSoFar
    <2>3. i < at
      BY <2>2, ToolAssumption DEF RunInv, TypeOK, RunType
    <2> QED BY <2>2, <2>3
  <1>2. Spec => []RunInv
    BY RunInvariant
  <1> QED BY <1>1, <1>2, PTL

----------------------------------------------------------------------------
\* A dry run tells what a run would do.
\*
\* What a run decides about an entry depends on what the directories held when it
\* began and on the names claimed so far, and on nothing else.  A dry run reads the
\* first from the project; a real run, which changes the project as it goes, can
\* still be told what they held from what it has claimed and begun.

Was ==
    [p \in Places |-> [n \in Names |->
        IF p = Root THEN IF claimed[n] # None THEN None ELSE tree[Root][n]
        ELSE IF begun[p][n] # None THEN begun[p][n] ELSE tree[p][n]]]

\* A name, seen from the directories w and the claims cl.
TakenIn(w, cl, x) == w[Root][x] # None \/ cl[x] # None
HolderOf(cl, x) == IF cl[x] # None THEN cl[x].tool ELSE Root
ContentIn(w, cl, x) == IF w[Root][x] # None THEN w[Root][x] ELSE w[cl[x].tool][cl[x].name]
Passed(w, cl, t, n, q) ==
    LET x == Candidate(n, t, q)
    IN  /\ TakenIn(w, cl, x)
        /\ Compares(w[t][n], ContentIn(w, cl, x)) /\ ~Identical(w[t][n], ContentIn(w, cl, x))
Free(w, cl, t, n, q) == ~TakenIn(w, cl, Candidate(n, t, q))
Twin(w, cl, t, n, q) ==
    LET x == Candidate(n, t, q)
    IN  /\ TakenIn(w, cl, x)
        /\ Compares(w[t][n], ContentIn(w, cl, x)) /\ Identical(w[t][n], ContentIn(w, cl, x))
GivesUp(w, cl, t, n, q) ==
    LET x == Candidate(n, t, q)
    IN  /\ TakenIn(w, cl, x)
        /\ \/ ~Compares(w[t][n], ContentIn(w, cl, x))
           \/ q + 1 = Attempts /\ ~Identical(w[t][n], ContentIn(w, cl, x))

\* Who held the name tried before.
HeldBefore(cl, t, n, q) == IF q = 0 THEN None ELSE HolderOf(cl, Candidate(n, t, q - 1))

\* What is right to report of the first of the entries left, and the claims after it.
MoveAt(cl, t, n, q, m) ==
    \/ m = [name |-> n, as |-> Candidate(n, t, q), taken |-> HeldBefore(cl, t, n, q),
            deduped |-> FALSE]
    \/ m = [name |-> n, as |-> Candidate(n, t, q), taken |-> HolderOf(cl, Candidate(n, t, q)),
            deduped |-> TRUE]
MoveRight(w, cl, t, left, m) ==
    left # {} /\ \E q \in Tries :
        /\ MoveAt(cl, t, First(left), q, m)
        /\ IF m.deduped THEN Twin(w, cl, t, First(left), q) ELSE Free(w, cl, t, First(left), q)
        /\ \A p \in Tries : p < q => Passed(w, cl, t, First(left), p)
\* There is no place for the first of the entries left.
RefusalRight(w, cl, t, left) ==
    left # {} /\ \E q \in Tries :
        /\ GivesUp(w, cl, t, First(left), q)
        /\ \A p \in Tries : p < q => Passed(w, cl, t, First(left), p)
\* What is right to report of a tool when no more of its entries is placed.
EndsRight(w, cl, t, left, a) ==
    IF left = {} THEN a = "linked" ELSE a = "refused" /\ RefusalRight(w, cl, t, left)
After(cl, t, m) ==
    IF m.deduped THEN cl ELSE [cl EXCEPT ![m.as] = [tool |-> t, name |-> m.name]]

\* The entries left after j moves; the first j moves of the turn at position i, where
\* W tells the claims after each.
Left(w, t, s, j) == {n \in Entries : w[t][n] # None /\ \A b \in 1..j : s[b].name # n}
TurnRight(w, W, i, t, s, j) ==
    \A b \in 1..j :
        /\ MoveRight(w, W[<<i, b - 1>>], t, Left(w, t, s, b - 1), s[b])
        /\ W[<<i, b>>] = After(W[<<i, b - 1>>], t, s[b])

Blocks(t, kd) == t \in Rejected \/ kd \in {"elsewhere", "file"}
Adopts(t, kd) == ~Blocks(t, kd) /\ kd = "dir"
Verdict(t, kd) ==
    IF Blocks(t, kd) THEN "refused" ELSE IF kd = "linked" THEN "unchanged" ELSE "linked"
ToolRight(w, W, i, t, kd, s, a) ==
    /\ IF Adopts(t, kd)
       THEN /\ TurnRight(w, W, i, t, s, Len(s))
            /\ EndsRight(w, W[<<i, Len(s)>>], t, Left(w, t, s, Len(s)), a)
       ELSE s = <<>> /\ a = Verdict(t, kd)
    /\ W[<<i + 1, 0>>] = W[<<i, Len(s)>>]

Reports ==
    [order : Orders \cup {<<>>}, moves : [Tools -> Seq(Move)],
     action : [Tools -> {"none", "linked", "unchanged", "refused"}]]
Unnamed(o, t) == \A i \in 1..Len(o) : o[i] # t

\* What a dry run reported is right for the project as it is.
ReportRight(r, W) ==
    /\ r \in Reports /\ W[<<1, 0>>] = NoClaim
    /\ \A i \in 1..Len(r.order) :
         ToolRight(tree, W, i, r.order[i], kind[r.order[i]], r.moves[r.order[i]],
                   r.action[r.order[i]])
    /\ \A t \in Tools : Unnamed(r.order, t) => r.moves[t] = <<>> /\ r.action[t] = "none"
Foretold == dry /\ predicted # None => \E W : ReportRight(predicted, W)

\* The names tried so far for an entry.
Tried(w, cl, t, n, q, held) ==
    /\ \A p \in Tries : p < q => Passed(w, cl, t, n, p)
    /\ held = HeldBefore(cl, t, n, q)
\* What a dry run has reported so far is right.
DryRight(W) ==
    /\ W[<<1, 0>>] = NoClaim
    /\ \A i \in 1..Len(order) : i < at =>
         ToolRight(tree, W, i, order[i], kind[order[i]], moves[order[i]], action[order[i]])
    /\ \A i \in 1..Len(order) : Ahead(i) => moves[order[i]] = <<>>
    /\ \A t \in Tools : Unnamed(order, t) => moves[t] = <<>> /\ action[t] = "none"
    /\ at <= Len(order) => claimed = W[<<at, Len(moves[T])>>]
    /\ pc = "place" =>
         /\ Adopts(T, kind[T]) /\ TurnRight(tree, W, at, T, moves[T], Len(moves[T]))
         /\ todo = Left(tree, T, moves[T], Len(moves[T]))
         /\ Tried(tree, claimed, T, N, k, contested)
    /\ pc = "link" => kind[T] = "absent" /\ ~Blocks(T, kind[T]) /\ moves[T] = <<>>
DryInv == calm /\ dry /\ pc # "idle" => pc \in {"tool", "place", "link"} /\ \E W : DryRight(W)

\* What a run has claimed is where it was put, and what is ahead of it has not begun.
RunHolds ==
    /\ pc # "idle" => \A x \in Names : claimed[x] # None =>
         /\ begun[claimed[x].tool][claimed[x].name] # None
         /\ \/ tree[Root][x] = begun[claimed[x].tool][claimed[x].name]
            \/ pc = "rename" /\ x = C
    /\ pc = "rename" => claimed[C] = [tool |-> T, name |-> N]
    /\ \A i \in 1..Len(order) : Ahead(i) => begun[order[i]] = NoEntry

\* A run does what a dry run reported.
Told == predicted.moves[T]
TurnFollows(W) ==
    /\ W[<<at + 1, 0>>] = W[<<at, Len(Told)>>] /\ TurnRight(Was, W, at, T, Told, Len(Told))
    /\ EndsRight(Was, W[<<at, Len(Told)>>], T, Left(Was, T, Told, Len(Told)),
                 predicted.action[T])
    /\ Len(moves[T]) <= Len(Told) /\ \A j \in 1..Len(moves[T]) : moves[T][j] = Told[j]
    /\ todo = Left(Was, T, Told, Len(moves[T]))
    /\ pc = "place" => /\ claimed = W[<<at, Len(moves[T])>>]
                       /\ Tried(Was, claimed, T, N, k, contested)
    /\ pc # "place" => /\ claimed = W[<<at, Len(moves[T]) + 1>>] /\ Len(moves[T]) < Len(Told)
                       /\ Told[Len(moves[T]) + 1] =
                            [name |-> N, as |-> C, taken |-> IF pc = "drop" THEN HeldBy ELSE contested,
                             deduped |-> pc = "drop"]
AheadRight(W) ==
    /\ predicted \in Reports
    /\ \A i \in 1..Len(order) : Ahead(i) =>
         ToolRight(Was, W, i, order[i], kind[order[i]], predicted.moves[order[i]],
                   predicted.action[order[i]])
BehindSame ==
    \A t \in Tools : Unnamed(order, t) \/ (\E i \in 1..Len(order) : i < at /\ order[i] = t) =>
        moves[t] = predicted.moves[t] /\ action[t] = predicted.action[t]
Follows(W) ==
    /\ AheadRight(W) /\ BehindSame
    /\ Handling => TurnFollows(W)
    /\ pc = "link" => /\ moves[T] = Told /\ predicted.action[T] = "linked"
                      /\ claimed = W[<<at + 1, 0>>]
    /\ pc = "tool" /\ at <= Len(order) => claimed = W[<<at, 0>>]

\* The entry of the function W at <<i, j>> is the claims after j moves of the tool at
\* position i: the same for the dry run and for the run that follows it.
FollowInv == predicted # None /\ predicted.order = order => \E W : Follows(W)

TellInv ==
    /\ RunInv /\ Foretold /\ DryInv
    /\ Undisturbed => RunHolds /\ FollowInv

\* What is right to report of an entry is determined by what it depends on.
LEMMA MoveUnique ==
    ASSUME NEW w, NEW cl, NEW t, NEW left, NEW m, NEW q \in Tries, MoveRight(w, cl, t, left, m),
           \A p \in Tries : p < q => Passed(w, cl, t, First(left), p)
    PROVE  /\ Free(w, cl, t, First(left), q) =>
                m = [name |-> First(left), as |-> Candidate(First(left), t, q),
                     taken |-> HeldBefore(cl, t, First(left), q), deduped |-> FALSE]
           /\ Twin(w, cl, t, First(left), q) =>
                m = [name |-> First(left), as |-> Candidate(First(left), t, q),
                     taken |-> HolderOf(cl, Candidate(First(left), t, q)), deduped |-> TRUE]
  <1> DEFINE n == First(left)
             F(p) == Free(w, cl, t, n, p)
             D(p) == Twin(w, cl, t, n, p)
             P(p) == Passed(w, cl, t, n, p)
             free(p) == [name |-> n, as |-> Candidate(n, t, p),
                         taken |-> HeldBefore(cl, t, n, p), deduped |-> FALSE]
             twin(p) == [name |-> n, as |-> Candidate(n, t, p),
                         taken |-> HolderOf(cl, Candidate(n, t, p)), deduped |-> TRUE]
  <1>1. PICK r \in Tries : /\ m = free(r) \/ m = twin(r)
                           /\ IF m.deduped THEN D(r) ELSE F(r)
                           /\ \A p \in Tries : p < r => P(p)
    BY DEF MoveRight, MoveAt
  <1>2. \A p : (P(p) => ~F(p) /\ ~D(p)) /\ (F(p) => ~D(p))
    BY DEF Passed, Free, Twin
  <1>3. \/ m = free(r) /\ F(r)
        \/ m = twin(r) /\ D(r)
    <2>1. CASE m = free(r)
      <3>1. m.deduped = FALSE
        BY <2>1
      <3> QED BY <1>1, <2>1, <3>1
    <2>2. CASE m = twin(r)
      <3>1. m.deduped = TRUE
        BY <2>2
      <3> QED BY <1>1, <2>2, <3>1
    <2> QED BY <1>1, <2>1, <2>2
  <1> HIDE DEF F, D, P, free, twin
  <1>4. \A p \in Tries : p < q => P(p)
    BY DEF P, n
  <1>5. F(q) \/ D(q) => r = q
    BY <1>1, <1>2, <1>3, <1>4 DEF Tries
  <1>6. (F(q) => m = free(q)) /\ (D(q) => m = twin(q))
    BY <1>2, <1>3, <1>5
  <1> QED BY <1>6 DEF F, D, free, twin, n

\* No name is right for an entry that has no place.
LEMMA RefusalUnique ==
    ASSUME NEW w, NEW cl, NEW t, NEW left, NEW q \in Tries, RefusalRight(w, cl, t, left),
           \A p \in Tries : p < q => Passed(w, cl, t, First(left), p)
    PROVE  ~Free(w, cl, t, First(left), q) /\ ~Twin(w, cl, t, First(left), q)
  <1> DEFINE n == First(left)
             P(p) == Passed(w, cl, t, n, p)
             G(p) == GivesUp(w, cl, t, n, p)
             FD(p) == Free(w, cl, t, n, p) \/ Twin(w, cl, t, n, p)
  <1>1. PICK g \in Tries : G(g) /\ \A p \in Tries : p < g => P(p)
    BY DEF RefusalRight
  <1>2. \A p : (P(p) => ~FD(p)) /\ (G(p) => ~FD(p)) /\ (G(p) /\ P(p) => p + 1 = Attempts)
    BY DEF Passed, GivesUp, Free, Twin
  <1>3. \A p \in Tries : p < q => P(p)
    BY DEF P, n
  <1> HIDE DEF n, P, G, FD
  <1>4. q \in Nat /\ g \in Nat /\ q <= Attempts - 1 /\ Attempts \in Nat
    BY EntryAssumption DEF Tries
  <1>5. CASE q < g
    BY <1>1, <1>2, <1>5 DEF FD, n
  <1>6. CASE q = g
    BY <1>1, <1>2, <1>6 DEF FD, n
  <1>7. CASE g < q
    <2>1. P(g)
      BY <1>1, <1>3, <1>7
    <2> QED BY <1>1, <1>2, <1>4, <1>7, <2>1
  <1> QED BY <1>4, <1>5, <1>6, <1>7

\* An entry that has a place is not given up.
LEMMA MoveNotRefused ==
    ASSUME NEW w, NEW cl, NEW t, NEW left, NEW m, NEW q \in Tries, MoveRight(w, cl, t, left, m),
           \A p \in Tries : p < q => Passed(w, cl, t, First(left), p)
    PROVE  ~GivesUp(w, cl, t, First(left), q)
  <1> DEFINE n == First(left)
             P(p) == Passed(w, cl, t, n, p)
             G(p) == GivesUp(w, cl, t, n, p)
             FD(p) == Free(w, cl, t, n, p) \/ Twin(w, cl, t, n, p)
  <1>1. PICK g \in Tries : FD(g) /\ \A p \in Tries : p < g => P(p)
    BY DEF MoveRight
  <1>2. \A p : (P(p) => ~FD(p)) /\ (G(p) => ~FD(p)) /\ (G(p) /\ P(p) => p + 1 = Attempts)
    BY DEF Passed, GivesUp, Free, Twin
  <1>3. \A p \in Tries : p < q => P(p)
    BY DEF P, n
  <1> HIDE DEF n, P, G, FD
  <1>4. q \in Nat /\ g \in Nat /\ g <= Attempts - 1 /\ Attempts \in Nat
    BY EntryAssumption DEF Tries
  <1>5. CASE q < g
    <2>1. P(q)
      BY <1>1, <1>5
    <2> QED BY <1>2, <1>4, <1>5, <2>1 DEF G, n
  <1>6. CASE q = g
    BY <1>1, <1>2, <1>6 DEF G, n
  <1>7. CASE g < q
    BY <1>1, <1>2, <1>3, <1>7
  <1> QED BY <1>4, <1>5, <1>6, <1>7

\* Only the moves before, and the claims before each, matter.
LEMMA LeftSame ==
    ASSUME NEW w, NEW t, NEW s, NEW r, NEW j, \A b \in 1..j : r[b] = s[b]
    PROVE  Left(w, t, r, j) = Left(w, t, s, j)
  BY DEF Left

LEMMA TurnSame ==
    ASSUME NEW w, NEW W, NEW V, NEW i, NEW t, NEW s, NEW r, NEW j \in Nat,
           \A b \in 0..j : V[<<i, b>>] = W[<<i, b>>], \A b \in 1..j : r[b] = s[b],
           TurnRight(w, W, i, t, s, j)
    PROVE  TurnRight(w, V, i, t, r, j)
  <1> SUFFICES ASSUME NEW b \in 1..j
               PROVE  /\ MoveRight(w, V[<<i, b - 1>>], t, Left(w, t, r, b - 1), r[b])
                      /\ V[<<i, b>>] = After(V[<<i, b - 1>>], t, r[b])
    BY DEF TurnRight
  <1>1. /\ MoveRight(w, W[<<i, b - 1>>], t, Left(w, t, s, b - 1), s[b])
        /\ W[<<i, b>>] = After(W[<<i, b - 1>>], t, s[b])
    BY DEF TurnRight
  <1>2. b - 1 \in 0..j /\ b \in 0..j /\ r[b] = s[b]
    OBVIOUS
  <1>3. V[<<i, b - 1>>] = W[<<i, b - 1>>] /\ V[<<i, b>>] = W[<<i, b>>]
    BY <1>2
  <1>4. Left(w, t, r, b - 1) = Left(w, t, s, b - 1)
    BY LeftSame
  <1> QED BY <1>1, <1>2, <1>3, <1>4

LEMMA ToolSame ==
    ASSUME NEW w, NEW W, NEW V, NEW i, NEW t, NEW kd, NEW s \in Seq(Move), NEW a,
           \A b \in 0..Len(s) : V[<<i, b>>] = W[<<i, b>>], V[<<i + 1, 0>>] = W[<<i + 1, 0>>],
           ToolRight(w, W, i, t, kd, s, a)
    PROVE  ToolRight(w, V, i, t, kd, s, a)
  <1>1. Len(s) \in Nat /\ Len(s) \in 0..Len(s)
    OBVIOUS
  <1>2. TurnRight(w, W, i, t, s, Len(s)) => TurnRight(w, V, i, t, s, Len(s))
    BY <1>1, TurnSame
  <1>3. V[<<i, Len(s)>>] = W[<<i, Len(s)>>]
    BY <1>1
  <1> QED BY <1>2, <1>3 DEF ToolRight

\* One more move.
MovesOn(w, W, V, i, t, s, m, cl) ==
    /\ TurnRight(w, W, i, t, s, Len(s)) /\ cl = W[<<i, Len(s)>>]
    /\ MoveRight(w, cl, t, Left(w, t, s, Len(s)), m)
    /\ \A b \in 0..Len(s) : V[<<i, b>>] = W[<<i, b>>]
    /\ V[<<i, Len(s) + 1>>] = After(cl, t, m)
Moved(w, V, i, t, s, m) ==
    /\ TurnRight(w, V, i, t, Append(s, m), Len(s) + 1)
    /\ Left(w, t, Append(s, m), Len(s) + 1) = Left(w, t, s, Len(s)) \ {m.name}

LEMMA TurnGrows ==
    \A w, W, V, i, t, m, cl : \A s \in Seq(Move) :
        MovesOn(w, W, V, i, t, s, m, cl) => Moved(w, V, i, t, s, m)
  <1> SUFFICES ASSUME NEW w, NEW W, NEW V, NEW i, NEW t, NEW m, NEW cl, NEW s \in Seq(Move),
                      MovesOn(w, W, V, i, t, s, m, cl)
               PROVE  Moved(w, V, i, t, s, m)
    OBVIOUS
  <1>0. /\ TurnRight(w, W, i, t, s, Len(s)) /\ cl = W[<<i, Len(s)>>]
        /\ MoveRight(w, cl, t, Left(w, t, s, Len(s)), m)
        /\ \A b \in 0..Len(s) : V[<<i, b>>] = W[<<i, b>>]
        /\ V[<<i, Len(s) + 1>>] = After(cl, t, m)
    BY DEF MovesOn
  <1> DEFINE L == Len(s)
             r == Append(s, m)
  <1>1. L \in Nat /\ r[L + 1] = m /\ \A b \in 1..L : r[b] = s[b]
    OBVIOUS
  <1> HIDE DEF r
  <1>2. TurnRight(w, V, i, t, r, L)
    BY <1>0, <1>1, TurnSame
  <1>3. Left(w, t, r, L) = Left(w, t, s, L)
    BY <1>1, LeftSame
  <1>4. L \in 0..L /\ V[<<i, L>>] = cl
    BY <1>0, <1>1
  <1>5. TurnRight(w, V, i, t, r, L + 1)
    <2> SUFFICES ASSUME NEW b \in 1..(L + 1)
                 PROVE  /\ MoveRight(w, V[<<i, b - 1>>], t, Left(w, t, r, b - 1), r[b])
                        /\ V[<<i, b>>] = After(V[<<i, b - 1>>], t, r[b])
      BY DEF TurnRight
    <2>1. CASE b \in 1..L
      BY <1>2, <2>1 DEF TurnRight
    <2>2. CASE b = L + 1
      <3>1. b - 1 = L
        BY <1>1, <2>2
      <3> QED BY <1>0, <1>1, <1>3, <1>4, <2>2, <3>1
    <2> QED BY <1>1, <2>1, <2>2
  <1>6. Left(w, t, r, L + 1) = Left(w, t, s, L) \ {m.name}
    BY <1>1 DEF Left
  <1> QED BY <1>5, <1>6 DEF r, Moved

\* What a run sees is what the directories held when it began.
Sees(w) ==
    /\ Source = w[T][N] /\ (Taken <=> TakenIn(w, claimed, C))
    /\ Taken => HolderContent = ContentIn(w, claimed, C)

LEMMA DrySees ==
    ASSUME Shared = {}, TypeOK, pc = "place", todo # {}
    PROVE  Sees(tree)
  <1>1. C \in Names /\ Source = tree[T][N]
    BY AtWork
  <1>2. \A t : Dir(t) = t
    BY DEF Dir
  <1> QED BY <1>1, <1>2 DEF Sees, Taken, OnDisk, TakenIn, ContentIn, HolderContent

LEMMA RunSees ==
    ASSUME Shared = {}, TypeOK, TodoThere, ToldSoFar, RunHolds, pc = "place", todo # {}
    PROVE  Sees(Was)
  <1>1. /\ C \in Names /\ Source = tree[T][N] /\ N \in todo /\ N \in Names
        /\ T \in Places /\ T # Root /\ Root \in Places /\ Dir(T) = T
    BY AtWork
  <1>2. Source = Was[T][N]
    BY <1>1 DEF ToldSoFar, Handling, TodoThere, Was
  <1>3. Was[Root][C] = IF claimed[C] # None THEN None ELSE tree[Root][C]
    BY <1>1 DEF Was
  <1>4. CASE claimed[C] = None
    BY <1>2, <1>3, <1>4 DEF Sees, Taken, OnDisk, TakenIn, ContentIn, HolderContent
  <1>5. CASE claimed[C] # None
    <2>1. /\ claimed[C].tool \in Tools /\ claimed[C].name \in Names
          /\ begun[claimed[C].tool][claimed[C].name] # None
          /\ tree[Root][C] = begun[claimed[C].tool][claimed[C].name]
      BY <1>1, <1>5, EntryNames DEF RunHolds, TypeOK, RunType, Claim
    <2>2. Was[claimed[C].tool][claimed[C].name] = tree[Root][C]
      BY <2>1, ToolAssumption DEF Was, Places
    <2> QED BY <1>2, <1>3, <1>5, <2>1, <2>2
            DEF Sees, Taken, OnDisk, TakenIn, ContentIn, HolderContent
  <1> QED BY <1>4, <1>5

LEMMA Decides ==
    ASSUME NEW w, Sees(w)
    PROVE  /\ ClaimName => Free(w, claimed, T, N, k)
           /\ FindIdentical => Twin(w, claimed, T, N, k)
           /\ TryNext => Passed(w, claimed, T, N, k)
           /\ GiveUp => GivesUp(w, claimed, T, N, k)
  BY DEF Sees, ClaimName, FindIdentical, TryNext, GiveUp, Free, Twin, Passed, GivesUp, C

----------------------------------------------------------------------------
\* What the directories held can be told all along a run.

LEMMA HoldsStart ==
    ASSUME TypeOK, NEW o \in Orders, NEW d \in BOOLEAN, Start(o, d)
    PROVE  RunHolds' /\ Was' = tree'
  <1>1. /\ pc' = "tool" /\ claimed' = NoClaim /\ begun' = [t \in Tools |-> NoEntry] /\ order' = o
        /\ tree' = tree /\ \A i \in 1..Len(o) : o[i] \in Tools
    BY ToolAssumption DEF Start, project
  <1>2. RunHolds'
    BY <1>1 DEF RunHolds, NoClaim
  <1>3. tree \in [Places -> [Names -> Held \cup {None}]]
    BY DEF TypeOK, ProjectType, Tree
  <1>4. \A p \in Places, n \in Names : Was'[p][n] = tree[p][n]
    BY <1>1 DEF Was, NoClaim, NoEntry, Places
  <1>5. Was' = tree
    <2>1. \A p \in Places : Was'[p] = tree[p]
      <3> SUFFICES ASSUME NEW p \in Places PROVE Was'[p] = tree[p]
        OBVIOUS
      <3>1. DOMAIN Was'[p] = Names /\ DOMAIN tree[p] = Names
        BY <1>3 DEF Was
      <3>2. Was'[p] = [n \in Names |-> Was'[p][n]]
        BY DEF Was
      <3>3. tree[p] = [n \in Names |-> tree[p][n]]
        BY <1>3
      <3> QED BY <1>4, <3>2, <3>3
    <2>2. Was' = [p \in Places |-> Was'[p]]
      BY DEF Was
    <2>3. tree = [p \in Places |-> tree[p]]
      BY <1>3
    <2> QED BY <2>1, <2>2, <2>3
  <1> QED BY <1>1, <1>2, <1>5

\* Nothing tells another past.
LEMMA WasSame ==
    ASSUME \A n \in Names : (IF claimed[n] # None THEN None ELSE tree[Root][n])
                              = (IF claimed'[n] # None THEN None ELSE tree'[Root][n]),
           \A t \in Tools, n \in Names : (IF begun[t][n] # None THEN begun[t][n] ELSE tree[t][n])
                              = (IF begun'[t][n] # None THEN begun'[t][n] ELSE tree'[t][n])
    PROVE  Was' = Was
  BY DEF Was, Places

LEMMA AheadNext ==
    ASSUME TypeOK, UNCHANGED order, NEW i \in 1..Len(order), Ahead(i)',
           (at' = at /\ pc' # "tool") \/ (at' = at + 1 /\ pc' = "tool")
    PROVE  Ahead(i) /\ (i = at => at' = at)
  BY ToolAssumption DEF Ahead, TypeOK, RunType

\* In a run that nothing disturbs, a turn goes on or ends.
LEMMA CalmTurn ==
    ASSUME CalmStep, ~dry
    PROVE  /\ UNCHANGED order
           /\ \/ at' = at /\ pc' # "tool"
              \/ at' = at + 1 /\ pc' = "tool"
  BY DEF CalmStep, Refuse, AlreadyLinked, NothingThere, Adopt, ClaimName, FindIdentical,
         TryNext, GiveUp, Rename, Drop, RemoveDir, Symlink, Finish, Ends, NextTool, NextEntry,
         Placing

\* The claims, at any step.
LEMMA ClaimTypes ==
    ASSUME TypeOK
    PROVE  \A x \in Names : claimed[x] # None =>
              claimed[x].tool \in Tools /\ claimed[x].name \in Names
  <1>1. claimed \in [Names -> Claim \cup {None}]
    BY DEF TypeOK, RunType
  <1> QED BY <1>1, EntryNames DEF Claim

LEMMA HoldsQuiet ==
    ASSUME TypeOK, RunHolds, UNCHANGED <<tree, begun, claimed, order>>, pc \notin {"idle", "rename"},
           pc' # "rename",
           (at' = at /\ pc' # "tool") \/ (at' = at + 1 /\ pc' = "tool")
    PROVE  RunHolds' /\ Was' = Was
  <1>1. \A i \in 1..Len(order) : Ahead(i)' => begun'[order'[i]] = NoEntry
    BY AheadNext DEF RunHolds
  <1> QED BY <1>1 DEF RunHolds, Was

LEMMA HoldsStep ==
    ASSUME Shared = {}, TypeOK, TodoThere, ToldSoFar, RunHolds, ~dry, CalmStep
    PROVE  RunHolds' /\ Was' = Was
  <1>1. CASE \/ Refuse \/ AlreadyLinked \/ NothingThere \/ TryNext \/ FindIdentical
             \/ GiveUp \/ RemoveDir \/ Symlink \/ Finish
    <2>1. /\ UNCHANGED <<tree, begun, claimed>> /\ pc \notin {"idle", "rename"} /\ pc' # "rename"
      BY <1>1 DEF Refuse, AlreadyLinked, NothingThere, TryNext, FindIdentical, GiveUp,
                  RemoveDir, Symlink, Finish, Linking, Placing, Ends, NextTool, NextEntry, project,
                  history
    <2> QED BY <2>1, CalmTurn, HoldsQuiet
  <1>2. CASE Adopt
    <2>1. /\ pc = "tool" /\ at <= Len(order) /\ pc' = "place"
          /\ UNCHANGED <<tree, claimed, order, at>>
          /\ begun' = [begun EXCEPT ![T] = tree[Dir(T)]]
      BY <1>2 DEF Adopt, Linking, project
    <2>2. Dir(T) = T /\ T \in Tools /\ at \in 1..Len(order) /\ T = order[at]
      BY <2>1, OwnDir, OtherTurns DEF T
    <2>3. begun[T] = NoEntry
      BY <2>1, <2>2 DEF RunHolds, Ahead
    <2>4. begun'[T] = tree[T] /\ \A t \in Tools : t # T => begun'[t] = begun[t]
      BY <2>1, <2>2 DEF TypeOK, HistoryType
    <2>5. \A i \in 1..Len(order) : Ahead(i)' => begun'[order'[i]] = NoEntry
      <3> SUFFICES ASSUME NEW i \in 1..Len(order), Ahead(i)' PROVE begun'[order'[i]] = NoEntry
        OBVIOUS
      <3>1. Ahead(i) /\ i # at /\ order'[i] = order[i]
        BY <2>1 DEF Ahead
      <3>2. order[i] # T /\ order[i] \in Tools
        BY <2>1, <3>1, OtherTurns
      <3> QED BY <2>4, <3>1, <3>2 DEF RunHolds
    <2>6. ASSUME NEW x \in Names, claimed[x] # None
          PROVE  /\ begun'[claimed[x].tool][claimed[x].name] # None
                 /\ tree[Root][x] = begun'[claimed[x].tool][claimed[x].name]
      <3>1. /\ begun[claimed[x].tool][claimed[x].name] # None
            /\ tree[Root][x] = begun[claimed[x].tool][claimed[x].name]
            /\ claimed[x].tool \in Tools /\ claimed[x].name \in Names
        BY <2>1, <2>6, ClaimTypes DEF RunHolds
      <3>2. claimed[x].tool # T
        BY <2>3, <3>1 DEF NoEntry
      <3> QED BY <2>4, <3>1, <3>2
    <2>7. Was' = Was
      <3>1. \A t \in Tools, n \in Names :
               (IF begun[t][n] # None THEN begun[t][n] ELSE tree[t][n])
                 = (IF begun'[t][n] # None THEN begun'[t][n] ELSE tree'[t][n])
        BY <2>1, <2>3, <2>4 DEF NoEntry
      <3> QED BY <2>1, <3>1, WasSame
    <2>8. RunHolds'
      BY <2>1, <2>5, <2>6 DEF RunHolds
    <2> QED BY <2>7, <2>8
  <1>3. CASE ClaimName
    <2>1. /\ pc = "place" /\ todo # {} /\ tree[Root][C] = None /\ claimed[C] = None
          /\ pc' = "rename" /\ UNCHANGED <<tree, order, at, todo, k, begun>>
          /\ claimed' = [claimed EXCEPT ![C] = [tool |-> T, name |-> N]]
      BY <1>3 DEF ClaimName, Placing, Taken, OnDisk, project
    <2>2. C' = C /\ T' = T /\ N' = N
      BY <2>1 DEF C, N, T
    <2>3. C \in Names /\ T \in Tools /\ N \in Names /\ begun[T][N] # None
      BY <2>1, AtWork DEF ToldSoFar, Handling, TodoThere
    <2>4. claimed'[C] = [tool |-> T, name |-> N] /\ \A x \in Names : x # C => claimed'[x] = claimed[x]
      BY <2>1, <2>3 DEF TypeOK, RunType
    <2>5. \A i \in 1..Len(order) : Ahead(i)' => begun'[order'[i]] = NoEntry
      BY <2>1 DEF Ahead, RunHolds
    <2>6. RunHolds'
      BY <2>1, <2>2, <2>3, <2>4, <2>5 DEF RunHolds
    <2>7. Was' = Was
      BY <2>1, <2>3, <2>4, WasSame
    <2> QED BY <2>6, <2>7
  <1>4. CASE Rename \/ Drop
    <2>1. /\ pc \in {"rename", "drop"} /\ todo # {} /\ pc' = "place"
          /\ UNCHANGED <<claimed, order, at, begun>>
      BY <1>4 DEF Rename, Drop, NextEntry, TypeOK, RunType, history
    <2>2. /\ T \in Places /\ T # Root /\ Root \in Places /\ Source = tree[T][N] /\ T \in Tools
          /\ Source = begun[T][N] /\ begun[T][N] # None /\ C \in Names /\ N \in Names
      BY <2>1, AtWork DEF ToldSoFar, Handling, TodoThere
    <2>3. \A t \in Tools, n \in Names : <<t, n>> # <<T, N>> => tree'[t][n] = tree[t][n]
      BY <1>4, <2>2, Renamed, EntryLeft, ToolAssumption DEF Drop, Places
    <2>4. \A x \in Names : claimed[x] = None => tree'[Root][x] = tree[Root][x]
      <3>1. CASE Rename
        <4>1. claimed[C] = [tool |-> T, name |-> N] /\ N \in Entries
          BY <2>1, <3>1, AtWork DEF Rename, RunHolds
        <4>2. claimed[C] # None
          BY <2>2, <4>1, EntryAssumption DEF Claim
        <4> QED BY <2>2, <3>1, <4>2, Renamed
      <3>2. CASE Drop
        BY <2>2, <3>2, EntryLeft DEF Drop
      <3> QED BY <1>4, <3>1, <3>2
    <2>5. Was' = Was
      BY <2>1, <2>2, <2>3, <2>4, WasSame
    <2>6. ASSUME NEW x \in Names, claimed[x] # None
          PROVE  /\ begun[claimed[x].tool][claimed[x].name] # None
                 /\ tree'[Root][x] = begun[claimed[x].tool][claimed[x].name]
      <3>1. CASE Rename /\ x = C
        BY <2>1, <2>2, <2>6, <3>1, Renamed DEF Rename, RunHolds
      <3>2. CASE Rename /\ x # C
        BY <2>1, <2>2, <2>6, <3>2, Renamed DEF RunHolds
      <3>3. CASE Drop
        BY <2>1, <2>2, <2>6, <3>3, EntryLeft DEF Drop, RunHolds
      <3> QED BY <1>4, <3>1, <3>2, <3>3
    <2>7. \A i \in 1..Len(order) : Ahead(i)' => begun'[order'[i]] = NoEntry
      BY <2>1 DEF Ahead, RunHolds
    <2>8. RunHolds'
      BY <2>1, <2>6, <2>7 DEF RunHolds
    <2> QED BY <2>5, <2>8
  <1> QED BY <1>1, <1>2, <1>3, <1>4 DEF CalmStep

----------------------------------------------------------------------------
\* What a dry run reports is right.

\* The steps of a dry run.
DryStep ==
    \/ Refuse \/ AlreadyLinked \/ NothingThere \/ Adopt
    \/ ClaimName \/ FindIdentical \/ TryNext \/ GiveUp \/ DryLinked \/ UNCHANGED vars

LEMMA DryCalm ==
    ASSUME TypeOK, DryInv, [Next]_vars, calm', dry', pc' # "idle"
    PROVE  \/ \E o \in Orders, d \in BOOLEAN : Start(o, d)
           \/ DryStep /\ calm /\ dry /\ pc # "idle"
  <1>1. CASE \E o \in Orders, d \in BOOLEAN : Start(o, d)
    BY <1>1
  <1>2. CASE DryStep
    <2>1. calm' = calm /\ dry' = dry /\ (pc # "idle" \/ pc' = pc)
      BY <1>2 DEF DryStep, Refuse, AlreadyLinked, NothingThere, Adopt, ClaimName, FindIdentical,
                  TryNext, GiveUp, DryLinked, Linking, Placing, history, vars, run
    <2>2. calm /\ dry /\ pc # "idle"
      BY <2>1, Zenon
    <2> QED BY <1>2, <2>2
  <1>3. CASE Finish
    BY <1>3 DEF Finish
  <1>4. CASE Mishap
    <2>1. calm' = FALSE
      BY <1>4, MishapTells
    <2> QED BY <2>1, Zenon
  <1>5. CASE Rename \/ Drop \/ RemoveDir \/ Symlink
    <2>1. ~dry /\ dry' = dry
      BY <1>5 DEF Rename, Drop, RemoveDir, Symlink, TypeOK, RunType
    <2> QED BY <2>1, Zenon
  <1> QED BY <1>1, <1>2, <1>3, <1>4, <1>5 DEF Next, RunStep, DryStep, Mishap

LEMMA DryStart ==
    ASSUME NEW o \in Orders, NEW d \in BOOLEAN, Start(o, d)
    PROVE  pc' = "tool" /\ \E W : DryRight(W)'
  <1>1. /\ pc' = "tool" /\ at' = 1 /\ order' = o /\ claimed' = NoClaim /\ moves' = NoMoves
        /\ action' = NoAction /\ Len(o) \in Nat
        /\ \A i \in 1..Len(o) : o[i] \in Tools
    BY ToolAssumption DEF Start
  <1>2. PICK W : W = [p \in Nat \X Nat |-> NoClaim]
    OBVIOUS
  <1>3. W[<<1, 0>>] = NoClaim
    BY <1>2
  <1>4. \A t \in Tools : moves'[t] = <<>> /\ action'[t] = "none"
    BY <1>1 DEF NoMoves, NoAction
  <1>5. at' <= Len(order') => claimed' = W[<<at', Len(moves'[order'[at']])>>]
    <2> SUFFICES ASSUME 1 <= Len(o) PROVE W[<<1, Len(moves'[o[1]])>>] = NoClaim
      BY <1>1
    <2>1. moves'[o[1]] = <<>> /\ Len(<<>>) = 0
      BY <1>1, <1>4
    <2> QED BY <1>3, <2>1
  <1>6. DryRight(W)'
    BY <1>1, <1>3, <1>4, <1>5 DEF DryRight, T
  <1> QED BY <1>1, <1>6

\* The claims are told at one more point.
AddsAt(V, W, i, j, c) ==
    /\ V[<<i, j>>] = c
    /\ \A a, b \in Nat : <<a, b>> # <<i, j>> => V[<<a, b>>] = W[<<a, b>>]

LEMMA Extended == \A W, c : \A i, j \in Nat : \E V : AddsAt(V, W, i, j, c)
  <1> SUFFICES ASSUME NEW W, NEW c, NEW i \in Nat, NEW j \in Nat
               PROVE  \E V : AddsAt(V, W, i, j, c)
    OBVIOUS
  <1> DEFINE V == [p \in Nat \X Nat |-> IF p = <<i, j>> THEN c ELSE W[p]]
  <1>1. V[<<i, j>>] = c
    OBVIOUS
  <1>2. \A a, b \in Nat : <<a, b>> # <<i, j>> => V[<<a, b>>] = W[<<a, b>>]
    OBVIOUS
  <1>3. AddsAt(V, W, i, j, c)
    BY <1>1, <1>2 DEF AddsAt
  <1> QED BY <1>3

LEMMA DryEnds ==
    ASSUME TypeOK, NEW W, DryRight(W), at <= Len(order), pc \in {"tool", "place", "link"},
           UNCHANGED <<tree, kind, order, moves, claimed>>,
           NEW how, Ends(how),
           IF Adopts(T, kind[T]) THEN pc = "place" /\ EndsRight(tree, claimed, T, todo, how)
           ELSE moves[T] = <<>> /\ how = Verdict(T, kind[T])
    PROVE  \E V : DryRight(V)'
  <1> DEFINE L == Len(moves[T])
  <1>1. /\ at \in 1..Len(order) /\ at \in Nat /\ Len(order) \in Nat /\ T \in Tools
        /\ \A i \in 1..Len(order) : order[i] \in Tools /\ (i # at => order[i] # T)
        /\ \A t \in Tools : moves[t] \in Seq(Move) /\ Len(moves[t]) \in Nat
    BY OtherTurns, ToolAssumption DEF TypeOK, RunType, ReportType
  <1>a. PICK V : AddsAt(V, W, at + 1, 0, claimed)
    <2>1. at + 1 \in Nat /\ 0 \in Nat
      BY <1>1
    <2> QED BY <2>1, Extended
  <1>2. /\ V[<<at + 1, 0>>] = claimed
        /\ \A a, b \in Nat : <<a, b>> # <<at + 1, 0>> => V[<<a, b>>] = W[<<a, b>>]
    BY <1>a DEF AddsAt
  <1>3. \A a, b \in Nat : a <= at => V[<<a, b>>] = W[<<a, b>>]
    BY <1>1, <1>2
  <1>4. /\ action'[T] = how /\ \A t \in Tools : t # T => action'[t] = action[t]
        /\ pc' = "tool" /\ at' = at + 1
    BY <1>1 DEF Ends, NextTool, TypeOK, ReportType
  <1>5. ASSUME NEW i \in 1..Len(order), i < at
        PROVE  ToolRight(tree, V, i, order[i], kind[order[i]], moves[order[i]], action'[order[i]])
    <2>1. ToolRight(tree, W, i, order[i], kind[order[i]], moves[order[i]], action[order[i]])
      BY <1>5 DEF DryRight
    <2>2. action'[order[i]] = action[order[i]] /\ moves[order[i]] \in Seq(Move)
      BY <1>1, <1>4, <1>5
    <2>3. \A b \in 0..Len(moves[order[i]]) : V[<<i, b>>] = W[<<i, b>>]
      BY <1>1, <1>3, <1>5
    <2>4. V[<<i + 1, 0>>] = W[<<i + 1, 0>>]
      BY <1>1, <1>3, <1>5
    <2> QED BY <2>1, <2>2, <2>3, <2>4, ToolSame
  <1>6. ToolRight(tree, V, at, T, kind[T], moves[T], action'[T])
    <2>1. V[<<at + 1, 0>>] = V[<<at, L>>]
      BY <1>1, <1>2, <1>3 DEF DryRight
    <2>2. CASE Adopts(T, kind[T])
      <3>1. /\ TurnRight(tree, W, at, T, moves[T], L) /\ claimed = W[<<at, L>>]
            /\ EndsRight(tree, claimed, T, Left(tree, T, moves[T], L), how)
        BY <2>2 DEF DryRight
      <3>2. \A b \in 0..L : V[<<at, b>>] = W[<<at, b>>]
        BY <1>1, <1>3
      <3>3. TurnRight(tree, V, at, T, moves[T], L)
        BY <1>1, <3>1, <3>2, TurnSame
      <3>4. V[<<at, L>>] = claimed
        BY <1>1, <3>1, <3>2
      <3> QED BY <1>4, <2>1, <2>2, <3>1, <3>3, <3>4 DEF ToolRight
    <2>3. CASE ~Adopts(T, kind[T])
      BY <1>4, <2>1, <2>3 DEF ToolRight
    <2> QED BY <2>2, <2>3
  <1>7. \A i \in 1..Len(order) : i < at + 1 =>
           ToolRight(tree, V, i, order[i], kind[order[i]], moves[order[i]], action'[order[i]])
    <2> SUFFICES ASSUME NEW i \in 1..Len(order), i < at + 1
                 PROVE  ToolRight(tree, V, i, order[i], kind[order[i]], moves[order[i]],
                                  action'[order[i]])
      OBVIOUS
    <2>1. CASE i < at
      BY <1>5, <2>1
    <2>2. CASE i = at
      BY <1>6, <2>2 DEF T
    <2> QED BY <1>1, <2>1, <2>2
  <1>8. \A i \in 1..Len(order) : Ahead(i)' => moves[order[i]] = <<>>
    BY <1>4, AheadNext DEF DryRight
  <1>9. \A t \in Tools : Unnamed(order, t) => moves[t] = <<>> /\ action'[t] = "none"
    BY <1>1, <1>4 DEF DryRight, Unnamed, T
  <1>10. at + 1 <= Len(order) => claimed = V[<<at + 1, Len(moves[order[at + 1]])>>]
    <2> SUFFICES ASSUME at + 1 <= Len(order)
                 PROVE  Len(moves[order[at + 1]]) = 0
      BY <1>2
    <2>1. at + 1 \in 1..Len(order) /\ Ahead(at + 1)
      BY <1>1 DEF Ahead
    <2> QED BY <2>1 DEF DryRight
  <1>11. V[<<1, 0>>] = NoClaim
    BY <1>1, <1>3 DEF DryRight
  <1>12. DryRight(V)'
    BY <1>4, <1>7, <1>8, <1>9, <1>10, <1>11 DEF DryRight, T
  <1> QED BY <1>12

LEMMA DryAppends ==
    ASSUME TypeOK, NEW W, DryRight(W), pc = "place", todo # {}, NextEntry,
           UNCHANGED <<tree, kind, order, at, action>>,
           NEW taken, NEW deduped, Remember(N, C, taken, deduped),
           MoveRight(tree, claimed, T, todo,
                     [name |-> N, as |-> C, taken |-> taken, deduped |-> deduped]),
           claimed' = After(claimed, T,
                            [name |-> N, as |-> C, taken |-> taken, deduped |-> deduped])
    PROVE  \E V : DryRight(V)'
  <1> DEFINE m == [name |-> N, as |-> C, taken |-> taken, deduped |-> deduped]
             L == Len(moves[T])
             s == moves[T]
  <1>1. /\ at \in 1..Len(order) /\ at \in Nat /\ Len(order) \in Nat /\ T \in Tools
        /\ \A i \in 1..Len(order) : order[i] \in Tools /\ (i # at => order[i] # T)
        /\ \A t \in Tools : moves[t] \in Seq(Move) /\ Len(moves[t]) \in Nat
        /\ T' = T /\ m.name = N
    BY OtherTurns, ToolAssumption DEF TypeOK, RunType, ReportType, T
  <1>a. PICK V : AddsAt(V, W, at, L + 1, claimed')
    <2>1. at \in Nat /\ L + 1 \in Nat
      BY <1>1
    <2> QED BY <2>1, Extended
  <1>2. /\ V[<<at, L + 1>>] = claimed'
        /\ \A a, b \in Nat : <<a, b>> # <<at, L + 1>> => V[<<a, b>>] = W[<<a, b>>]
    BY <1>a DEF AddsAt
  <1>3. /\ \A a, b \in Nat : a < at => V[<<a, b>>] = W[<<a, b>>]
        /\ \A a \in Nat : V[<<a, 0>>] = W[<<a, 0>>]
        /\ \A b \in 0..L : V[<<at, b>>] = W[<<at, b>>]
    <2>1. L \in Nat /\ at \in Nat
      BY <1>1
    <2> HIDE DEF L
    <2>2. \A a, b \in Nat : a # at \/ b # L + 1 => V[<<a, b>>] = W[<<a, b>>]
      BY <1>2
    <2> QED BY <2>1, <2>2
  <1>4. /\ moves'[T] = Append(s, m) /\ \A t \in Tools : t # T => moves'[t] = moves[t]
    BY <1>1 DEF Remember, TypeOK, ReportType
  <1> HIDE DEF m
  <1>5. ASSUME NEW i \in 1..Len(order), i < at
        PROVE  ToolRight(tree, V, i, order[i], kind[order[i]], moves'[order[i]], action[order[i]])
    <2>1. ToolRight(tree, W, i, order[i], kind[order[i]], moves[order[i]], action[order[i]])
      BY <1>5 DEF DryRight
    <2>2. moves'[order[i]] = moves[order[i]] /\ moves[order[i]] \in Seq(Move)
      BY <1>1, <1>4, <1>5
    <2>3. \A b \in 0..Len(moves[order[i]]) : V[<<i, b>>] = W[<<i, b>>]
      BY <1>1, <1>3, <1>5
    <2>4. V[<<i + 1, 0>>] = W[<<i + 1, 0>>]
      BY <1>1, <1>3, <1>5
    <2> QED BY <2>1, <2>2, <2>3, <2>4, ToolSame
  <1>6. /\ TurnRight(tree, V, at, T, Append(s, m), L + 1)
        /\ Left(tree, T, Append(s, m), L + 1) = todo \ {N}
    <2>1. /\ TurnRight(tree, W, at, T, s, L) /\ todo = Left(tree, T, s, L) /\ claimed = W[<<at, L>>]
          /\ s \in Seq(Move)
      BY <1>1 DEF DryRight
    <2>2. MoveRight(tree, claimed, T, Left(tree, T, s, L), m) /\ claimed' = After(claimed, T, m)
      BY <2>1 DEF m
    <2>3. V[<<at, L + 1>>] = After(claimed, T, m)
      BY <1>2, <2>2
    <2>4. MovesOn(tree, W, V, at, T, s, m, claimed)
      BY <1>3, <2>1, <2>2, <2>3 DEF MovesOn
    <2>5. Moved(tree, V, at, T, s, m)
      BY <2>1, <2>4, TurnGrows
    <2>6. m.name = N
      BY DEF m
    <2> QED BY <1>1, <2>1, <2>5, <2>6 DEF Moved
  <1>7. Len(Append(s, m)) = L + 1
    BY <1>1
  <1>8. \A i \in 1..Len(order) : Ahead(i)' => moves'[order[i]] = <<>>
    <2> SUFFICES ASSUME NEW i \in 1..Len(order), Ahead(i)' PROVE moves'[order[i]] = <<>>
      OBVIOUS
    <2>1. i > at
      BY <1>1 DEF Ahead, NextEntry
    <2>2. Ahead(i) /\ i # at
      BY <1>1, <2>1 DEF Ahead
    <2> QED BY <1>1, <1>4, <2>2 DEF DryRight
  <1>9. \A t \in Tools : Unnamed(order, t) => moves'[t] = <<>> /\ action[t] = "none"
    BY <1>1, <1>4 DEF DryRight, Unnamed, T
  <1>10. V[<<1, 0>>] = NoClaim
    BY <1>3 DEF DryRight
  <1>11. pc' = "place" /\ todo' = todo \ {N} /\ k' = 0 /\ contested' = None
    BY DEF NextEntry
  <1>12. Tried(tree, claimed', T, N', 0, None)
    BY DEF Tried, HeldBefore, Tries
  <1>13. DryRight(V)'
    BY <1>1, <1>2, <1>4, <1>5, <1>6, <1>7, <1>8, <1>9, <1>10, <1>11, <1>12 DEF DryRight
  <1> QED BY <1>13

\* One more name was tried.
LEMMA TriedMore ==
    ASSUME NEW w, NEW cl, NEW t, NEW n, NEW q \in Tries, NEW held, Tried(w, cl, t, n, q, held),
           Passed(w, cl, t, n, q)
    PROVE  Tried(w, cl, t, n, q + 1, HolderOf(cl, Candidate(n, t, q)))
  <1>1. q \in Nat /\ q + 1 # 0 /\ (q + 1) - 1 = q
    BY DEF Tries
  <1>2. \A p \in Tries : p < q + 1 => p < q \/ p = q
    BY <1>1 DEF Tries
  <1>3. HolderOf(cl, Candidate(n, t, q)) = HeldBefore(cl, t, n, q + 1)
    BY <1>1 DEF HeldBefore
  <1> QED BY <1>2, <1>3 DEF Tried

LEMMA BlockedIs == ASSUME NEW t PROVE Blocks(t, kind[t]) <=> Obstructed(t)
  BY DEF Blocks, Obstructed

LEMMA DryNext ==
    ASSUME Shared = {}, TypeOK, FreshTurn, DryInv, [Next]_vars, calm', dry', pc' # "idle"
    PROVE  pc' \in {"tool", "place", "link"} /\ \E W : DryRight(W)'
  <1>1. CASE \E o \in Orders, d \in BOOLEAN : Start(o, d)
    BY <1>1, DryStart
  <1> SUFFICES ASSUME DryStep /\ calm /\ dry /\ pc # "idle"
               PROVE  pc' \in {"tool", "place", "link"} /\ \E W : DryRight(W)'
    BY <1>1, DryCalm
  <1>2. pc \in {"tool", "place", "link"}
    BY DEF DryInv
  <1>3. PICK W : DryRight(W)
    BY DEF DryInv
  <1>4. pc = "tool" /\ at <= Len(order) => moves[T] = <<>> /\ at \in 1..Len(order)
    BY <1>3, OtherTurns DEF DryRight, Ahead, T
  <1>5. CASE Refuse
    <2>1. /\ at <= Len(order) /\ pc = "tool" /\ UNCHANGED <<tree, kind, order, moves, claimed>>
          /\ Ends("refused") /\ pc' = "tool"
      BY <1>5 DEF Refuse, Linking, Ends, NextTool, project
    <2>2. Verdict(T, kind[T]) = "refused" /\ ~Adopts(T, kind[T])
      BY <1>5, BlockedIs DEF Refuse, Verdict, Adopts
    <2> QED BY <1>3, <1>4, <2>1, <2>2, DryEnds
  <1>6. CASE AlreadyLinked
    <2>1. /\ at <= Len(order) /\ pc = "tool" /\ UNCHANGED <<tree, kind, order, moves, claimed>>
          /\ Ends("unchanged") /\ pc' = "tool"
      BY <1>6 DEF AlreadyLinked, Linking, Ends, NextTool, project
    <2>2. Verdict(T, kind[T]) = "unchanged" /\ ~Adopts(T, kind[T])
      BY <1>6, BlockedIs DEF AlreadyLinked, Verdict, Adopts
    <2> QED BY <1>3, <1>4, <2>1, <2>2, DryEnds
  <1>7. CASE DryLinked
    <2>1. /\ at <= Len(order) /\ UNCHANGED <<tree, kind, order, moves, claimed>>
          /\ Ends("linked") /\ pc' = "tool" /\ (pc = "link" \/ (pc = "place" /\ todo = {}))
      BY <1>7 DEF DryLinked, Ends, NextTool, project, TypeOK, RunType
    <2>2. CASE pc = "link"
      <3>1. Verdict(T, kind[T]) = "linked" /\ ~Adopts(T, kind[T]) /\ moves[T] = <<>>
        BY <1>3, <2>2 DEF DryRight, Verdict, Adopts
      <3> QED BY <1>2, <1>3, <2>1, <3>1, DryEnds
    <2>3. CASE pc = "place" /\ todo = {}
      <3>1. EndsRight(tree, claimed, T, todo, "linked") /\ Adopts(T, kind[T])
        BY <1>3, <2>3 DEF DryRight, EndsRight
      <3> QED BY <1>2, <1>3, <2>1, <2>3, <3>1, DryEnds
    <2> QED BY <2>1, <2>2, <2>3
  <1>8. CASE NothingThere
    <2>1. /\ at <= Len(order) /\ pc = "tool" /\ ~Obstructed(T) /\ kind[T] = "absent" /\ pc' = "link"
          /\ UNCHANGED <<tree, kind, order, at, claimed, moves, action>>
      BY <1>8 DEF NothingThere, Linking, project
    <2>2. \A i \in 1..Len(order) : Ahead(i)' => Ahead(i)
      BY <2>1 DEF Ahead
    <2>3. ~Blocks(T, kind[T]) /\ T' = T
      BY <2>1, BlockedIs DEF T
    <2>4. DryRight(W)'
      BY <1>3, <1>4, <2>1, <2>2, <2>3 DEF DryRight
    <2> QED BY <2>1, <2>4
  <1>9. CASE Adopt
    <2>1. /\ at <= Len(order) /\ pc = "tool" /\ ~Obstructed(T) /\ kind[T] = "dir" /\ pc' = "place"
          /\ UNCHANGED <<tree, kind, order, at, claimed, moves, action, k, contested>>
          /\ todo' = {n \in Entries : tree[Dir(T)][n] # None}
      BY <1>9 DEF Adopt, Linking, project
    <2>2. \A i \in 1..Len(order) : Ahead(i)' => Ahead(i)
      BY <2>1 DEF Ahead
    <2>3. Adopts(T, kind[T]) /\ T' = T /\ Dir(T) = T
      BY <2>1, BlockedIs, OwnDir, OtherTurns DEF T, Adopts
    <2>4. moves[T] = <<>> /\ Len(moves[T]) = 0
      BY <1>4, <2>1
    <2>5. TurnRight(tree, W, at, T, moves[T], Len(moves[T]))
      BY <2>4 DEF TurnRight
    <2>6. todo' = Left(tree, T, moves[T], Len(moves[T]))
      BY <2>1, <2>3, <2>4 DEF Left
    <2>7. k = 0 /\ contested = None
      BY <2>1 DEF FreshTurn
    <2>8. Tried(tree, claimed, T, N', k, contested)
      BY <2>7 DEF Tried, HeldBefore, Tries
    <2>9. DryRight(W)'
      BY <1>3, <1>4, <2>1, <2>2, <2>3, <2>5, <2>6, <2>8 DEF DryRight
    <2> QED BY <2>1, <2>9
  <1>10. CASE UNCHANGED vars
    <2>1. DryRight(W)'
      BY <1>3, <1>10 DEF vars, project, run, DryRight, Ahead, T, N
    <2> QED BY <1>2, <1>10, <2>1 DEF vars, run
  <1>a. ASSUME pc = "place", todo # {}
        PROVE  /\ Sees(tree) /\ at <= Len(order) /\ k \in Tries /\ C = Candidate(N, T, k)
               /\ Adopts(T, kind[T]) /\ Tried(tree, claimed, T, N, k, contested)
    <2>1. at <= Len(order) /\ k \in Tries
      BY <1>a DEF TypeOK, RunType
    <2> QED BY <1>3, <1>a, <2>1, DrySees DEF DryRight, C
  <1>11. ASSUME pc = "place", todo # {}, ClaimName \/ FindIdentical \/ TryNext
         PROVE  /\ Sees(tree) /\ at <= Len(order) /\ T' = T /\ k \in Tries /\ C = Candidate(N, T, k)
                /\ Adopts(T, kind[T]) /\ Tried(tree, claimed, T, N, k, contested)
                /\ UNCHANGED <<tree, kind, order, at, action>>
    <2>1. UNCHANGED <<tree, kind, order, at, action>>
      BY <1>11 DEF ClaimName, FindIdentical, TryNext, project
    <2> QED BY <1>a, <1>11, <2>1 DEF T
  <1>12. CASE ClaimName
    <2>1. /\ pc = "place" /\ todo # {} /\ NextEntry /\ Remember(N, C, contested, FALSE)
          /\ claimed' = [claimed EXCEPT ![C] = [tool |-> T, name |-> N]] /\ pc' = "place"
      BY <1>12 DEF ClaimName, Placing, NextEntry
    <2>2. Free(tree, claimed, T, N, k)
      BY <1>11, <1>12, <2>1, Decides
    <2> DEFINE m == [name |-> N, as |-> C, taken |-> contested, deduped |-> FALSE]
    <2>3. m.deduped = FALSE /\ m.as = C /\ m.name = N
      OBVIOUS
    <2>4. MoveAt(claimed, T, N, k, m)
      BY <1>11, <1>12, <2>1 DEF MoveAt, Tried
    <2> HIDE DEF m
    <2>5. MoveRight(tree, claimed, T, todo, m)
      BY <1>11, <1>12, <2>1, <2>2, <2>3, <2>4 DEF MoveRight, Tried, N
    <2>6. claimed' = After(claimed, T, m)
      BY <2>1, <2>3 DEF After
    <2> QED BY <1>3, <1>11, <1>12, <2>1, <2>5, <2>6, DryAppends DEF m
  <1>13. CASE FindIdentical
    <2>1. /\ pc = "place" /\ todo # {} /\ NextEntry /\ Remember(N, C, HeldBy, TRUE)
          /\ claimed' = claimed /\ pc' = "place"
      BY <1>13 DEF FindIdentical, Placing, NextEntry
    <2>2. Twin(tree, claimed, T, N, k)
      BY <1>11, <1>13, <2>1, Decides
    <2> DEFINE m == [name |-> N, as |-> C, taken |-> HeldBy, deduped |-> TRUE]
    <2>3. m.deduped = TRUE
      OBVIOUS
    <2>4. MoveAt(claimed, T, N, k, m)
      BY <1>11, <1>13, <2>1 DEF MoveAt, HeldBy, HolderOf
    <2> HIDE DEF m
    <2>5. MoveRight(tree, claimed, T, todo, m)
      BY <1>11, <1>13, <2>1, <2>2, <2>3, <2>4 DEF MoveRight, Tried, N
    <2>6. claimed' = After(claimed, T, m)
      BY <2>1, <2>3 DEF After
    <2> QED BY <1>3, <1>11, <1>13, <2>1, <2>5, <2>6, DryAppends DEF m
  <1>14. CASE TryNext
    <2>1. /\ pc = "place" /\ todo # {} /\ contested' = HeldBy /\ k' = k + 1
          /\ UNCHANGED <<pc, claimed, todo, moves>>
      BY <1>14 DEF TryNext, Placing
    <2>2. Passed(tree, claimed, T, N, k)
      BY <1>11, <1>14, <2>1, Decides
    <2>3. N' = N
      BY <2>1 DEF N
    <2>4. Tried(tree, claimed, T, N, k + 1, HeldBy)
      BY <1>11, <1>14, <2>1, <2>2, TriedMore DEF HeldBy, HolderOf
    <2>5. Tried(tree', claimed', T', N', k', contested')
      BY <1>11, <1>14, <2>1, <2>3, <2>4
    <2>6. \A i \in 1..Len(order) : Ahead(i)' => Ahead(i)
      BY <1>11, <1>14, <2>1 DEF Ahead
    <2>7. DryRight(W)'
      BY <1>3, <1>11, <1>14, <2>1, <2>5, <2>6 DEF DryRight
    <2> QED BY <2>1, <2>7
  <1>15. CASE GiveUp
    <2>1. /\ pc = "place" /\ todo # {} /\ UNCHANGED <<tree, kind, order, moves, claimed>>
          /\ Ends("refused") /\ pc' = "tool"
      BY <1>15 DEF GiveUp, Placing, Ends, NextTool, project
    <2>2. GivesUp(tree, claimed, T, N, k)
      BY <1>a, <1>15, <2>1, Decides
    <2>3. EndsRight(tree, claimed, T, todo, "refused")
      BY <1>a, <2>1, <2>2 DEF EndsRight, RefusalRight, Tried, N
    <2> QED BY <1>2, <1>3, <1>a, <2>1, <2>3, DryEnds
  <1> QED BY <1>5, <1>6, <1>7, <1>8, <1>9, <1>10, <1>12, <1>13, <1>14, <1>15 DEF DryStep

\* What was reported stays right while dry runs go on.
LEMMA ForetoldStep ==
    ASSUME TypeOK, Foretold, DryInv, [Next]_vars, dry', predicted' # None
    PROVE  \E W : ReportRight(predicted, W)'
  <1>1. ASSUME dry, UNCHANGED <<tree, kind, predicted>>
        PROVE  \E W : ReportRight(predicted, W)'
    <2>1. PICK W : ReportRight(predicted, W)
      BY <1>1 DEF Foretold
    <2>2. ReportRight(predicted, W)'
      BY <1>1, <2>1 DEF ReportRight
    <2> QED BY <2>2
  <1>2. CASE \E o \in Orders, d \in BOOLEAN : Start(o, d)
    <2>1. dry /\ UNCHANGED <<tree, kind, predicted>>
      BY <1>2 DEF Start, project
    <2> QED BY <1>1, <2>1
  <1>3. CASE Finish
    <2>1. /\ dry' = dry /\ UNCHANGED <<tree, kind>> /\ pc = "tool" /\ at > Len(order)
          /\ predicted' = IF dry THEN (IF calm THEN Report ELSE None) ELSE predicted
      BY <1>3 DEF Finish, project
    <2>2. dry /\ calm /\ predicted' = Report
      BY <2>1
    <2>3. PICK W : DryRight(W)
      BY <2>1, <2>2 DEF DryInv
    <2>4. PICK r : r = Report
      OBVIOUS
    <2>5. /\ r.order = order /\ r.moves = moves /\ r.action = action
          /\ r = [order |-> order, moves |-> moves, action |-> action]
      BY <2>4 DEF Report
    <2>6. r \in Reports
      BY <2>5 DEF Reports, TypeOK, RunType, ReportType
    <2>7. \A i \in 1..Len(order) : i < at
      BY <2>1, ToolAssumption DEF TypeOK, RunType
    <2>8. ReportRight(r, W)
      BY <2>3, <2>5, <2>6, <2>7 DEF ReportRight, DryRight
    <2>9. ReportRight(predicted, W)'
      BY <2>1, <2>2, <2>4, <2>8 DEF ReportRight
    <2> QED BY <2>9
  <1>4. CASE \/ Refuse \/ AlreadyLinked \/ NothingThere \/ Adopt \/ ClaimName \/ FindIdentical
             \/ TryNext \/ GiveUp \/ LinkFails \/ LookFails \/ RenameFails \/ RemoveDirFails
             \/ DryLinked \/ SymlinkFails \/ UNCHANGED vars
    <2>1. dry' = dry /\ UNCHANGED <<tree, kind, predicted>>
      BY <1>4 DEF Refuse, AlreadyLinked, NothingThere, Adopt, ClaimName, FindIdentical, TryNext,
                  GiveUp, LinkFails, LookFails, CallFails, RenameFails, RemoveDirFails, DryLinked,
                  SymlinkFails, project, history, vars, run
    <2> QED BY <1>1, <2>1
  <1>5. CASE Rename \/ Drop \/ DropFails \/ RemoveDir \/ Symlink
    <2>1. ~dry /\ dry' = dry
      BY <1>5 DEF Rename, Drop, DropFails, RemoveDir, Symlink, TypeOK, RunType
    <2> QED BY <2>1
  <1>6. CASE Kill \/ \E p \in Places, n \in Entries, c \in Saved : Save(p, n, c)
    BY <1>6 DEF Kill, Save
  <1> QED BY <1>2, <1>3, <1>4, <1>5, <1>6 DEF Next, RunStep

----------------------------------------------------------------------------
\* A run does what was foretold.

LEMMA FollowStart ==
    ASSUME TypeOK, Foretold, NEW o \in Orders, Start(o, FALSE), predicted' # None,
           predicted'.order = order'
    PROVE  \E W : Follows(W)'
  <1>1. /\ dry /\ pc' = "tool" /\ at' = 1 /\ order' = o /\ claimed' = NoClaim /\ moves' = NoMoves
        /\ action' = NoAction /\ UNCHANGED <<tree, kind, predicted>> /\ Len(o) \in Nat
        /\ \A i \in 1..Len(o) : o[i] \in Tools
    BY ToolAssumption DEF Start, project
  <1>2. Was' = tree
    BY <1>1, HoldsStart
  <1>3. PICK W : ReportRight(predicted, W)
    BY <1>1 DEF Foretold
  <1>4. AheadRight(W)'
    BY <1>1, <1>2, <1>3 DEF AheadRight, ReportRight
  <1>5. BehindSame'
    <2>1. \A t \in Tools : moves'[t] = <<>> /\ action'[t] = "none"
      BY <1>1 DEF NoMoves, NoAction
    <2> QED BY <1>1, <1>3, <2>1 DEF BehindSame, ReportRight
  <1>6. claimed' = W[<<1, 0>>]
    BY <1>1, <1>3 DEF ReportRight
  <1>7. Follows(W)'
    BY <1>1, <1>4, <1>5, <1>6 DEF Follows, Handling
  <1> QED BY <1>7

\* What a step of the turn of T leaves as it was.
Elsewhere ==
    /\ UNCHANGED <<order, predicted>> /\ Was' = Was
    /\ \A t \in Tools : t # T => /\ kind'[t] = kind[t] /\ moves'[t] = moves[t]
                                 /\ action'[t] = action[t]

LEMMA RestOn ==
    ASSUME TypeOK, at <= Len(order), Elsewhere, at' = at, pc' # "tool", NEW W, Follows(W)
    PROVE  AheadRight(W)' /\ BehindSame' /\ T' = T /\ (Told)' = Told
  <1>1. /\ at \in 1..Len(order) /\ Len(order) \in Nat /\ T \in Tools
        /\ \A i \in 1..Len(order) : order[i] \in Tools /\ (i # at => order[i] # T)
    BY OtherTurns, ToolAssumption DEF TypeOK, RunType
  <1>2. AheadRight(W)'
    <2>1. \A i \in 1..Len(order) : Ahead(i)' => Ahead(i) /\ i # at
      BY <1>1 DEF Ahead
    <2>2. \A i \in 1..Len(order) : Ahead(i)' => kind'[order[i]] = kind[order[i]]
      BY <1>1, <2>1 DEF Elsewhere
    <2> QED BY <2>1, <2>2 DEF AheadRight, Elsewhere, Follows
  <1>3. BehindSame'
    <2>1. \A t \in Tools : Unnamed(order, t) \/ (\E i \in 1..Len(order) : i < at /\ order[i] = t)
                             => t # T
      BY <1>1 DEF Unnamed, T
    <2> QED BY <2>1 DEF BehindSame, Elsewhere, Follows
  <1> QED BY <1>2, <1>3 DEF T, Told, Elsewhere

LEMMA FollowEnds ==
    ASSUME TypeOK, at <= Len(order), Elsewhere, pc' = "tool", at' = at + 1, NEW W, Follows(W),
           claimed' = W[<<at + 1, 0>>], UNCHANGED moves, moves[T] = Told,
           action'[T] = predicted.action[T]
    PROVE  Follows(W)'
  <1>1. /\ at \in 1..Len(order) /\ Len(order) \in Nat /\ T \in Tools
        /\ \A i \in 1..Len(order) : order[i] \in Tools /\ (i # at => order[i] # T)
    BY OtherTurns, ToolAssumption DEF TypeOK, RunType
  <1>2. AheadRight(W)'
    <2>1. \A i \in 1..Len(order) : Ahead(i)' => Ahead(i) /\ i # at
      BY <1>1 DEF Ahead
    <2>2. \A i \in 1..Len(order) : Ahead(i)' => kind'[order[i]] = kind[order[i]]
      BY <1>1, <2>1 DEF Elsewhere
    <2> QED BY <2>1, <2>2 DEF AheadRight, Elsewhere, Follows
  <1>3. BehindSame'
    <2>1. ASSUME NEW t \in Tools,
                 Unnamed(order, t) \/ (\E i \in 1..Len(order) : i < at + 1 /\ order[i] = t)
          PROVE  moves'[t] = predicted.moves[t] /\ action'[t] = predicted.action[t]
      <3>1. CASE t = T
        BY <3>1 DEF Told
      <3>2. CASE t # T
        <4>1. Unnamed(order, t) \/ (\E i \in 1..Len(order) : i < at /\ order[i] = t)
          BY <1>1, <2>1, <3>2 DEF T
        <4> QED BY <2>1, <3>2, <4>1 DEF BehindSame, Elsewhere, Follows
      <3> QED BY <3>1, <3>2
    <2> QED BY <2>1 DEF BehindSame, Elsewhere
  <1> QED BY <1>2, <1>3 DEF Follows, Handling

\* The next move foretold, and the entries left after it.
LEMMA NextTold ==
    ASSUME TypeOK, at <= Len(order), NEW W, Follows(W), pc = "place", todo # {}
    PROVE  \/ /\ Len(moves[T]) < Len(Told)
              /\ MoveRight(Was, claimed, T, todo, Told[Len(moves[T]) + 1])
              /\ W[<<at, Len(moves[T]) + 1>>] = After(claimed, T, Told[Len(moves[T]) + 1])
           \/ /\ moves[T] = Told /\ predicted.action[T] = "refused"
              /\ RefusalRight(Was, claimed, T, todo) /\ claimed = W[<<at + 1, 0>>]
  <1>1. TurnFollows(W) /\ T \in Tools /\ predicted \in Reports
    BY OtherTurns DEF Follows, Handling, AheadRight
  <1>2. /\ moves[T] \in Seq(Move) /\ Told \in Seq(Move)
        /\ Len(moves[T]) \in Nat /\ Len(Told) \in Nat
    <2>1. moves[T] \in Seq(Move) /\ predicted.moves[T] \in Seq(Move)
      BY <1>1 DEF Reports, TypeOK, ReportType
    <2> QED BY <2>1 DEF Told
  <1>3. CASE Len(moves[T]) < Len(Told)
    <2>1. Len(moves[T]) + 1 \in 1..Len(Told) /\ (Len(moves[T]) + 1) - 1 = Len(moves[T])
      BY <1>2, <1>3
    <2>2. /\ MoveRight(Was, W[<<at, Len(moves[T])>>], T, Left(Was, T, Told, Len(moves[T])),
                       Told[Len(moves[T]) + 1])
          /\ W[<<at, Len(moves[T]) + 1>>] =
               After(W[<<at, Len(moves[T])>>], T, Told[Len(moves[T]) + 1])
      BY <1>1, <2>1 DEF TurnFollows, TurnRight
    <2> QED BY <1>1, <1>3, <2>2 DEF TurnFollows
  <1>4. CASE Len(moves[T]) = Len(Told)
    <2>1. moves[T] = Told
      <3>1. \A j \in 1..Len(moves[T]) : moves[T][j] = Told[j]
        BY <1>1 DEF TurnFollows
      <3> QED BY <1>2, <1>4, <3>1
    <2>2. /\ todo = Left(Was, T, Told, Len(Told)) /\ claimed = W[<<at, Len(Told)>>]
          /\ claimed = W[<<at + 1, 0>>]
      BY <1>1, <1>4 DEF TurnFollows
    <2>3. EndsRight(Was, claimed, T, todo, predicted.action[T])
      BY <1>1, <2>2 DEF TurnFollows
    <2> QED BY <2>1, <2>2, <2>3 DEF EndsRight
  <1> QED BY <1>1, <1>2, <1>3, <1>4 DEF TurnFollows

\* The turn of a tool begins and ends as foretold.
LEMMA FollowTurn ==
    ASSUME Shared = {}, TypeOK, FreshTurn, LinkedSoFar, ToldSoFar, RunHolds, ~dry,
           Refuse \/ AlreadyLinked \/ NothingThere \/ Adopt, Was' = Was, NEW W, Follows(W)
    PROVE  Follows(W)'
  <1>1. /\ pc = "tool" /\ at <= Len(order) /\ UNCHANGED <<order, predicted, kind, tree, moves, claimed>>
        /\ \A t \in Tools : t # T => action'[t] = action[t]
    BY DEF Refuse, AlreadyLinked, NothingThere, Adopt, Linking, Ends, project, history, TypeOK,
           ReportType
  <1>2. /\ T \in Tools /\ at \in 1..Len(order) /\ moves[T] = <<>> /\ begun[T] = NoEntry
        /\ claimed = W[<<at, 0>>] /\ Dir(T) = T /\ Ahead(at)
        /\ ToolRight(Was, W, at, T, kind[T], Told, predicted.action[T])
    BY <1>1, OtherTurns, OwnDir
       DEF ToldSoFar, RunHolds, Follows, AheadRight, Ahead, T, Told
  <1>3. Elsewhere
    BY <1>1 DEF Elsewhere
  <1>4. Len(<<>>) = 0
    OBVIOUS
  <1>5. CASE Refuse \/ AlreadyLinked
    <2>1. /\ pc' = "tool" /\ at' = at + 1 /\ action'[T] = Verdict(T, kind[T]) /\ ~Adopts(T, kind[T])
      BY <1>2, <1>5, BlockedIs DEF Refuse, AlreadyLinked, Ends, NextTool, Verdict, Adopts, TypeOK,
         ReportType
    <2>2. Told = <<>> /\ predicted.action[T] = action'[T] /\ W[<<at + 1, 0>>] = W[<<at, 0>>]
      BY <1>2, <1>4, <2>1 DEF ToolRight
    <2> QED BY <1>1, <1>2, <1>3, <2>1, <2>2, FollowEnds
  <1>6. CASE NothingThere
    <2>1. /\ pc' = "link" /\ at' = at /\ Verdict(T, kind[T]) = "linked" /\ ~Adopts(T, kind[T])
      BY <1>6, BlockedIs DEF NothingThere, Verdict, Adopts
    <2>2. Told = <<>> /\ predicted.action[T] = "linked" /\ W[<<at + 1, 0>>] = W[<<at, 0>>]
      BY <1>2, <1>4, <2>1 DEF ToolRight
    <2>3. AheadRight(W)' /\ BehindSame' /\ T' = T /\ (Told)' = Told
      BY <1>1, <1>3, <2>1, RestOn
    <2> QED BY <1>1, <1>2, <2>1, <2>2, <2>3 DEF Follows, Handling
  <1>7. CASE Adopt
    <2>1. /\ pc' = "place" /\ at' = at /\ Adopts(T, kind[T])
          /\ todo' = {n \in Entries : tree[T][n] # None} /\ UNCHANGED <<k, contested>>
      BY <1>2, <1>7, BlockedIs DEF Adopt, Adopts
    <2>2. /\ W[<<at + 1, 0>>] = W[<<at, Len(Told)>>] /\ TurnRight(Was, W, at, T, Told, Len(Told))
          /\ EndsRight(Was, W[<<at, Len(Told)>>], T, Left(Was, T, Told, Len(Told)),
                       predicted.action[T])
      BY <1>2, <2>1 DEF ToolRight
    <2>3. AheadRight(W)' /\ BehindSame' /\ T' = T /\ (Told)' = Told
      BY <1>1, <1>3, <2>1, RestOn
    <2>4. todo' = Left(Was, T, Told, 0)
      <3>1. \A n \in Entries : Was[T][n] = tree[T][n]
        BY <1>2, EntryNames, ToolAssumption DEF Was, NoEntry, Places
      <3> QED BY <2>1, <3>1 DEF Left
    <2>5. Tried(Was, claimed, T, N', k, contested)
      BY <1>1 DEF FreshTurn, Tried, HeldBefore, Tries
    <2>6. Len(Told) \in Nat
      <3>1. predicted.moves[T] \in Seq(Move)
        BY <1>2 DEF Follows, AheadRight, Reports
      <3> QED BY <3>1 DEF Told
    <2>7. TurnFollows(W)'
      BY <1>1, <1>2, <1>4, <2>1, <2>2, <2>3, <2>4, <2>5, <2>6 DEF TurnFollows
    <2> QED BY <2>1, <2>3, <2>7 DEF Follows
  <1> QED BY <1>5, <1>6, <1>7

\* An entry is handled as foretold.
LEMMA FollowPlace ==
    ASSUME Shared = {}, TypeOK, TodoThere, ToldSoFar, RunHolds, ~dry,
           ClaimName \/ FindIdentical \/ TryNext, Was' = Was, NEW W, Follows(W)
    PROVE  Follows(W)'
  <1>1. /\ pc = "place" /\ todo # {} /\ at <= Len(order) /\ k \in Tries
        /\ UNCHANGED <<order, predicted, kind, moves, action, at, todo>>
        /\ pc' \in {"place", "rename", "drop"}
    BY DEF ClaimName, FindIdentical, TryNext, Placing, project, history, TypeOK, RunType
  <1>2. Elsewhere
    BY <1>1 DEF Elsewhere
  <1>3. AheadRight(W)' /\ BehindSame' /\ T' = T /\ (Told)' = Told /\ N' = N
    BY <1>1, <1>2, RestOn DEF N
  <1>4. /\ TurnFollows(W) /\ claimed = W[<<at, Len(moves[T])>>]
        /\ Tried(Was, claimed, T, N, k, contested)
    BY <1>1 DEF Follows, Handling, TurnFollows
  <1>6. Sees(Was)
    BY <1>1, RunSees
  <1>a. \A p \in Tries : p < k => Passed(Was, claimed, T, First(todo), p)
    BY <1>4 DEF Tried, N
  <1>5. ASSUME Free(Was, claimed, T, N, k) \/ Twin(Was, claimed, T, N, k)
        PROVE  /\ Len(moves[T]) < Len(Told)
               /\ MoveRight(Was, claimed, T, todo, Told[Len(moves[T]) + 1])
               /\ W[<<at, Len(moves[T]) + 1>>] = After(claimed, T, Told[Len(moves[T]) + 1])
    <2>1. ~RefusalRight(Was, claimed, T, todo)
      BY <1>1, <1>5, <1>a, RefusalUnique DEF N
    <2> QED BY <1>1, <2>1, NextTold
  <1>7. PICK m : m = Told[Len(moves[T]) + 1]
    OBVIOUS
  <1>8. /\ Free(Was, claimed, T, N, k) =>
             m = [name |-> N, as |-> C, taken |-> contested, deduped |-> FALSE]
        /\ Twin(Was, claimed, T, N, k) =>
             m = [name |-> N, as |-> C, taken |-> HeldBy, deduped |-> TRUE]
    <2> SUFFICES ASSUME Free(Was, claimed, T, N, k) \/ Twin(Was, claimed, T, N, k)
                 PROVE  /\ Free(Was, claimed, T, N, k) =>
                             m = [name |-> N, as |-> C, taken |-> contested, deduped |-> FALSE]
                        /\ Twin(Was, claimed, T, N, k) =>
                             m = [name |-> N, as |-> C, taken |-> HeldBy, deduped |-> TRUE]
      OBVIOUS
    <2>2. MoveRight(Was, claimed, T, todo, m)
      BY <1>5, <1>7
    <2>3. /\ Free(Was, claimed, T, First(todo), k) =>
                m = [name |-> First(todo), as |-> Candidate(First(todo), T, k),
                     taken |-> HeldBefore(claimed, T, First(todo), k), deduped |-> FALSE]
          /\ Twin(Was, claimed, T, First(todo), k) =>
                m = [name |-> First(todo), as |-> Candidate(First(todo), T, k),
                     taken |-> HolderOf(claimed, Candidate(First(todo), T, k)), deduped |-> TRUE]
      BY <1>1, <1>a, <2>2, MoveUnique
    <2>4. contested = HeldBefore(claimed, T, N, k) /\ HeldBy = HolderOf(claimed, C)
      BY <1>4 DEF Tried, HeldBy, HolderOf
    <2> QED BY <2>3, <2>4 DEF N, C
  <1>9. CASE ClaimName
    <2>1. /\ pc' = "rename" /\ UNCHANGED <<k, contested>>
          /\ claimed' = [claimed EXCEPT ![C] = [tool |-> T, name |-> N]]
      BY <1>9 DEF ClaimName
    <2>a. Free(Was, claimed, T, N, k)
      BY <1>6, <1>9, Decides
    <2>2. m = [name |-> N, as |-> C, taken |-> contested, deduped |-> FALSE]
      BY <1>8, <2>a
    <2>3. m.deduped = FALSE /\ m.as = C /\ m.name = N
      BY <2>2
    <2>4. claimed' = W[<<at, Len(moves[T]) + 1>>]
      BY <1>5, <1>7, <2>1, <2>3, <2>a DEF After
    <2>5. C' = C
      BY <1>3, <2>1 DEF C
    <2>6. Told[Len(moves[T]) + 1] =
            [name |-> N, as |-> C, taken |-> IF pc' = "drop" THEN HeldBy' ELSE contested',
             deduped |-> pc' = "drop"]
      BY <1>7, <2>1, <2>2
    <2>7. TurnFollows(W)'
      BY <1>1, <1>3, <1>4, <1>5, <2>1, <2>4, <2>5, <2>6, <2>a DEF TurnFollows
    <2> QED BY <1>3, <2>1, <2>7 DEF Follows
  <1>10. CASE FindIdentical
    <2>1. pc' = "drop" /\ UNCHANGED <<k, contested, claimed>>
      BY <1>10 DEF FindIdentical
    <2>a. Twin(Was, claimed, T, N, k)
      BY <1>6, <1>10, Decides
    <2>2. m = [name |-> N, as |-> C, taken |-> HeldBy, deduped |-> TRUE]
      BY <1>8, <2>a
    <2>3. m.deduped = TRUE
      BY <2>2
    <2>4. claimed' = W[<<at, Len(moves[T]) + 1>>]
      BY <1>5, <1>7, <2>1, <2>3, <2>a DEF After
    <2>5. C' = C
      BY <1>3, <2>1 DEF C
    <2>6. HeldBy' = HeldBy
      BY <2>1, <2>5 DEF HeldBy
    <2>7. Told[Len(moves[T]) + 1] =
            [name |-> N, as |-> C, taken |-> IF pc' = "drop" THEN HeldBy' ELSE contested',
             deduped |-> pc' = "drop"]
      BY <1>7, <2>1, <2>2, <2>6
    <2>8. TurnFollows(W)'
      BY <1>1, <1>3, <1>4, <1>5, <2>1, <2>4, <2>5, <2>7, <2>a DEF TurnFollows
    <2> QED BY <1>3, <2>1, <2>8 DEF Follows
  <1>11. CASE TryNext
    <2>1. /\ contested' = HeldBy /\ k' = k + 1 /\ UNCHANGED <<pc, claimed>>
      BY <1>11 DEF TryNext
    <2>2. Passed(Was, claimed, T, N, k)
      BY <1>6, <1>11, Decides
    <2>3. Tried(Was, claimed, T, N, k + 1, HeldBy)
      BY <1>1, <1>4, <2>2, TriedMore DEF HeldBy, HolderOf, C
    <2>4. Tried(Was', claimed', T', N', k', contested')
      BY <1>3, <2>1, <2>3
    <2>5. TurnFollows(W)'
      BY <1>1, <1>3, <1>4, <2>1, <2>4 DEF TurnFollows
    <2> QED BY <1>1, <1>3, <2>1, <2>5 DEF Follows
  <1> QED BY <1>9, <1>10, <1>11

\* A tool is given up as foretold.
LEMMA FollowGiveUp ==
    ASSUME Shared = {}, TypeOK, TodoThere, ToldSoFar, RunHolds, ~dry, GiveUp, Was' = Was,
           NEW W, Follows(W)
    PROVE  Follows(W)'
  <1>1. /\ pc = "place" /\ todo # {} /\ at <= Len(order) /\ k \in Tries
        /\ UNCHANGED <<order, predicted, kind, moves, claimed>>
        /\ pc' = "tool" /\ at' = at + 1 /\ action' = [action EXCEPT ![T] = "refused"]
    BY DEF GiveUp, Placing, Ends, NextTool, project, history, TypeOK, RunType
  <1>2. Sees(Was)
    BY <1>1, RunSees
  <1>3. Tried(Was, claimed, T, N, k, contested) /\ T \in Tools
    BY <1>1, OtherTurns DEF Follows, Handling, TurnFollows
  <1>4. \A p \in Tries : p < k => Passed(Was, claimed, T, First(todo), p)
    BY <1>3 DEF Tried, N
  <1>5. GivesUp(Was, claimed, T, First(todo), k)
    BY <1>2, Decides DEF N
  <1>6. ~MoveRight(Was, claimed, T, todo, Told[Len(moves[T]) + 1])
    BY <1>1, <1>4, <1>5, MoveNotRefused
  <1>7. moves[T] = Told /\ predicted.action[T] = "refused" /\ claimed = W[<<at + 1, 0>>]
    BY <1>1, <1>6, NextTold
  <1>8. Elsewhere /\ action'[T] = "refused"
    BY <1>1, <1>3 DEF Elsewhere, TypeOK, ReportType
  <1> QED BY <1>1, <1>7, <1>8, FollowEnds

LEMMA FollowMove ==
    ASSUME Shared = {}, TypeOK, TodoThere, ~dry, Rename \/ Drop, Was' = Was, NEW W, Follows(W)
    PROVE  Follows(W)'
  <1>1. /\ pc \in {"rename", "drop"} /\ todo # {} /\ at <= Len(order) /\ pc' = "place"
        /\ UNCHANGED <<order, predicted, kind, claimed, action, at>> /\ NextEntry
    BY DEF Rename, Drop, NextEntry, history, TypeOK, RunType
  <1> DEFINE taken == IF pc = "drop" THEN HeldBy ELSE contested
             m == [name |-> N, as |-> C, taken |-> taken, deduped |-> pc = "drop"]
             L == Len(moves[T])
  <1>2. /\ TurnFollows(W) /\ claimed = W[<<at, L + 1>>] /\ L < Len(Told) /\ Told[L + 1] = m
        /\ T \in Tools /\ predicted \in Reports
    BY <1>1, OtherTurns DEF Follows, Handling, TurnFollows, AheadRight
  <1>3. /\ moves[T] \in Seq(Move) /\ Told \in Seq(Move) /\ L \in Nat /\ Len(Told) \in Nat
    <2>1. moves[T] \in Seq(Move) /\ predicted.moves[T] \in Seq(Move)
      BY <1>2 DEF Reports, TypeOK, ReportType
    <2> QED BY <2>1 DEF Told
  <1>4. Remember(N, C, taken, pc = "drop")
    <2>1. CASE Rename
      <3>1. pc # "drop" /\ (pc = "drop") = FALSE /\ Remember(N, C, contested, FALSE)
        BY <2>1 DEF Rename
      <3> QED BY <3>1
    <2>2. CASE Drop
      <3>1. pc = "drop" /\ (pc = "drop") = TRUE /\ Remember(N, C, HeldBy, TRUE)
        BY <2>2 DEF Drop
      <3> QED BY <3>1
    <2> QED BY <2>1, <2>2
  <1>5. moves'[T] = Append(moves[T], m) /\ \A t \in Tools : t # T => moves'[t] = moves[t]
    BY <1>2, <1>4 DEF Remember, TypeOK, ReportType
  <1>6. m.name = N
    OBVIOUS
  <1> HIDE DEF m
  <1>7. Elsewhere
    BY <1>1, <1>5 DEF Elsewhere
  <1>8. AheadRight(W)' /\ BehindSame' /\ T' = T /\ (Told)' = Told
    BY <1>1, <1>7, RestOn
  <1>9. Len(moves'[T]) = L + 1 /\ \A j \in 1..(L + 1) : moves'[T][j] = Told[j]
    <2>1. Len(moves'[T]) = L + 1 /\ moves'[T][L + 1] = m /\ \A j \in 1..L : moves'[T][j] = moves[T][j]
      BY <1>3, <1>5
    <2>2. \A j \in 1..L : moves[T][j] = Told[j]
      BY <1>2 DEF TurnFollows
    <2> QED BY <1>2, <1>3, <2>1, <2>2
  <1>10. todo' = Left(Was, T, Told, L + 1)
    <2>1. todo = Left(Was, T, Told, L) /\ todo' = todo \ {N}
      BY <1>1, <1>2 DEF TurnFollows, NextEntry
    <2>2. \A b \in 1..(L + 1) : b \in 1..L \/ b = L + 1
      BY <1>3
    <2>3. Told[L + 1].name = N /\ 1..L \subseteq 1..(L + 1) /\ L + 1 \in 1..(L + 1)
      BY <1>2, <1>3, <1>6
    <2> QED BY <2>1, <2>2, <2>3 DEF Left
  <1>11. Tried(Was, claimed, T, N', 0, None)
    BY DEF Tried, HeldBefore, Tries
  <1>12. k' = 0 /\ contested' = None
    BY <1>1 DEF NextEntry
  <1>13. TurnFollows(W)'
    BY <1>1, <1>2, <1>3, <1>8, <1>9, <1>10, <1>11, <1>12 DEF TurnFollows
  <1> QED BY <1>1, <1>8, <1>13 DEF Follows

LEMMA FollowClose ==
    ASSUME Shared = {}, TypeOK, TodoThere, LinkedSoFar, ~dry,
           RemoveDir \/ Symlink \/ Finish, Was' = Was, NEW W, Follows(W)
    PROVE  Follows(W)'
  <1>1. CASE RemoveDir
    <2>1. /\ pc = "place" /\ todo = {} /\ at <= Len(order) /\ pc' = "link"
          /\ UNCHANGED <<order, predicted, claimed, moves, action, at>>
          /\ kind' = [kind EXCEPT ![T] = "absent"]
      BY <1>1 DEF RemoveDir, history, TypeOK, RunType
    <2>2. TurnFollows(W) /\ T \in Tools /\ predicted \in Reports
      BY <2>1, OtherTurns DEF Follows, Handling, AheadRight
    <2>3. moves[T] \in Seq(Move) /\ Told \in Seq(Move)
      <3>1. moves[T] \in Seq(Move) /\ predicted.moves[T] \in Seq(Move)
        BY <2>2 DEF Reports, TypeOK, ReportType
      <3> QED BY <3>1 DEF Told
    <2>4. Len(moves[T]) = Len(Told)
      <3> SUFFICES ASSUME Len(moves[T]) # Len(Told) PROVE FALSE
        OBVIOUS
      <3>1. /\ Len(moves[T]) + 1 \in 1..Len(Told) /\ (Len(moves[T]) + 1) - 1 = Len(moves[T])
        BY <2>2, <2>3 DEF TurnFollows
      <3>2. MoveRight(Was, W[<<at, Len(moves[T])>>], T, Left(Was, T, Told, Len(moves[T])),
                      Told[Len(moves[T]) + 1])
        BY <2>2, <3>1 DEF TurnFollows, TurnRight
      <3>3. Left(Was, T, Told, Len(moves[T])) = {}
        BY <2>1, <2>2 DEF TurnFollows
      <3> QED BY <3>2, <3>3 DEF MoveRight
    <2>5. moves[T] = Told
      <3>1. \A j \in 1..Len(moves[T]) : moves[T][j] = Told[j]
        BY <2>2 DEF TurnFollows
      <3> QED BY <2>3, <2>4, <3>1
    <2>6. predicted.action[T] = "linked" /\ claimed = W[<<at + 1, 0>>]
      BY <2>1, <2>2, <2>4 DEF TurnFollows, EndsRight
    <2>7. Elsewhere
      BY <2>1 DEF Elsewhere, TypeOK, ProjectType
    <2>8. AheadRight(W)' /\ BehindSame' /\ T' = T /\ (Told)' = Told
      BY <2>1, <2>7, RestOn
    <2> QED BY <2>1, <2>5, <2>6, <2>8 DEF Follows, Handling
  <1>2. CASE Symlink
    <2>1. /\ pc = "link" /\ at <= Len(order) /\ pc' = "tool" /\ at' = at + 1
          /\ UNCHANGED <<order, predicted, claimed, moves>>
          /\ kind' = [kind EXCEPT ![T] = "linked"] /\ action' = [action EXCEPT ![T] = "linked"]
      BY <1>2 DEF Symlink, Ends, NextTool, history, TypeOK, RunType
    <2>2. T \in Tools
      BY <2>1, OtherTurns
    <2>3. Elsewhere
      BY <2>1 DEF Elsewhere, TypeOK, ProjectType, ReportType
    <2>4. /\ moves[T] = Told /\ predicted.action[T] = "linked" /\ claimed = W[<<at + 1, 0>>]
          /\ action'[T] = "linked"
      BY <2>1, <2>2 DEF Follows, TypeOK, ReportType
    <2> QED BY <2>1, <2>3, <2>4, FollowEnds
  <1>3. CASE Finish
    <2>1. /\ pc = "tool" /\ pc' = "idle" /\ at > Len(order)
          /\ UNCHANGED <<order, predicted, kind, claimed, moves, action, at>>
      BY <1>3 DEF Finish, project
    <2>2. \A i \in 1..Len(order) : Ahead(i)' => Ahead(i)
      BY <2>1 DEF Ahead
    <2>3. AheadRight(W)' /\ BehindSame'
      BY <2>1, <2>2 DEF Follows, AheadRight, BehindSame
    <2> QED BY <2>1, <2>3 DEF Follows, Handling
  <1> QED BY <1>1, <1>2, <1>3

----------------------------------------------------------------------------

LEMMA TellInit == Shared = {} /\ Init => TellInv
  <1> SUFFICES ASSUME Shared = {}, Init PROVE TellInv
    OBVIOUS
  <1>1. RunInv
    BY RunInit
  <1>2. Foretold
    BY DEF Init, Foretold
  <1>3. calm = FALSE
    BY DEF Init
  <1> QED BY <1>1, <1>2, <1>3, Zenon DEF TellInv, DryInv, Undisturbed

LEMMA TellStep == Shared = {} /\ TellInv /\ [Next]_vars => TellInv'
  <1> SUFFICES ASSUME Shared = {}, TellInv, [Next]_vars PROVE TellInv'
    OBVIOUS
  <1>1. /\ RunInv /\ FreshTurn /\ Foretold /\ DryInv /\ TypeOK /\ TodoThere
    BY DEF TellInv, RunInv
  <1>2. RunInv'
    BY <1>1, RunInvStep
  <1>3. Foretold'
    <2>1. ASSUME dry', predicted' # None PROVE \E W : ReportRight(predicted, W)'
      BY <1>1, <2>1, ForetoldStep
    <2> QED BY <2>1 DEF Foretold
  <1>4. DryInv'
    <2>1. ASSUME calm', dry', pc' # "idle"
          PROVE  pc' \in {"tool", "place", "link"} /\ \E W : DryRight(W)'
      BY <1>1, <2>1, DryNext
    <2> QED BY <2>1 DEF DryInv
  <1>5. ASSUME Undisturbed' PROVE RunHolds' /\ FollowInv'
    <2>1. CASE \E o \in Orders, d \in BOOLEAN : Start(o, d)
      <3>1. PICK o \in Orders, d \in BOOLEAN : Start(o, d)
        BY <2>1
      <3>2. d = FALSE
        <4>1. dry' = d /\ ~dry'
          BY <1>5, <3>1 DEF Undisturbed, Start
        <4> QED BY <4>1
      <3>3. RunHolds'
        BY <1>1, <3>1, HoldsStart
      <3>4. Start(o, FALSE)
        BY <3>1, <3>2
      <3>5. FollowInv'
        BY <1>1, <3>4, FollowStart DEF FollowInv
      <3> QED BY <3>3, <3>5
    <2>2. CASE Undisturbed /\ CalmStep
      <3>1. LinkedSoFar /\ ToldSoFar /\ RunHolds /\ FollowInv /\ ~dry
        BY <1>1, <2>2 DEF RunInv, TellInv, Undisturbed
      <3>2. RunHolds' /\ Was' = Was
        BY <1>1, <2>2, <3>1, HoldsStep
      <3>3. UNCHANGED <<order, predicted>>
        BY <2>2, <3>1 DEF CalmStep, Refuse, AlreadyLinked, NothingThere, Adopt, ClaimName,
           FindIdentical, TryNext, GiveUp, Rename, Drop, RemoveDir, Symlink, Finish, history
      <3>4. ASSUME predicted # None, predicted.order = order PROVE \E W : Follows(W)'
        <4>1. PICK W : Follows(W)
          BY <3>1, <3>4 DEF FollowInv
        <4>2. Follows(W)'
          BY <1>1, <2>2, <3>1, <3>2, <4>1, FollowTurn, FollowPlace, FollowGiveUp, FollowMove,
             FollowClose DEF CalmStep
        <4> QED BY <4>2
      <3>5. FollowInv'
        BY <3>3, <3>4 DEF FollowInv
      <3> QED BY <3>2, <3>5
    <2>3. CASE Undisturbed /\ UNCHANGED vars
      <3>1. RunHolds /\ FollowInv
        BY <2>3 DEF TellInv
      <3>2. RunHolds'
        BY <2>3, <3>1 DEF vars, project, run, history, RunHolds, Ahead, C, N, T
      <3>3. ASSUME NEW W, Follows(W) PROVE Follows(W)'
        <4>1. Was' = Was /\ AheadRight(W)' /\ BehindSame'
          BY <2>3, <3>3 DEF vars, project, run, history, Was, Follows, AheadRight, BehindSame, Ahead
        <4>2. T' = T /\ N' = N /\ C' = C /\ HeldBy' = HeldBy /\ (Told)' = Told
          BY <2>3 DEF vars, project, run, history, T, N, C, HeldBy, Told
        <4>3. Handling' => TurnFollows(W)'
          BY <2>3, <3>3, <4>1, <4>2 DEF vars, project, run, history, Follows, Handling, TurnFollows
        <4> QED BY <2>3, <3>3, <4>1, <4>2, <4>3 DEF vars, project, run, history, Follows, Handling
      <3>4. FollowInv'
        BY <2>3, <3>1, <3>3 DEF FollowInv, vars, run, history
      <3> QED BY <3>2, <3>4
    <2> QED BY <1>5, <2>1, <2>2, <2>3, UndisturbedStep
  <1> QED BY <1>2, <1>3, <1>4, <1>5 DEF TellInv

\* When no tool's directory is the root itself: a run that follows a dry run, with
\* nothing changed in between, reports exactly what the dry run did.
THEOREM DryRunIsTrue ==
    ASSUME Shared = {}
    PROVE  Spec => []DryRunTells
  <1>1. TellInv => DryRunTells
    <2> SUFFICES ASSUME TellInv, pc = "idle", calm, ~dry, predicted # None,
                        predicted.order = order
                 PROVE  predicted = Report
      BY DEF DryRunTells
    <2>1. Undisturbed
      BY DEF Undisturbed
    <2>2. /\ TypeOK /\ at > Len(order)
      BY <2>1 DEF TellInv, RunInv, LinkedSoFar
    <2>3. PICK W : Follows(W)
      BY <2>1 DEF TellInv, FollowInv
    <2>4. predicted \in Reports
      BY <2>3 DEF Follows, AheadRight
    <2>5. ASSUME NEW t \in Tools
          PROVE  moves[t] = predicted.moves[t] /\ action[t] = predicted.action[t]
      <3>1. \A i \in 1..Len(order) : i < at
        BY <2>2, ToolAssumption DEF TypeOK, RunType
      <3>2. Unnamed(order, t) \/ (\E i \in 1..Len(order) : i < at /\ order[i] = t)
        BY <3>1 DEF Unnamed
      <3> QED BY <2>3, <3>2 DEF Follows, BehindSame
    <2>6. predicted.moves = moves /\ predicted.action = action
      BY <2>2, <2>4, <2>5 DEF Reports, TypeOK, ReportType
    <2> QED BY <2>4, <2>6 DEF Reports, Report
  <1>2. Shared = {} /\ Init => TellInv
    BY TellInit
  <1>3. Shared = {} /\ TellInv /\ [Next]_vars => TellInv'
    BY TellStep
  <1>4. Spec => []TellInv
    BY <1>2, <1>3, PTL DEF Spec
  <1> QED BY <1>1, <1>4, PTL

=============================================================================
