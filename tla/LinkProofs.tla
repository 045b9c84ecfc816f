----------------------------- MODULE LinkProofs -----------------------------
(***************************************************************************)
(* Proofs about Link for any tools, entries, contents and number of events.*)
(***************************************************************************)
EXTENDS Link, FiniteSetTheorems, TLAPS

----------------------------------------------------------------------------
\* Facts about the operators of the model.

\* Of the entries still to be placed, one is listed first.
LEMMA FirstIn == ASSUME NEW S \in SUBSET Entries, S # {} PROVE First(S) \in S
  <1> DEFINE L == 1..Len(Listing)
             I == {i \in L : Listing[i] \in S}
             D == {1..i : i \in I}
  <1>1. Len(Listing) \in Nat
    BY EntryAssumption
  <1>2. I # {} /\ I \subseteq Nat
    BY <1>1 DEF Entries
  <1>3. IsFiniteSet(L)
    BY <1>1, FS_Interval
  <1>4. D # {} /\ D \subseteq SUBSET L
    BY <1>1, <1>2
  <1>5. IsWellFoundedOn(StrictSubsetOrdering(L), SUBSET L)
    BY <1>3, FS_FiniteSubsetsOfFinite, FS_StrictSubsetOrderingWellFounded
  <1>6. PICK x \in D : \A y \in D : <<y, x>> \notin StrictSubsetOrdering(L)
    BY <1>4, <1>5, WFMin
  <1>7. PICK i \in I : x = 1..i
    BY <1>6
  <1>8. ASSUME NEW j \in I, j < i PROVE FALSE
    <2>1. 1..j \in D /\ 1..j \in SUBSET L /\ x \in SUBSET L
      BY <1>4, <1>6, <1>8
    <2>2. 1..j \subseteq x /\ 1..j # x
      BY <1>2, <1>7, <1>8
    <2>3. <<1..j, x>> \in StrictSubsetOrdering(L)
      BY <2>1, <2>2 DEF StrictSubsetOrdering
    <2> QED BY <1>6, <2>1, <2>3
  <1>9. \E m \in 1..Len(Listing) :
            Listing[m] \in S /\ \A j \in 1..Len(Listing) : Listing[j] \in S => m <= j
    BY <1>2, <1>8
  <1> QED BY <1>9 DEF First

LEMMA EntryNames == Entries \subseteq Names
  BY DEF Names

\* The tool whose turn it is, and the entry and the name that are considered.
LEMMA AtTool ==
    ASSUME TypeOK, at <= Len(order)
    PROVE  T \in Tools /\ Dir(T) \in Places /\ at + 1 \in 1..(Len(order) + 1)
  <1>1. Len(order) \in Nat /\ at \in 1..Len(order) /\ order \in Seq(Tools)
    BY ToolAssumption DEF TypeOK, RunType
  <1> QED BY <1>1 DEF T, Dir, Places

LEMMA AtEntry ==
    ASSUME TypeOK, at <= Len(order), todo # {}
    PROVE  /\ N \in todo /\ N \in Entries /\ N \in Names /\ C \in Names
           /\ todo \ {N} \subseteq Entries
           /\ Source \in Held \cup {None}
           /\ HeldBy \in Holder
  <1>1. N \in todo /\ N \in Entries
    BY FirstIn DEF N, TypeOK, RunType
  <1>2. N \in Names
    BY <1>1 DEF Names
  <1>3. T \in Tools /\ Dir(T) \in Places
    BY AtTool
  <1>4. C \in Names
    BY <1>1, <1>3 DEF C, Names, TypeOK, RunType
  <1>5. Source \in Held \cup {None}
    BY <1>2, <1>3 DEF Source, TypeOK, ProjectType, Tree
  <1>6. HeldBy \in Holder
    BY <1>4 DEF HeldBy, Holder, Claim, TypeOK, RunType
  <1> QED BY <1>1, <1>2, <1>4, <1>5, <1>6 DEF TypeOK, RunType

----------------------------------------------------------------------------
\* Types.

LEMMA FirstTry == 0 \in Tries /\ None \in Holder
  BY EntryAssumption DEF Tries, Holder

LEMMA TypeInit == Init => TypeOK
  <1> SUFFICES ASSUME Init PROVE TypeOK
    OBVIOUS
  <1>1. ProjectType
    BY ProjectAssumption DEF Init, ProjectType
  <1>2. RunType
    <2>1. Len(<<>>) = 0 /\ at = 1 /\ order = <<>> /\ pc = "idle" /\ dry = FALSE /\ todo = {}
          /\ k = 0 /\ contested = None
      BY DEF Init
    <2>2. claimed \in [Names -> Claim \cup {None}]
      BY DEF Init, NoClaim
    <2>3. dry \in BOOLEAN
      BY <2>1, Zenon
    <2> QED BY <2>1, <2>2, <2>3, FirstTry DEF RunType
  <1>3. ReportType
    BY DEF Init, ReportType, NoMoves, NoAction
  <1>4. owed \subseteq Contents
    <2>1. tree \in Trees /\ tree \in Tree
      BY ProjectAssumption DEF Init
    <2>2. \A p \in Places, n \in Names : tree[p][n] # Debris
      BY <2>1, ProjectAssumption
    <2> QED BY <2>1, <2>2 DEF Init, Tree, Held
  <1>5. HistoryType
    BY <1>4 DEF Init, HistoryType, NoEntry
  <1> QED BY <1>1, <1>2, <1>3, <1>5 DEF TypeOK

\* The turn of a tool ends.
LEMMA TypeEnds ==
    ASSUME TypeOK, at <= Len(order), NEW how \in {"linked", "unchanged", "refused"},
           Ends(how), UNCHANGED <<order, dry, claimed, moves>>
    PROVE  RunType' /\ ReportType'
  <1>1. RunType'
    BY AtTool, FirstTry DEF Ends, NextTool, TypeOK, RunType
  <1>2. ReportType'
    BY DEF Ends, TypeOK, ReportType
  <1> QED BY <1>1, <1>2

\* An entry is placed.
LEMMA TypeNextEntry ==
    ASSUME TypeOK, pc \in {"place", "rename", "drop"}, todo # {}, NextEntry,
           UNCHANGED <<order, dry, at>>, claimed' \in [Names -> Claim \cup {None}]
    PROVE  RunType'
  BY AtEntry, FirstTry DEF NextEntry, TypeOK, RunType

LEMMA TypeRemember ==
    ASSUME TypeOK, at <= Len(order), todo # {}, UNCHANGED action,
           NEW taken \in Holder, NEW deduped \in BOOLEAN, Remember(N, C, taken, deduped)
    PROVE  ReportType'
  <1> DEFINE m == [name |-> N, as |-> C, taken |-> taken, deduped |-> deduped]
  <1>1. m \in Move
    BY AtEntry DEF Move
  <1>2. T \in Tools /\ moves \in [Tools -> Seq(Move)]
    BY AtTool DEF TypeOK, ReportType
  <1>3. Append(moves[T], m) \in Seq(Move)
    BY <1>1, <1>2
  <1>4. moves' = [moves EXCEPT ![T] = Append(moves[T], m)]
    BY DEF Remember
  <1> QED BY <1>2, <1>3, <1>4 DEF TypeOK, ReportType

LEMMA TypeStart ==
    ASSUME TypeOK, NEW o \in Orders, NEW d \in BOOLEAN, Start(o, d)
    PROVE  TypeOK'
  <1>0. o \in Seq(Tools)
    BY ToolAssumption
  <1>1. RunType'
    BY <1>0, FirstTry DEF Start, RunType, NoClaim
  <1>2. ReportType'
    BY DEF Start, ReportType, NoMoves, NoAction
  <1>3. ProjectType' /\ HistoryType'
    BY DEF Start, TypeOK, ProjectType, HistoryType, NoEntry, project, kept
  <1> QED BY <1>1, <1>2, <1>3 DEF TypeOK

\* The turns that end without a change of the project.
LEMMA TypeTurn ==
    ASSUME TypeOK,
           LinkFails \/ LookFails \/ Refuse \/ AlreadyLinked \/ GiveUp \/ RenameFails
           \/ RemoveDirFails \/ DryLinked \/ SymlinkFails
    PROVE  TypeOK'
  <1>1. /\ at <= Len(order)
        /\ \E how \in {"linked", "unchanged", "refused"} : Ends(how)
        /\ UNCHANGED <<project, order, dry, claimed, moves, begun, kept, late, events>>
        /\ calm' \in BOOLEAN /\ balked' \in BOOLEAN
    BY DEF LinkFails, LookFails, CallFails, Refuse, AlreadyLinked, GiveUp, RenameFails,
           RemoveDirFails, DryLinked, SymlinkFails, Linking, Placing, history, TypeOK, RunType,
           HistoryType
  <1>2. RunType' /\ ReportType'
    BY <1>1, TypeEnds
  <1>3. ProjectType' /\ HistoryType'
    BY <1>1 DEF TypeOK, ProjectType, HistoryType, project, kept
  <1> QED BY <1>2, <1>3 DEF TypeOK

LEMMA TypeEnter ==
    ASSUME TypeOK, NothingThere \/ Adopt
    PROVE  TypeOK'
  <1>1. CASE NothingThere
    BY <1>1 DEF NothingThere, Linking, TypeOK, ProjectType, RunType, ReportType, HistoryType,
                project, history, kept
  <1>2. CASE Adopt
    <2>1. at <= Len(order) /\ T \in Tools /\ Dir(T) \in Places
      BY <1>2, AtTool DEF Adopt, Linking
    <2>2. begun' \in [Tools -> [Names -> Held \cup {None}]]
      BY <1>2, <2>1 DEF Adopt, TypeOK, ProjectType, HistoryType, Tree, Places
    <2>3. RunType'
      BY <1>2, <2>1 DEF Adopt, TypeOK, RunType
    <2> QED BY <1>2, <2>2, <2>3 DEF Adopt, TypeOK, ProjectType, ReportType, HistoryType, project, kept
  <1> QED BY <1>1, <1>2

LEMMA TypePlace ==
    ASSUME TypeOK, ClaimName \/ FindIdentical \/ TryNext
    PROVE  TypeOK'
  <1>0. pc = "place" /\ todo # {} /\ at <= Len(order) /\ T \in Tools
    BY AtTool DEF ClaimName, FindIdentical, TryNext, Placing, TypeOK, RunType
  <1>1. CASE ClaimName
    <2>1. claimed' \in [Names -> Claim \cup {None}]
      BY <1>0, <1>1, AtEntry DEF ClaimName, Claim, TypeOK, RunType
    <2>2. UNCHANGED <<order, dry, at, action>>
      BY <1>1 DEF ClaimName
    <2>3. RunType' /\ ReportType'
      <3>1. CASE dry
        <4>1. NextEntry /\ Remember(N, C, contested, FALSE) /\ contested \in Holder
          BY <1>1, <3>1 DEF ClaimName, TypeOK, RunType
        <4> QED BY <1>0, <2>1, <2>2, <4>1, TypeNextEntry, TypeRemember
      <3>2. CASE ~dry
        BY <1>0, <1>1, <2>1, <3>2 DEF ClaimName, TypeOK, RunType, ReportType
      <3> QED BY <3>1, <3>2
    <2> QED BY <1>1, <2>3 DEF ClaimName, TypeOK, ProjectType, HistoryType, project, kept
  <1>2. CASE FindIdentical
    <2>1. RunType' /\ ReportType'
      <3>1. CASE dry
        <4>1. /\ NextEntry /\ Remember(N, C, HeldBy, TRUE) /\ HeldBy \in Holder
              /\ UNCHANGED <<order, dry, at, action, claimed>>
          BY <1>0, <1>2, <3>1, AtEntry DEF FindIdentical
        <4>2. RunType'
          BY <1>0, <4>1, TypeNextEntry DEF TypeOK, RunType
        <4> QED BY <1>0, <4>1, <4>2, TypeRemember
      <3>2. CASE ~dry
        BY <1>0, <1>2, <3>2 DEF FindIdentical, TypeOK, RunType, ReportType
      <3> QED BY <3>1, <3>2
    <2> QED BY <1>2, <2>1 DEF FindIdentical, TypeOK, ProjectType, HistoryType, project, history, kept
  <1>3. CASE TryNext
    <2>1. k + 1 \in Tries
      BY <1>3, EntryAssumption DEF TryNext, TypeOK, RunType, Tries
    <2>2. HeldBy \in Holder
      BY <1>0, AtEntry
    <2> QED BY <1>3, <2>1, <2>2 DEF TryNext, TypeOK, ProjectType, RunType, ReportType, HistoryType,
                                    project, history, kept
  <1> QED BY <1>1, <1>2, <1>3

LEMMA TypeMove ==
    ASSUME TypeOK, Rename \/ Drop \/ DropFails
    PROVE  TypeOK'
  <1>0. /\ pc \in {"rename", "drop"} /\ todo # {} /\ at <= Len(order)
        /\ T \in Tools /\ Dir(T) \in Places /\ N \in Names /\ C \in Names
        /\ Source \in Held \cup {None} /\ HeldBy \in Holder /\ contested \in Holder
    BY AtTool, AtEntry DEF Rename, Drop, DropFails, TypeOK, RunType
  <1>1. ASSUME NEW x \in Held \cup {None}, tree' = [tree EXCEPT ![Dir(T)][N] = x]
        PROVE  tree' \in Tree
    BY <1>0, <1>1 DEF TypeOK, ProjectType, Tree
  <1>2. CASE Rename
    <2>1. tree' \in Tree
      BY <1>0, <1>2 DEF Rename, TypeOK, ProjectType, Tree, Places
    <2>2. RunType'
      BY <1>0, <1>2, TypeNextEntry DEF Rename, TypeOK, RunType
    <2>3. ReportType'
      BY <1>0, <1>2, TypeRemember DEF Rename
    <2> QED BY <1>2, <2>1, <2>2, <2>3 DEF Rename, TypeOK, ProjectType, HistoryType, history, kept
  <1>3. CASE Drop
    <2>1. tree' \in Tree
      BY <1>1, <1>3 DEF Drop
    <2>2. RunType'
      BY <1>0, <1>3, TypeNextEntry DEF Drop, TypeOK, RunType
    <2>3. ReportType'
      BY <1>0, <1>3, TypeRemember DEF Drop
    <2> QED BY <1>3, <2>1, <2>2, <2>3 DEF Drop, TypeOK, ProjectType, HistoryType, history, kept
  <1>4. CASE DropFails
    <2>1. tree' \in Tree
      BY <1>0, <1>1, <1>4 DEF DropFails, Held
    <2>2. RunType' /\ ReportType'
      BY <1>0, <1>4, TypeEnds DEF DropFails
    <2> QED BY <1>4, <2>1, <2>2 DEF DropFails, TypeOK, ProjectType, HistoryType, kept
  <1> QED BY <1>2, <1>3, <1>4

LEMMA TypeLink ==
    ASSUME TypeOK, RemoveDir \/ Symlink \/ Finish
    PROVE  TypeOK'
  <1>1. CASE RemoveDir
    <2>1. at <= Len(order) /\ T \in Tools
      BY <1>1, AtTool DEF RemoveDir, TypeOK, RunType
    <2>2. ProjectType'
      BY <1>1, <2>1 DEF RemoveDir, TypeOK, ProjectType, Kinds
    <2> QED BY <1>1, <2>1, <2>2 DEF RemoveDir, TypeOK, RunType, ReportType, HistoryType, history, kept
  <1>2. CASE Symlink
    <2>1. at <= Len(order) /\ T \in Tools
      BY <1>2, AtTool DEF Symlink, TypeOK, RunType
    <2>2. ProjectType'
      BY <1>2, <2>1 DEF Symlink, TypeOK, ProjectType, Kinds
    <2>3. RunType' /\ ReportType'
      BY <1>2, <2>1, TypeEnds DEF Symlink
    <2> QED BY <1>2, <2>2, <2>3 DEF Symlink, TypeOK, HistoryType, history, kept
  <1>3. CASE Finish
    BY <1>3 DEF Finish, TypeOK, ProjectType, RunType, ReportType, HistoryType, project, kept
  <1> QED BY <1>1, <1>2, <1>3

LEMMA TypeRest ==
    ASSUME TypeOK,
           \/ \E p \in Places, n \in Entries, c \in Saved : Save(p, n, c)
           \/ Kill \/ UNCHANGED vars
    PROVE  TypeOK'
  <1>1. ASSUME NEW p \in Places, NEW n \in Entries, NEW c \in Saved, Save(p, n, c) PROVE TypeOK'
    <2>1. n \in Names /\ c \in Contents /\ c \in Held
      BY EntryAssumption DEF Names, Held
    <2>2. ProjectType'
      BY <1>1, <2>1 DEF Save, TypeOK, ProjectType, Tree, Places, Kinds
    <2>3. HistoryType'
      <3>1. origin' \subseteq Tools \X Entries \X Contents
        BY <1>1, <2>1 DEF Save, TypeOK, HistoryType, Places
      <3>2. owed' \subseteq Contents /\ exposed' \subseteq owed' /\ late' \subseteq Names
        BY <1>1, <2>1 DEF Save, TypeOK, HistoryType
      <3>3. events' \in Nat
        BY <1>1 DEF Save, TypeOK, HistoryType
      <3>4. begun' = begun /\ balked' = balked /\ calm' = FALSE
        BY <1>1 DEF Save
      <3>5. balked' \in BOOLEAN /\ calm' \in BOOLEAN
        BY <3>4, Zenon DEF TypeOK, HistoryType
      <3> QED BY <3>1, <3>2, <3>3, <3>4, <3>5 DEF TypeOK, HistoryType
    <2> QED BY <1>1, <2>2, <2>3 DEF Save, TypeOK, RunType, ReportType, run
  <1>2. CASE Kill
    <2>1. tree' \in Tree
      <3>1. CASE pc = "drop" /\ tree' = [tree EXCEPT ![Dir(T)][N] = Debris]
        <4>1. Dir(T) \in Places /\ N \in Names
          BY <3>1, AtTool, AtEntry DEF TypeOK, RunType
        <4> QED BY <3>1, <4>1 DEF TypeOK, ProjectType, Tree, Held
      <3> QED BY <1>2, <3>1 DEF Kill, TypeOK, ProjectType
    <2>2. RunType'
      <3>1. Len(<<>>) = 0 /\ order' = <<>> /\ at' = 1 /\ pc' = "idle" /\ dry' = FALSE
            /\ todo' = {} /\ k' = 0 /\ contested' = None /\ claimed' = NoClaim
        BY <1>2 DEF Kill
      <3>2. dry' \in BOOLEAN
        BY <3>1, Zenon
      <3> QED BY <3>1, <3>2, FirstTry DEF RunType, NoClaim
    <2>3. ProjectType'
      BY <1>2, <2>1 DEF Kill, TypeOK, ProjectType
    <2>4. ReportType'
      BY <1>2 DEF Kill, ReportType, NoMoves, NoAction
    <2>5. events' \in Nat /\ begun' = [t \in Tools |-> NoEntry] /\ UNCHANGED kept /\ late' = {}
      BY <1>2 DEF Kill, TypeOK, HistoryType
    <2>6. balked' \in BOOLEAN /\ calm' \in BOOLEAN
      BY <1>2, Zenon DEF Kill, TypeOK, HistoryType
    <2>7. HistoryType'
      BY <2>5, <2>6 DEF TypeOK, HistoryType, NoEntry, kept
    <2> QED BY <2>2, <2>3, <2>4, <2>7 DEF TypeOK
  <1>3. CASE UNCHANGED vars
    <2>1. ProjectType'
      BY <1>3 DEF vars, project, TypeOK, ProjectType
    <2>2. RunType' /\ ReportType'
      BY <1>3 DEF vars, run, TypeOK, RunType, ReportType
    <2>3. HistoryType'
      BY <1>3 DEF vars, history, kept, TypeOK, HistoryType
    <2> QED BY <2>1, <2>2, <2>3 DEF TypeOK
  <1> QED BY <1>1, <1>2, <1>3

LEMMA TypeStep == TypeOK /\ [Next]_vars => TypeOK'
  BY TypeStart, TypeTurn, TypeEnter, TypePlace, TypeMove, TypeLink, TypeRest DEF Next, RunStep

\* Every variable keeps its type: in particular a run never leaves the tools it was
\* given, and never tries more names than there are attempts.
THEOREM LinkTypeCorrect == Spec => []TypeOK
  <1> QED BY TypeInit, TypeStep, PTL DEF Spec

----------------------------------------------------------------------------
\* Nothing is lost, where no directory of a tool is the root under another path.

\* The names a run has claimed are of tools whose turn has come, and none of them
\* was claimed for an entry that is still to be placed.
ClaimsPast ==
    pc # "idle" => \A x \in Names : claimed[x] # None =>
        \E i \in 1..at : /\ i <= Len(order) /\ claimed[x].tool = order[i]
                         /\ pc = "tool" => i < at
ClaimsPlaced ==
    pc \in {"place", "rename", "drop"} => \A x \in Names :
        claimed[x] # None /\ claimed[x].tool = T =>
            claimed[x].name \notin IF pc = "rename" THEN todo \ {N} ELSE todo

\* But for what was exposed, all that is owed stands where the next call leaves it.
Safe == \A c \in owed \ exposed : Standing(c)

ClaimInv == TypeOK /\ ClaimsPast /\ ClaimsPlaced
LossInv == ClaimInv /\ Safe

\* Two turns of a run are of different tools.
LEMMA TurnsApart ==
    ASSUME TypeOK, NEW i \in 1..Len(order), NEW j \in 1..Len(order), order[i] = order[j]
    PROVE  i = j
  <1>1. CASE order \in Orders
    BY <1>1, ToolAssumption
  <1>2. CASE order = <<>>
    BY <1>2
  <1> QED BY <1>1, <1>2 DEF TypeOK, RunType

\* Steps that stay at a turn and claim nothing.
LEMMA ClaimsStay ==
    ASSUME ClaimInv, UNCHANGED <<order, at, claimed>>, pc' # "tool", pc # "idle",
           pc' \in {"place", "rename", "drop"} =>
               /\ pc \in {"place", "rename", "drop"} /\ pc' # "rename"
               /\ todo' \subseteq IF pc = "rename" THEN todo \ {N} ELSE todo
    PROVE  ClaimsPast' /\ ClaimsPlaced'
  <1>1. ClaimsPast'
    BY DEF ClaimInv, ClaimsPast
  <1>2. ClaimsPlaced'
    BY DEF ClaimInv, ClaimsPlaced, T
  <1> QED BY <1>1, <1>2

LEMMA ClaimsStep == ClaimInv /\ [Next]_vars => ClaimInv'
  <1> SUFFICES ASSUME ClaimInv, [Next]_vars PROVE ClaimsPast' /\ ClaimsPlaced'
    BY TypeStep DEF ClaimInv
  <1>0. /\ Len(order) \in Nat /\ at \in Nat /\ at >= 1
        /\ pc \in {"place", "rename", "drop", "link"} => at <= Len(order)
    BY ToolAssumption DEF ClaimInv, TypeOK, RunType
  <1>1. ASSUME NEW o \in Orders, NEW d \in BOOLEAN, Start(o, d)
        PROVE  ClaimsPast' /\ ClaimsPlaced'
    BY <1>1 DEF Start, ClaimsPast, ClaimsPlaced, NoClaim
  <1>2. ASSUME NEW how, Ends(how), at <= Len(order), UNCHANGED <<order, claimed>>, pc # "idle"
        PROVE  ClaimsPast' /\ ClaimsPlaced'
    <2>1. pc' = "tool" /\ at' = at + 1
      BY <1>2 DEF Ends, NextTool
    <2>2. ClaimsPast'
      BY <1>0, <1>2, <2>1 DEF ClaimInv, ClaimsPast
    <2> QED BY <2>1, <2>2 DEF ClaimsPlaced
  <1>3. CASE \/ LinkFails \/ LookFails \/ Refuse \/ AlreadyLinked \/ GiveUp \/ RenameFails
             \/ DropFails \/ RemoveDirFails \/ DryLinked \/ Symlink \/ SymlinkFails
    <2>1. /\ at <= Len(order) /\ UNCHANGED <<order, claimed>> /\ pc # "idle"
          /\ \E how : Ends(how)
      BY <1>0, <1>3 DEF LinkFails, LookFails, CallFails, Refuse, AlreadyLinked, GiveUp,
                        RenameFails, DropFails, RemoveDirFails, DryLinked, Symlink, SymlinkFails,
                        Linking, Placing
    <2> QED BY <1>2, <2>1
  <1>4. CASE Adopt
    <2>1. /\ pc = "tool" /\ at <= Len(order) /\ pc' = "place"
          /\ UNCHANGED <<order, at, claimed>>
      BY <1>4 DEF Adopt, Linking
    <2>2. ASSUME NEW x \in Names, claimed[x] # None PROVE claimed[x].tool # T
      <3>1. PICK i \in 1..at : i <= Len(order) /\ claimed[x].tool = order[i] /\ i < at
        BY <2>1, <2>2 DEF ClaimInv, ClaimsPast
      <3> QED BY <1>0, <2>1, <3>1, TurnsApart DEF T, ClaimInv
    <2>3. ClaimsPlaced'
      BY <2>1, <2>2 DEF ClaimsPlaced, T
    <2>4. ClaimsPast'
      BY <2>1 DEF ClaimInv, ClaimsPast
    <2> QED BY <2>3, <2>4
  <1>5. CASE ClaimName
    <2>0. /\ pc = "place" /\ todo # {} /\ at <= Len(order) /\ UNCHANGED <<order, at>>
          /\ C \in Names /\ claimed' = [claimed EXCEPT ![C] = [tool |-> T, name |-> N]]
          /\ claimed \in [Names -> Claim \cup {None}]
      BY <1>0, <1>5, AtEntry DEF ClaimName, Placing, ClaimInv, TypeOK, RunType
    <2>1. /\ \A x \in Names \ {C} : claimed'[x] = claimed[x]
          /\ claimed'[C].tool = T /\ claimed'[C].name = N /\ T = order[at] /\ at \in 1..at
      BY <1>0, <2>0 DEF T
    <2>2. \/ pc' = "rename" /\ UNCHANGED todo
          \/ pc' = "place" /\ todo' = todo \ {N}
      BY <1>5 DEF ClaimName, NextEntry
    <2>3. ClaimsPast'
      BY <2>0, <2>1, <2>2 DEF ClaimInv, ClaimsPast
    <2>4. T' = T
      BY <2>0 DEF T
    <2>5. ASSUME NEW x \in Names, claimed'[x] # None, claimed'[x].tool = T
          PROVE  claimed'[x].name \notin todo \ {N}
      BY <2>0, <2>1, <2>5 DEF ClaimInv, ClaimsPlaced
    <2>6. pc' = "rename" => N' = N
      BY <2>2 DEF N
    <2>7. ClaimsPlaced'
      BY <2>2, <2>4, <2>5, <2>6 DEF ClaimsPlaced
    <2> QED BY <2>3, <2>7
  <1>6. CASE NothingThere \/ FindIdentical \/ TryNext \/ Rename \/ Drop \/ RemoveDir
    <2>1. /\ UNCHANGED <<order, at, claimed>> /\ pc' # "tool" /\ pc # "idle"
          /\ pc' \in {"place", "rename", "drop"} =>
               /\ pc \in {"place", "rename", "drop"} /\ pc' # "rename"
               /\ todo' \subseteq IF pc = "rename" THEN todo \ {N} ELSE todo
      BY <1>6 DEF NothingThere, FindIdentical, TryNext, Rename, Drop, RemoveDir, Placing,
                  NextEntry, Linking
    <2> QED BY <2>1, ClaimsStay
  <1>7. CASE Finish \/ Kill
    BY <1>7 DEF Finish, Kill, ClaimsPast, ClaimsPlaced
  <1>8. CASE \/ \E p \in Places, n \in Entries, c \in Saved : Save(p, n, c)
             \/ UNCHANGED vars
    <2>1. UNCHANGED <<pc, order, at, todo, claimed>>
      BY <1>8 DEF Save, vars, run
    <2>2. ClaimsPast'
      BY <2>1 DEF ClaimInv, ClaimsPast
    <2>3. ClaimsPlaced'
      BY <2>1 DEF ClaimInv, ClaimsPlaced, T, N
    <2> QED BY <2>2, <2>3
  <1> QED BY <1>1, <1>3, <1>4, <1>5, <1>6, <1>7, <1>8 DEF Next, RunStep

LEMMA OwnDir ==
    ASSUME TypeOK, Shared = {}, at <= Len(order)
    PROVE  Dir(T) = T /\ T \in Tools /\ T # Root /\ T \in Places /\ Root \in Places
  BY AtTool, ToolAssumption DEF Dir, Places

\* The entry a step works on.
LEMMA AtWork ==
    ASSUME TypeOK, Shared = {}, pc \in {"place", "rename", "drop"}, todo # {}
    PROVE  /\ T \in Places /\ T # Root /\ Root \in Places /\ Dir(T) = T /\ T \in Tools
           /\ N \in Names /\ N \in Entries /\ C \in Names /\ N \in todo
           /\ Source = tree[T][N] /\ tree \in [Places -> [Names -> Held \cup {None}]]
  <1>1. at <= Len(order)
    BY DEF TypeOK, RunType
  <1> QED BY <1>1, OwnDir, AtEntry DEF Source, TypeOK, ProjectType, Tree

\* What the next call writes over or removes.
LEMMA StakeIs ==
    ASSUME TypeOK, Shared = {}
    PROVE  /\ pc = "rename" => \A p, n : AtStake(p, n) <=> <<p, n>> = <<Root, C>>
           /\ pc = "drop" => \A p, n : AtStake(p, n) <=> <<p, n>> = <<T, N>>
           /\ pc \notin {"rename", "drop"} => \A p, n : ~AtStake(p, n)
  <1>1. Dir(T) = T
    BY DEF Dir
  <1> QED BY <1>1 DEF AtStake

\* An entry found identical has the same content somewhere else.
LEMMA HasTwin ==
    ASSUME ClaimInv, Shared = {}, FindIdentical
    PROVE  \E p \in Places, n \in Names : <<p, n>> # <<T, N>> /\ tree[p][n] = Source
  <1>0. /\ pc = "place" /\ todo # {} /\ Taken /\ Source = HolderContent /\ TypeOK
    BY DEF FindIdentical, Placing, Identical, ClaimInv
  <1>1. CASE OnDisk
    <2>1. tree[Root][C] = Source
      BY <1>0, <1>1 DEF HolderContent
    <2> QED BY <1>0, <2>1, AtWork
  <1>2. CASE ~OnDisk
    <2>1. claimed[C] # None /\ claimed[C].tool \in Tools /\ claimed[C].name \in Entries
      BY <1>0, <1>2, AtWork DEF Taken, TypeOK, RunType, Claim
    <2>2. tree[claimed[C].tool][claimed[C].name] = Source
      BY <1>0, <1>2, <2>1 DEF HolderContent, Dir
    <2>3. <<claimed[C].tool, claimed[C].name>> # <<T, N>>
      BY <1>0, <2>1, AtWork DEF ClaimInv, ClaimsPlaced
    <2> QED BY <2>1, <2>2, <2>3, EntryNames DEF Places
  <1> QED BY <1>1, <1>2

\* An entry at stake may go, whatever is left of it.
LEMMA StakeLeft ==
    ASSUME TypeOK, Safe, Shared = {}, pc = "drop", pc' \notin {"rename", "drop"},
           NEW x, tree' = [tree EXCEPT ![Dir(T)][N] = x], UNCHANGED <<owed, exposed>>
    PROVE  Safe'
  <1>0. todo # {}
    BY DEF TypeOK, RunType
  <1>1. \A q \in Places, m \in Names : <<q, m>> # <<T, N>> => tree'[q][m] = tree[q][m]
    BY <1>0, AtWork
  <1> SUFFICES ASSUME NEW c \in owed \ exposed
               PROVE  \E q \in Places, m \in Names : tree'[q][m] = c /\ ~AtStake(q, m)'
    BY DEF Safe, Standing, Holds
  <1>2. PICK q \in Places, m \in Names : tree[q][m] = c /\ <<q, m>> # <<T, N>>
    BY StakeIs DEF Safe, Standing, Holds
  <1> QED BY <1>1, <1>2 DEF AtStake

LEMMA SafeRename ==
    ASSUME TypeOK, Safe, Shared = {}, Rename
    PROVE  Safe'
  <1>0. pc = "rename" /\ todo # {} /\ pc' = "place" /\ UNCHANGED <<owed, exposed>>
    BY DEF Rename, NextEntry, TypeOK, RunType, history, kept
  <1>1. /\ tree'[Root][C] = Source
        /\ \A q \in Places, m \in Names :
               <<q, m>> \notin {<<T, N>>, <<Root, C>>} => tree'[q][m] = tree[q][m]
    BY <1>0, AtWork DEF Rename
  <1> SUFFICES ASSUME NEW c \in owed \ exposed
               PROVE  \E q \in Places, m \in Names : tree'[q][m] = c /\ ~AtStake(q, m)'
    BY <1>0 DEF Safe, Standing, Holds
  <1>2. PICK q \in Places, m \in Names : tree[q][m] = c /\ <<q, m>> # <<Root, C>>
    BY <1>0, StakeIs DEF Safe, Standing, Holds
  <1>3. CASE <<q, m>> = <<T, N>>
    BY <1>0, <1>1, <1>2, <1>3, AtWork DEF AtStake
  <1>4. CASE <<q, m>> # <<T, N>>
    BY <1>0, <1>1, <1>2, <1>4 DEF AtStake
  <1> QED BY <1>3, <1>4

LEMMA SafeSave ==
    ASSUME NEW p, NEW n, NEW c, Save(p, n, c)
    PROVE  Safe'
  BY DEF Save, Safe

LEMMA LossInit == Init => LossInv
  <1> SUFFICES ASSUME Init PROVE LossInv
    OBVIOUS
  <1>1. Safe
    BY DEF Init, Safe, Standing, Holds, AtStake
  <1> QED BY <1>1, TypeInit DEF Init, LossInv, ClaimInv, ClaimsPast, ClaimsPlaced

LEMMA LossStep == Shared = {} /\ LossInv /\ [Next]_vars => LossInv'
  <1> SUFFICES ASSUME Shared = {}, LossInv, [Next]_vars PROVE Safe'
    BY ClaimsStep DEF LossInv
  <1>0. TypeOK /\ Safe
    BY DEF LossInv, ClaimInv
  <1>1. ASSUME UNCHANGED <<tree, owed, exposed>>, pc' \notin {"rename", "drop"} PROVE Safe'
    BY <1>0, <1>1 DEF Safe, Standing, Holds, AtStake
  <1>2. CASE \/ LinkFails \/ LookFails \/ Refuse \/ AlreadyLinked \/ NothingThere \/ Adopt
             \/ TryNext \/ GiveUp \/ RenameFails \/ RemoveDir \/ RemoveDirFails \/ DryLinked
             \/ Symlink \/ SymlinkFails \/ Finish
             \/ \E o \in Orders, d \in BOOLEAN : Start(o, d)
    <2>1. UNCHANGED <<tree, owed, exposed>> /\ pc' \notin {"rename", "drop"}
      BY <1>2 DEF LinkFails, LookFails, CallFails, Refuse, AlreadyLinked, NothingThere, Adopt,
           TryNext, Placing, GiveUp, RenameFails, RemoveDir, RemoveDirFails, DryLinked, Symlink,
           SymlinkFails, Finish, Start, Ends, NextTool, NextEntry, Linking, project, history, kept
    <2> QED BY <1>1, <2>1
  <1>3. CASE ClaimName
    <2>1. /\ UNCHANGED <<tree, owed, exposed, order, at>> /\ tree[Root][C] = None /\ pc = "place"
          /\ pc' \in {"place", "rename"} /\ (pc' = "rename" => UNCHANGED <<todo, k>>)
      BY <1>3 DEF ClaimName, NextEntry, Placing, Taken, OnDisk, project, kept
    <2>2. CASE pc' = "place"
      BY <1>1, <2>1, <2>2
    <2>3. CASE pc' = "rename"
      <3>1. C' = C
        BY <2>1, <2>3 DEF C, N, T
      <3>2. ASSUME NEW c \in owed \ exposed
            PROVE  \E q \in Places, m \in Names : tree[q][m] = c /\ <<q, m>> # <<Root, C>>
        <4>1. c # None
          BY EntryAssumption, <1>0 DEF TypeOK, HistoryType, Held
        <4>2. PICK q \in Places, m \in Names : tree[q][m] = c
          BY <1>0 DEF Safe, Standing, Holds
        <4> QED BY <2>1, <4>1, <4>2
      <3> QED BY <2>1, <2>3, <3>1, <3>2 DEF Safe, Standing, Holds, AtStake
    <2> QED BY <2>1, <2>2, <2>3
  <1>4. CASE FindIdentical
    <2>1. /\ UNCHANGED <<tree, owed, exposed, order, at>> /\ pc = "place" /\ todo # {}
          /\ pc' \in {"place", "drop"} /\ (pc' = "drop" => UNCHANGED todo)
      BY <1>4 DEF FindIdentical, NextEntry, Placing, project, history, kept
    <2>2. CASE pc' = "place"
      BY <1>1, <2>1, <2>2
    <2>3. CASE pc' = "drop"
      <3>1. T' = T /\ N' = N /\ Dir(T)' = T
        BY <2>1, <2>3 DEF T, N, Dir
      <3>2. PICK p \in Places, n \in Names : <<p, n>> # <<T, N>> /\ tree[p][n] = Source
        BY <1>4, HasTwin DEF LossInv
      <3>3. ASSUME NEW c \in owed \ exposed
            PROVE  \E q \in Places, m \in Names : tree[q][m] = c /\ <<q, m>> # <<T, N>>
        <4>1. PICK q \in Places, m \in Names : tree[q][m] = c
          BY <1>0 DEF Safe, Standing, Holds
        <4>2. Source = tree[T][N]
          BY <1>0, <2>1, AtWork
        <4> QED BY <3>2, <4>1, <4>2
      <3> QED BY <2>1, <2>3, <3>1, <3>3 DEF Safe, Standing, Holds, AtStake
    <2> QED BY <2>1, <2>2, <2>3
  <1>5. CASE Rename
    BY <1>0, <1>5, SafeRename
  <1>6. CASE Drop
    BY <1>0, <1>6, StakeLeft DEF Drop, NextEntry, history, kept
  <1>7. CASE DropFails
    BY <1>0, <1>7, StakeLeft DEF DropFails, Ends, NextTool, kept
  <1>8. ASSUME NEW p \in Places, NEW n \in Entries, NEW c \in Saved, Save(p, n, c)
        PROVE  Safe'
    BY <1>8, SafeSave
  <1>9. CASE Kill
    <2>1. pc' = "idle" /\ UNCHANGED <<owed, exposed>>
      BY <1>9 DEF Kill, kept
    <2>2. CASE UNCHANGED tree
      BY <1>1, <2>1, <2>2
    <2>3. CASE pc = "drop" /\ tree' = [tree EXCEPT ![Dir(T)][N] = Debris]
      BY <1>0, <2>1, <2>3, StakeLeft
    <2> QED BY <1>9, <2>2, <2>3 DEF Kill
  <1>10. CASE UNCHANGED vars
    BY <1>0, <1>10 DEF vars, project, run, history, kept, Safe, Standing, Holds, AtStake, C, T, N,
                       Dir
  <1> QED BY <1>2, <1>3, <1>4, <1>5, <1>6, <1>7, <1>8, <1>9, <1>10 DEF Next, RunStep

\* Whatever is interrupted, refused or run again, what was in the project and no
\* one else replaced is still in it, but for what others save in the moments between
\* a look and the call that follows it; as long as no directory of a tool is the root
\* itself.
THEOREM NothingIsLost ==
    ASSUME Shared = {}
    PROVE  Spec => []NothingLost
  <1>1. Init => LossInv
    BY LossInit
  <1>2. LossInv /\ [Next]_vars => LossInv'
    BY LossStep
  <1>3. LossInv => NothingLost
    BY DEF LossInv, Safe, Standing, Holds, NothingLost, Present
  <1> QED BY <1>1, <1>2, <1>3, PTL DEF Spec

----------------------------------------------------------------------------
\* What is in the root stays, but for what was put there after it was looked at.

RootInv == TypeOK /\ (pc = "rename" => (OnDisk => C \in late))

LEMMA RootStep == RootInv /\ [Next]_vars => RootInv'
  <1> SUFFICES ASSUME RootInv, [Next]_vars, pc' = "rename" PROVE (OnDisk => C \in late)'
    BY TypeStep DEF RootInv
  <1>0. TypeOK
    BY DEF RootInv
  <1>1. CASE ClaimName
    <2>1. ~OnDisk /\ UNCHANGED <<tree, order, at, todo, k>>
      BY <1>1 DEF ClaimName, Taken, NextEntry, project
    <2> QED BY <2>1 DEF OnDisk, C, N, T
  <1>2. ASSUME NEW p \in Places, NEW n \in Entries, NEW c \in Saved, Save(p, n, c)
        PROVE  (OnDisk => C \in late)'
    <2>1. UNCHANGED <<pc, order, at, todo, k>> /\ C' = C
      BY <1>2 DEF Save, run, C, N, T
    <2>2. C \in Names /\ n \in Names /\ tree \in [Places -> [Names -> Held \cup {None}]]
          /\ Root \in Places
      BY <1>0, <2>1, AtEntry, EntryNames DEF TypeOK, RunType, ProjectType, Tree, Places
    <2>3. CASE p = Root
      BY <1>2, <2>1, <2>2, <2>3 DEF Save, RootInv, OnDisk
    <2>4. CASE p # Root
      BY <1>2, <2>1, <2>2, <2>4 DEF Save, RootInv, OnDisk
    <2> QED BY <2>3, <2>4
  <1>3. CASE UNCHANGED vars
    BY <1>3 DEF RootInv, vars, project, run, history, OnDisk, C, N, T
  <1>4. pc' # "rename"
          \/ ClaimName \/ UNCHANGED vars
          \/ \E p \in Places, n \in Entries, c \in Saved : Save(p, n, c)
    BY DEF Next, RunStep, LinkFails, LookFails, CallFails, Start, Refuse, AlreadyLinked,
           NothingThere, Adopt, FindIdentical, TryNext, Placing, GiveUp, Rename, RenameFails, Drop, DropFails, RemoveDir, RemoveDirFails,
           DryLinked, Symlink, SymlinkFails, Finish, Kill, Ends, NextTool, NextEntry, Linking
  <1> QED BY <1>1, <1>2, <1>3, <1>4

LEMMA RootHeld ==
    ASSUME Shared = {}, RootInv, RunStep \/ Kill, NEW n \in Names, tree[Root][n] # None,
           n \notin late
    PROVE  tree'[Root][n] = tree[Root][n]
  <1>0. TypeOK
    BY DEF RootInv
  <1>1. CASE Rename
    <2>0. pc = "rename" /\ todo # {}
      BY <1>0, <1>1 DEF Rename, TypeOK, RunType
    <2>1. n # C
      BY <2>0 DEF RootInv, OnDisk
    <2> QED BY <1>0, <1>1, <2>0, <2>1, AtWork DEF Rename
  <1>2. ASSUME NEW x, pc = "drop", tree' = [tree EXCEPT ![Dir(T)][N] = x]
        PROVE  tree'[Root][n] = tree[Root][n]
    <2>0. todo # {}
      BY <1>0, <1>2 DEF TypeOK, RunType
    <2> QED BY <1>0, <1>2, <2>0, AtWork
  <1>3. CASE Drop \/ DropFails
    BY <1>2, <1>3 DEF Drop, DropFails
  <1>4. CASE Kill
    BY <1>2, <1>4 DEF Kill
  <1>5. UNCHANGED tree \/ Rename \/ Drop \/ DropFails \/ Kill
    BY DEF RunStep, LinkFails, LookFails, CallFails, Refuse, AlreadyLinked, NothingThere, Adopt,
           ClaimName, FindIdentical, TryNext, GiveUp, RenameFails, RemoveDir, RemoveDirFails,
           DryLinked, Symlink, SymlinkFails, Finish, project
  <1> QED BY <1>1, <1>3, <1>4, <1>5

\* Nothing that was in the root when a name was looked at is moved, removed or
\* overwritten by a run, whether it is killed or not.
THEOREM RootIsKept ==
    ASSUME Shared = {}
    PROVE  Spec => RootKept
  <1>1. Init => RootInv
    BY TypeInit DEF Init, RootInv
  <1>2. RootInv /\ [Next]_vars => RootInv'
    BY RootStep
  <1>3. RootInv /\ [Next]_vars =>
          [RunStep \/ Kill => \A n \in Names : tree[Root][n] # None /\ n \notin late
                               => tree'[Root][n] = tree[Root][n]]_vars
    BY RootHeld
  <1> QED BY <1>1, <1>2, <1>3, PTL DEF Spec, RootKept

----------------------------------------------------------------------------
\* Every entry is at its old path or at its new one, as long as no rename failed.

\* And it stands there: the next call leaves it where it is.
KeptSafely == \A e \in origin : Stands(e)

\* What a real run has claimed is in the root, but for what it is about to rename.
ClaimedThere ==
    pc # "idle" /\ ~dry => \A x \in Names :
        claimed[x] # None => tree[Root][x] # None \/ (pc = "rename" /\ x = C)

TodoThere ==
    pc \in {"place", "rename", "drop"} => \A n \in todo : tree[Dir(T)][n] # None

KeptInv == TypeOK /\ TodoThere /\ (~balked => KeptSafely /\ ClaimedThere)

LEMMA TodoStep == Shared = {} /\ TypeOK /\ TodoThere /\ [Next]_vars => TodoThere'
  <1> SUFFICES ASSUME Shared = {}, TypeOK, TodoThere, [Next]_vars,
                      pc' \in {"place", "rename", "drop"}
               PROVE  TodoThere'
    BY DEF TodoThere
  <1>1. CASE Adopt
    BY <1>1 DEF Adopt, TodoThere, T, Dir, project
  <1>2. ASSUME UNCHANGED <<tree, order, at>>, todo' \subseteq todo, pc \in {"place", "rename", "drop"}
        PROVE  TodoThere'
    BY <1>2 DEF TodoThere, T, Dir
  <1>3. CASE ClaimName \/ FindIdentical \/ TryNext
    <2>1. UNCHANGED <<tree, order, at>> /\ todo' \subseteq todo /\ pc \in {"place", "rename", "drop"}
      BY <1>3 DEF ClaimName, FindIdentical, TryNext, Placing, NextEntry, project
    <2> QED BY <1>2, <2>1
  <1>4. CASE Rename \/ Drop
    <2>0. /\ pc \in {"rename", "drop"} /\ todo # {} /\ UNCHANGED <<order, at>>
          /\ todo' = todo \ {N}
      BY <1>4 DEF Rename, Drop, NextEntry, TypeOK, RunType
    <2>1. \A n \in Names \ {N} : tree'[T][n] = tree[T][n]
      BY <1>4, <2>0, AtWork DEF Rename, Drop
    <2>2. todo' \subseteq Names
      BY <2>0, EntryNames DEF TypeOK, RunType
    <2> QED BY <2>0, <2>1, <2>2, AtWork DEF TodoThere, T, Dir
  <1>5. ASSUME NEW p \in Places, NEW n \in Entries, NEW c \in Saved, Save(p, n, c)
        PROVE  TodoThere'
    <2>1. /\ UNCHANGED <<pc, order, at, todo>> /\ c # None
          /\ tree' = [tree EXCEPT ![p][n] = c]
      BY <1>5, EntryAssumption DEF Save, run, Held
    <2>2. todo \subseteq Names /\ at <= Len(order)
      BY <2>1, EntryNames DEF TypeOK, RunType
    <2>3. \A m \in todo : tree'[T][m] # None
      BY <2>1, <2>2, OwnDir, EntryNames DEF TodoThere, TypeOK, ProjectType, Tree
    <2> QED BY <2>1, <2>2, <2>3, OwnDir DEF TodoThere, T, Dir
  <1>6. CASE UNCHANGED vars
    BY <1>6 DEF vars, project, run, TodoThere, T, Dir
  <1>7. \/ Adopt \/ ClaimName \/ FindIdentical \/ TryNext \/ Rename \/ Drop \/ UNCHANGED vars
        \/ \E p \in Places, n \in Entries, c \in Saved : Save(p, n, c)
    BY DEF Next, RunStep, Start, LinkFails, LookFails, CallFails, Refuse, AlreadyLinked,
           NothingThere, GiveUp, RenameFails, DropFails, RemoveDir, RemoveDirFails,
           DryLinked, Symlink, SymlinkFails, Finish, Kill, Ends, NextTool
  <1> QED BY <1>1, <1>3, <1>4, <1>5, <1>6, <1>7

\* An entry that a tool ever had, and the names it may have in the root.
LEMMA OfOrigin ==
    ASSUME TypeOK, Shared = {}, NEW e \in origin
    PROVE  /\ e[1] \in Tools /\ e[1] # Root /\ e[1] \in Places /\ Root \in Places
           /\ Dir(e[1]) = e[1] /\ e[2] \in Names /\ e[3] # None
           /\ \A i \in Tries : Candidate(e[2], e[1], i) \in Names
  <1>1. e[1] \in Tools /\ e[2] \in Entries /\ e[3] \in Contents
    BY DEF TypeOK, HistoryType
  <1>2. \A i \in Tries : Candidate(e[2], e[1], i) \in Names
    BY <1>1 DEF Names
  <1> QED BY <1>1, <1>2, EntryNames, ToolAssumption, EntryAssumption DEF Places, Dir, Held

\* Where an entry stands.
StandsOld(e) == AtOldPath(e) /\ ~AtStake(e[1], e[2])
StandsNew(e) == \E i \in Tries : /\ tree[Root][Candidate(e[2], e[1], i)] = e[3]
                                 /\ ~AtStake(Root, Candidate(e[2], e[1], i))
LEMMA StandsIs == Shared = {} => \A e : Stands(e) <=> StandsOld(e) \/ StandsNew(e)
  BY DEF Stands, Holds, StandsOld, StandsNew, AtOldPath, Dir

\* A step that changes neither what is kept nor what is at stake.
LEMMA KeptQuiet ==
    ASSUME KeptSafely, ClaimedThere,
           UNCHANGED <<tree, origin, claimed, dry>>, pc' \notin {"rename", "drop"},
           pc \notin {"idle", "rename"} \/ pc' = "idle"
    PROVE  KeptSafely' /\ ClaimedThere'
  <1>1. KeptSafely'
    BY DEF KeptSafely, Stands, Holds, AtStake, Dir
  <1>2. ClaimedThere'
    BY DEF ClaimedThere
  <1> QED BY <1>1, <1>2

LEMMA KeptClaim ==
    ASSUME TypeOK, Shared = {}, KeptSafely, ClaimedThere, ClaimName
    PROVE  KeptSafely' /\ ClaimedThere'
  <1>0. /\ pc = "place" /\ todo # {} /\ tree[Root][C] = None
        /\ UNCHANGED <<tree, origin, dry, order, at>> /\ pc' \in {"place", "rename"}
        /\ claimed' = [claimed EXCEPT ![C] = [tool |-> T, name |-> N]]
        /\ dry => pc' = "place"
        /\ ~dry => pc' = "rename" /\ UNCHANGED <<todo, k>>
    BY DEF ClaimName, Placing, Taken, OnDisk, project, kept, NextEntry
  <1>1. pc' = "rename" => C' = C
    BY <1>0 DEF C, N, T
  <1>2. \A p, n : AtStake(p, n)' => tree[p][n] = None
    BY <1>0, <1>1 DEF AtStake
  <1>3. ASSUME NEW e \in origin PROVE Stands(e)'
    <2>1. e[3] # None
      BY OfOrigin
    <2>2. Stands(e)
      BY DEF KeptSafely
    <2> QED BY <1>0, <1>2, <2>1, <2>2 DEF Stands, Holds, Dir
  <1>4. ClaimedThere'
    <2> SUFFICES ASSUME ~dry, NEW x \in Names, claimed'[x] # None
                 PROVE  tree[Root][x] # None \/ x = C
      BY <1>0, <1>1 DEF ClaimedThere
    <2> QED BY <1>0 DEF ClaimedThere, TypeOK, RunType
  <1> QED BY <1>0, <1>3, <1>4 DEF KeptSafely

\* What is to be dropped is in the root under the name it would have been given.
LEMMA KeptFind ==
    ASSUME TypeOK, Shared = {}, KeptSafely, ClaimedThere, FindIdentical
    PROVE  KeptSafely' /\ ClaimedThere'
  <1>0. /\ pc = "place" /\ todo # {} /\ Taken /\ Source = HolderContent
        /\ UNCHANGED <<tree, origin, claimed, dry, order, at>> /\ pc' \in {"place", "drop"}
        /\ dry => pc' = "place"
        /\ ~dry => UNCHANGED <<todo, k>>
    BY DEF FindIdentical, Placing, Identical, project, history, kept, NextEntry
  <1>1. ClaimedThere'
    BY <1>0 DEF ClaimedThere
  <1>2. CASE pc' = "place"
    BY <1>0, <1>1, <1>2, KeptQuiet
  <1>3. CASE pc' = "drop"
    <2>1. ~dry /\ OnDisk
      BY <1>0, <1>3, AtWork DEF ClaimedThere, Taken, OnDisk
    <2>2. tree[Root][C] = Source
      BY <1>0, <2>1 DEF HolderContent
    <2>3. \A p, n : AtStake(p, n)' <=> <<p, n>> = <<T, N>>
      BY <1>0, <1>3, <2>1 DEF AtStake, T, N, Dir
    <2>4. ASSUME NEW e \in origin PROVE Stands(e)'
      <3>1. Stands(e) /\ T # Root /\ Source = tree[T][N]
        BY <1>0, AtWork DEF KeptSafely
      <3>2. CASE tree[e[1]][e[2]] = e[3] /\ <<e[1], e[2]>> = <<T, N>>
        <4>1. PICK i \in Tries : tree[Root][Candidate(e[2], e[1], i)] = e[3]
          BY <2>2, <3>1, <3>2 DEF C, TypeOK, RunType
        <4>2. ~AtStake(Root, Candidate(e[2], e[1], i))'
          BY <2>3, <3>1
        <4> QED BY <1>0, <4>1, <4>2 DEF Stands, Holds
      <3>3. CASE tree[e[1]][e[2]] = e[3] /\ <<e[1], e[2]>> # <<T, N>>
        BY <1>0, <2>3, <3>3 DEF Stands, Holds, Dir
      <3>4. CASE \E i \in Tries : tree[Root][Candidate(e[2], e[1], i)] = e[3]
        BY <1>0, <2>3, <3>1, <3>4 DEF Stands, Holds
      <3> QED BY <3>1, <3>2, <3>3, <3>4 DEF Stands, Holds, Dir
    <2> QED BY <1>0, <1>1, <2>4 DEF KeptSafely
  <1> QED BY <1>0, <1>2, <1>3

\* A rename takes an entry from its old path to its new one.
LEMMA KeptRename ==
    ASSUME TypeOK, Shared = {}, TodoThere, KeptSafely, ClaimedThere, Rename
    PROVE  KeptSafely' /\ ClaimedThere'
  <1>0. /\ pc = "rename" /\ todo # {} /\ pc' = "place" /\ UNCHANGED <<origin, claimed, dry>>
        /\ k \in Tries
    BY DEF Rename, TypeOK, RunType, NextEntry, history, kept
  <1>1. /\ tree'[Root][C] = Source /\ Source # None
        /\ \A q \in Places, m \in Names :
               <<q, m>> \notin {<<T, N>>, <<Root, C>>} => tree'[q][m] = tree[q][m]
    BY <1>0, AtWork DEF Rename, TodoThere, Source
  <1>2. \A p, n : ~AtStake(p, n)'
    BY <1>0 DEF AtStake
  <1>3. ASSUME NEW e \in origin PROVE Stands(e)'
    <2>0. StandsOld(e) \/ StandsNew(e)
      BY StandsIs DEF KeptSafely
    <2>1. CASE AtOldPath(e) /\ <<e[1], e[2]>> = <<T, N>>
      <3>1. tree'[Root][Candidate(e[2], e[1], k)] = e[3]
        BY <1>0, <1>1, <2>1, OfOrigin DEF AtOldPath, C, Source
      <3> QED BY <1>0, <1>2, <3>1 DEF Stands, Holds
    <2>2. CASE AtOldPath(e) /\ <<e[1], e[2]>> # <<T, N>>
      <3>1. tree'[e[1]][e[2]] = e[3]
        BY <1>1, <2>2, OfOrigin, AtWork, <1>0 DEF AtOldPath
      <3> QED BY <1>2, <3>1 DEF Stands, Holds, Dir
    <2>3. CASE StandsNew(e)
      <3>1. PICK i \in Tries : /\ tree[Root][Candidate(e[2], e[1], i)] = e[3]
                               /\ Candidate(e[2], e[1], i) # C
        BY <1>0, <2>3 DEF StandsNew, AtStake
      <3>2. tree'[Root][Candidate(e[2], e[1], i)] = e[3]
        BY <1>0, <1>1, <3>1, OfOrigin, AtWork
      <3> QED BY <1>2, <3>2 DEF Stands, Holds
    <2> QED BY <2>0, <2>1, <2>2, <2>3 DEF StandsOld
  <1>4. ASSUME NEW x \in Names, ~dry, claimed[x] # None PROVE tree'[Root][x] # None
    BY <1>0, <1>1, <1>4, AtWork DEF ClaimedThere
  <1> QED BY <1>0, <1>3, <1>4 DEF KeptSafely, ClaimedThere

\* What is dropped, or half dropped, was at stake.
LEMMA KeptDrop ==
    ASSUME TypeOK, Shared = {}, KeptSafely, ClaimedThere, pc = "drop",
           NEW x, tree' = [tree EXCEPT ![Dir(T)][N] = x], pc' \notin {"rename", "drop"},
           origin' = origin, UNCHANGED <<claimed, dry>> \/ pc' = "idle"
    PROVE  KeptSafely' /\ ClaimedThere'
  <1>0. todo # {}
    BY DEF TypeOK, RunType
  <1>1. \A q \in Places, m \in Names : <<q, m>> # <<T, N>> => tree'[q][m] = tree[q][m]
    BY <1>0, AtWork
  <1>2. \A m \in Names : tree'[Root][m] = tree[Root][m]
    BY <1>0, <1>1, AtWork
  <1>3. /\ \A p, n : AtStake(p, n) <=> <<p, n>> = <<T, N>>
        /\ \A p, n : ~AtStake(p, n)'
    BY StakeIs DEF AtStake
  <1>4. ASSUME NEW e \in origin PROVE Stands(e)'
    <2>1. CASE StandsOld(e)
      <3>1. tree'[e[1]][e[2]] = e[3]
        BY <1>1, <1>3, <2>1, OfOrigin DEF StandsOld, AtOldPath
      <3> QED BY <1>3, <3>1 DEF Stands, Holds, Dir
    <2>2. CASE StandsNew(e)
      <3>1. \E i \in Tries : tree'[Root][Candidate(e[2], e[1], i)] = e[3]
        BY <1>2, <2>2, OfOrigin DEF StandsNew
      <3> QED BY <1>3, <3>1 DEF Stands, Holds
    <2> QED BY <2>1, <2>2, StandsIs DEF KeptSafely
  <1> QED BY <1>2, <1>4 DEF KeptSafely, ClaimedThere

LEMMA KeptSave ==
    ASSUME TypeOK, ClaimedThere, NEW p \in Places, NEW n \in Entries, NEW c \in Saved,
           Save(p, n, c)
    PROVE  KeptSafely' /\ ClaimedThere'
  <1>0. n \in Names /\ tree \in [Places -> [Names -> Held \cup {None}]] /\ Root \in Places
        /\ c # None
    BY EntryNames, EntryAssumption DEF TypeOK, ProjectType, Tree, Places, Held
  <1>1. KeptSafely'
    BY DEF Save, KeptSafely
  <1>2. /\ UNCHANGED <<pc, order, at, todo, k, claimed, dry>>
        /\ \A m \in Names : tree[Root][m] # None => tree'[Root][m] # None
    BY <1>0 DEF Save, run
  <1>3. C' = C
    BY <1>2 DEF C, N, T
  <1>4. ClaimedThere'
    BY <1>2, <1>3 DEF ClaimedThere
  <1> QED BY <1>1, <1>4

LEMMA KeptStep == Shared = {} /\ KeptInv /\ [Next]_vars => KeptInv'
  <1> SUFFICES ASSUME Shared = {}, KeptInv, [Next]_vars, ~balked'
               PROVE  KeptSafely' /\ ClaimedThere'
    BY TypeStep, TodoStep DEF KeptInv
  <1>0. TypeOK /\ TodoThere
    BY DEF KeptInv
  <1>1. ~balked /\ ~RenameFails
    <2>1. ~RenameFails
      BY DEF RenameFails
    <2>2. CASE UNCHANGED vars
      <3>1. balked' = balked
        BY <2>2 DEF vars, history
      <3> QED BY <2>1, <3>1, Zenon
    <2>3. CASE RunStep
      <3>1. balked' = balked
        BY <2>1, <2>3 DEF RunStep, LinkFails, LookFails, CallFails, Refuse, AlreadyLinked,
             NothingThere, Adopt, ClaimName, FindIdentical, TryNext, GiveUp, Rename, Drop,
             DropFails, RemoveDir, RemoveDirFails, DryLinked, Symlink, SymlinkFails, Finish, history
      <3> QED BY <2>1, <3>1, Zenon
    <2>4. CASE \/ Kill
               \/ \E o \in Orders, d \in BOOLEAN : Start(o, d)
               \/ \E p \in Places, n \in Entries, c \in Saved : Save(p, n, c)
      <3>1. balked' = balked
        BY <2>4 DEF Kill, Start, Save
      <3> QED BY <2>1, <3>1, Zenon
    <2> QED BY <2>1, <2>2, <2>3, <2>4 DEF Next
  <1>2. KeptSafely /\ ClaimedThere
    BY <1>1 DEF KeptInv
  <1>3. ASSUME NEW o \in Orders, NEW d \in BOOLEAN, Start(o, d)
        PROVE  KeptSafely' /\ ClaimedThere'
    <2>1. pc' = "tool" /\ UNCHANGED <<tree, origin>> /\ claimed' = NoClaim
      BY <1>3 DEF Start, project, kept
    <2>2. KeptSafely'
      BY <1>2, <2>1 DEF KeptSafely, Stands, Holds, AtStake, Dir
    <2> QED BY <2>1, <2>2 DEF ClaimedThere, NoClaim
  <1>4. CASE \/ LinkFails \/ LookFails \/ Refuse \/ AlreadyLinked \/ NothingThere \/ Adopt
             \/ TryNext \/ GiveUp \/ RemoveDir \/ RemoveDirFails \/ DryLinked \/ Symlink
             \/ SymlinkFails \/ Finish
    <2>1. UNCHANGED <<tree, origin, claimed, dry>> /\ pc' \notin {"rename", "drop"}
      BY <1>4 DEF LinkFails, LookFails, CallFails, Refuse, AlreadyLinked, NothingThere, Adopt,
           TryNext, Placing, GiveUp, RemoveDir, RemoveDirFails, DryLinked, Symlink, SymlinkFails,
           Finish, Ends, NextTool, project, history, kept
    <2>2. pc \notin {"idle", "rename"} \/ pc' = "idle"
      BY <1>4 DEF LinkFails, LookFails, Refuse, AlreadyLinked, NothingThere, Adopt, TryNext,
           Placing, Linking, GiveUp, RemoveDir, RemoveDirFails, DryLinked, Symlink, SymlinkFails,
           Finish
    <2> QED BY <1>2, <2>1, <2>2, KeptQuiet
  <1>5. CASE ClaimName
    BY <1>0, <1>2, <1>5, KeptClaim
  <1>6. CASE FindIdentical
    BY <1>0, <1>2, <1>6, KeptFind
  <1>7. CASE Rename
    BY <1>0, <1>2, <1>7, KeptRename
  <1>8. CASE Drop \/ DropFails
    BY <1>0, <1>2, <1>8, KeptDrop DEF Drop, DropFails, NextEntry, Ends, NextTool, history, kept
  <1>9. CASE Kill
    <2>1. pc' = "idle" /\ origin' = origin
      BY <1>9 DEF Kill, kept
    <2>2. CASE UNCHANGED tree
      BY <1>2, <2>1, <2>2 DEF KeptSafely, Stands, Holds, AtStake, Dir, ClaimedThere
    <2>3. CASE pc = "drop" /\ tree' = [tree EXCEPT ![Dir(T)][N] = Debris]
      BY <1>0, <1>2, <2>1, <2>3, KeptDrop
    <2> QED BY <1>9, <2>2, <2>3 DEF Kill
  <1>10. ASSUME NEW p \in Places, NEW n \in Entries, NEW c \in Saved, Save(p, n, c)
         PROVE  KeptSafely' /\ ClaimedThere'
    BY <1>0, <1>2, <1>10, KeptSave
  <1>11. CASE UNCHANGED vars
    <2>1. UNCHANGED <<tree, pc, order, at, todo, k, claimed, dry, origin>>
      BY <1>11 DEF vars, project, run, history, kept
    <2>2. T' = T /\ N' = N /\ C' = C
      BY <2>1 DEF C, N, T
    <2> QED BY <1>2, <2>1, <2>2 DEF KeptSafely, Stands, Holds, AtStake, Dir, ClaimedThere
  <1> QED BY <1>1, <1>3, <1>4, <1>5, <1>6, <1>7, <1>8, <1>9, <1>10, <1>11 DEF Next, RunStep

LEMMA KeptInit == Shared = {} /\ Init => KeptInv
  <1> SUFFICES ASSUME Shared = {}, Init PROVE KeptInv
    OBVIOUS
  <1>1. pc = "idle" /\ \A e \in origin : tree[e[1]][e[2]] = e[3]
    BY DEF Init
  <1>2. KeptSafely
    BY <1>1 DEF KeptSafely, Stands, Holds, AtStake, Dir
  <1> QED BY <1>1, <1>2, TypeInit DEF KeptInv, TodoThere, ClaimedThere

\* As long as no rename fails, every entry a tool ever had, but for those that others
\* wrote over or saved where the next call was to act, is whole at its old path or
\* under one of its names in the root, wherever the run is interrupted.
THEOREM EntriesAreKept ==
    ASSUME Shared = {}
    PROVE  Spec => []EntriesKept
  <1>1. Init => KeptInv
    BY KeptInit
  <1>2. KeptInv /\ [Next]_vars => KeptInv'
    BY KeptStep
  <1>3. KeptInv => EntriesKept
    BY DEF KeptInv, KeptSafely, Stands, Holds, AtOldPath, AtNewPath, EntriesKept, EntriesAlwaysKept
  <1> QED BY <1>1, <1>2, <1>3, PTL DEF Spec

=============================================================================
