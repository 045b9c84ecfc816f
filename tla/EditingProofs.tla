--------------------------- MODULE EditingProofs ---------------------------
(***************************************************************************)
(* Proofs about Editing for any commands, documents and number of events.  *)
(***************************************************************************)
EXTENDS Editing, FiniteSetTheorems, SequenceTheorems, TLAPS

\* The variables the proofs are about are functions on the editors.
EditorsType ==
    /\ pc \in [Editors -> {"idle", "done"} \cup Busy]
    /\ draft = [e \in Editors |-> draft[e]] /\ temp = [e \in Editors |-> temp[e]]

\* What a command has validated is what it writes, and nothing else is.
DraftsValid ==
    \A e \in Editors :
        /\ pc[e] \in {"create", "write", "rename"} => Valid(draft[e])
        /\ pc[e] = "rename" => temp[e] = draft[e]

EditInv == EditorsType /\ DraftsValid /\ WrittenIsValid

LEMMA EditInit == Init => EditInv
  BY EditorsAssumption DEF Init, EditInv, EditorsType, DraftsValid, WrittenIsValid

\* A command that takes a step of its own and leaves the file alone.
LEMMA EditOwn ==
    ASSUME EditInv, NEW e \in Editors, NEW to \in {"idle"} \cup Busy, Goes(e, to),
           UNCHANGED <<file, author>>,
           draft' = [draft EXCEPT ![e] = draft'[e]], temp' = [temp EXCEPT ![e] = temp'[e]],
           to \in {"create", "write", "rename"} => Valid(draft'[e]),
           to = "rename" => temp'[e] = draft'[e]
    PROVE  EditInv'
  <1>1. /\ pc' = [pc EXCEPT ![e] = to] /\ pc'[e] = to
        /\ \A x \in Editors \ {e} : pc'[x] = pc[x] /\ draft'[x] = draft[x] /\ temp'[x] = temp[x]
    BY DEF EditInv, EditorsType, Goes
  <1>2. EditorsType'
    BY <1>1 DEF EditInv, EditorsType
  <1>3. DraftsValid'
    BY <1>1 DEF EditInv, DraftsValid
  <1>4. to # "done"
    BY DEF Busy
  <1>5. WrittenIsValid'
    BY <1>1, <1>4 DEF EditInv, WrittenIsValid
  <1> QED BY <1>2, <1>3, <1>5 DEF EditInv

LEMMA EditGone ==
    ASSUME EditInv, NEW e \in Editors,
           (\E c \in Commands : Read(e, c)) \/ ReadFails(e) \/ Refuse(e) \/ Abandon(e)
    PROVE  EditInv'
  <1>1. PICK to \in {"idle", "change"} : Goes(e, to)
    BY DEF Read, ReadFails, Refuse, Abandon, Gone
  <1>2. /\ UNCHANGED <<file, author>>
        /\ draft' = [draft EXCEPT ![e] = <<>>] /\ temp' = [temp EXCEPT ![e] = <<>>]
        /\ draft'[e] = <<>> /\ temp'[e] = <<>>
    BY DEF Read, ReadFails, Refuse, Abandon, Gone, EditInv, EditorsType
  <1> QED BY <1>1, <1>2, EditOwn DEF Busy

LEMMA EditWrites ==
    ASSUME EditInv, NEW e \in Editors, Change(e) \/ CreateTemp(e) \/ WriteTemp(e)
    PROVE  EditInv'
  <1>0. /\ draft = [draft EXCEPT ![e] = draft[e]] /\ temp = [temp EXCEPT ![e] = temp[e]]
        /\ DOMAIN draft = Editors /\ DOMAIN temp = Editors
    BY DEF EditInv, EditorsType
  <1>1. CASE Change(e)
    <2>1. Valid(Result(e)) /\ Goes(e, "create") /\ UNCHANGED <<file, author>>
          /\ draft' = [draft EXCEPT ![e] = Result(e)] /\ temp' = [temp EXCEPT ![e] = temp[e]]
          /\ draft'[e] = Result(e) /\ temp'[e] = temp[e]
      BY <1>0, <1>1 DEF Change, Accepted
    <2> QED BY <2>1, EditOwn DEF Busy
  <1>2. CASE CreateTemp(e)
    <2>1. Valid(draft[e]) /\ Goes(e, "write") /\ UNCHANGED <<file, author>>
          /\ draft' = [draft EXCEPT ![e] = draft[e]] /\ temp' = [temp EXCEPT ![e] = <<>>]
          /\ draft'[e] = draft[e] /\ temp'[e] = <<>>
      BY <1>0, <1>2 DEF CreateTemp, EditInv, DraftsValid
    <2> QED BY <2>1, EditOwn DEF Busy
  <1>3. CASE WriteTemp(e)
    <2>1. Valid(draft[e]) /\ Goes(e, "rename") /\ UNCHANGED <<file, author>>
          /\ draft' = [draft EXCEPT ![e] = draft[e]] /\ temp' = [temp EXCEPT ![e] = draft[e]]
          /\ draft'[e] = draft[e] /\ temp'[e] = draft[e]
      BY <1>0, <1>3 DEF WriteTemp, EditInv, DraftsValid
    <2> QED BY <2>1, EditOwn DEF Busy
  <1> QED BY <1>1, <1>2, <1>3

LEMMA EditRenames ==
    ASSUME EditInv, NEW e \in Editors, Rename(e)
    PROVE  EditInv'
  <1>1. /\ pc' = [pc EXCEPT ![e] = "done"] /\ file' = temp[e] /\ author' = e
        /\ draft' = draft /\ temp' = temp
    BY DEF Rename, Goes
  <1>2. Valid(draft[e]) /\ temp[e] = draft[e]
    BY DEF Rename, EditInv, DraftsValid
  <1>3. EditorsType'
    BY <1>1 DEF EditInv, EditorsType
  <1>4. DraftsValid'
    BY <1>1 DEF EditInv, EditorsType, DraftsValid
  <1>5. WrittenIsValid'
    BY <1>1, <1>2 DEF WrittenIsValid
  <1> QED BY <1>3, <1>4, <1>5 DEF EditInv

LEMMA EditStep == EditInv /\ [Next]_vars => EditInv'
  <1> SUFFICES ASSUME EditInv, [Next]_vars PROVE EditInv'
    OBVIOUS
  <1>1. ASSUME NEW doc \in Written, Save(doc) PROVE EditInv'
    BY <1>1, EditorsAssumption DEF Save, EditInv, EditorsType, DraftsValid, WrittenIsValid
  <1>2. CASE UNCHANGED vars
    BY <1>2 DEF vars, editor, EditInv, EditorsType, DraftsValid, WrittenIsValid
  <1> QED BY <1>1, <1>2, EditGone, EditWrites, EditRenames DEF Next

\* Whatever fails, and whoever else writes: what a command wrote last is a whole
\* document, which was validated.
THEOREM WrittenDocumentIsValid == Spec => []WrittenIsValid
  <1>1. EditInv => WrittenIsValid
    BY DEF EditInv
  <1> QED BY <1>1, EditInit, EditStep, PTL DEF Spec

----------------------------------------------------------------------------
\* What a document means.  Proofs over its blocks go by the first block that would
\* be a counterexample.
LEMMA SmallestOf ==
    ASSUME NEW K \in Nat, NEW I \in SUBSET (1..K), I # {}
    PROVE  \E i \in I : \A j \in I : i <= j
  <1> DEFINE D == {1..i : i \in I}
  <1>1. IsFiniteSet(1..K) /\ D # {} /\ D \subseteq SUBSET (1..K)
    <2>1. ASSUME NEW i \in I PROVE 1..i \subseteq 1..K
      OBVIOUS
    <2>2. IsFiniteSet(1..K)
      BY FS_Interval
    <2>3. D # {}
      OBVIOUS
    <2> QED BY <2>1, <2>2, <2>3
  <1>2. IsWellFoundedOn(StrictSubsetOrdering(1..K), SUBSET (1..K))
    BY <1>1, FS_FiniteSubsetsOfFinite, FS_StrictSubsetOrderingWellFounded
  <1>3. PICK x \in D : \A y \in D : <<y, x>> \notin StrictSubsetOrdering(1..K)
    BY <1>1, <1>2, WFMin
  <1>4. PICK i \in I : x = 1..i
    BY <1>3
  <1>5. ASSUME NEW j \in I, j < i PROVE FALSE
    <2>1. 1..j \in D /\ 1..j \in SUBSET (1..K) /\ x \in SUBSET (1..K)
      BY <1>1, <1>3
    <2>2. 1..j \subseteq x /\ 1..j # x
      BY <1>4, <1>5
    <2> QED BY <1>3, <2>1, <2>2 DEF StrictSubsetOrdering
  <1> QED BY <1>5

LEMMA LargestOf ==
    ASSUME NEW K \in Nat, NEW I \in SUBSET (1..K), I # {}
    PROVE  \E i \in I : \A j \in I : i >= j
  <1> DEFINE J == {m \in 1..K : K + 1 - m \in I}
  <1>1. ASSUME NEW j \in I PROVE K + 1 - j \in J /\ j \in 1..K
    <2>1. K + 1 - (K + 1 - j) = j /\ K + 1 - j \in 1..K
      OBVIOUS
    <2> QED BY <2>1
  <1>2. PICK m \in J : \A j \in J : m <= j
    <2>1. J \in SUBSET (1..K) /\ J # {}
      BY <1>1
    <2> QED BY <2>1, SmallestOf
  <1>3. ASSUME NEW j \in I PROVE K + 1 - m >= j
    <2>1. K + 1 - j \in J /\ j \in 1..K
      BY <1>1
    <2>2. m <= K + 1 - j /\ m \in 1..K
      BY <1>2, <2>1
    <2> QED BY <2>1, <2>2
  <1> QED BY <1>2, <1>3

\* A block inherits from one before it.
LEMMA BaseIs ==
    ASSUME NEW doc \in Docs, NEW i \in 1..Len(doc), Carriers(doc, i) # {}
    PROVE  Base(doc, i) \in Carriers(doc, i) /\ \A j \in Carriers(doc, i) : Base(doc, i) >= j
  <1>1. i \in Nat /\ Carriers(doc, i) \in SUBSET (1..i)
    BY DEF Docs, Carriers
  <1>2. \E m \in Carriers(doc, i) : \A j \in Carriers(doc, i) : m >= j
    BY <1>1, LargestOf
  <1> QED BY <1>2 DEF Base, Max

LEMMA BaseBefore ==
    ASSUME NEW doc \in Docs, Parses(doc), Grounded(doc), NEW i \in 1..Len(doc), Merges(doc, i)
    PROVE  Base(doc, i) \in 1..(i - 1) /\ Base(doc, i) \in 1..Len(doc)
  <1>1. Base(doc, i) \in 1..i /\ Base(doc, i) # i
    BY BaseIs DEF Parses, Grounded, Carriers
  <1> QED BY <1>1 DEF Docs

\* The first block of a name is the one an edit concerns.
LEMMA IndexIs ==
    ASSUME NEW doc \in Docs, NEW n, Called(doc, n) # {}
    PROVE  IndexOf(doc, n) \in Called(doc, n) /\ \A j \in Called(doc, n) : IndexOf(doc, n) <= j
  <1>1. Len(doc) \in Nat /\ Called(doc, n) \in SUBSET (1..Len(doc))
    BY DEF Docs, Called
  <1>2. \E m \in Called(doc, n) : \A j \in Called(doc, n) : m <= j
    BY <1>1, SmallestOf
  <1> QED BY <1>2 DEF IndexOf, Min

\* What is filled in from the blocks before it.
LEMMA FilledFrom ==
    ASSUME NEW doc \in Docs, Parses(doc), Grounded(doc), NEW i \in 1..Len(doc), NEW g, NEW h,
           \A j \in 1..(i - 1) : g[j] = h[j]
    PROVE  Filled(doc, g, i) = Filled(doc, h, i)
  BY BaseBefore DEF Filled

LEMMA FilledSays ==
    ASSUME NEW doc \in Docs, Parses(doc), Grounded(doc), NEW i \in 1..Len(doc), NEW g,
           \A j \in 1..(i - 1) : g[j] \in Says
    PROVE  Filled(doc, g, i) \in Says
  <1>1. doc[i] \in Block
    BY DEF Docs
  <1>2. doc[i].says \in [Fields -> Values \cup {None}]
    BY <1>1 DEF Block, Says
  <1> QED BY <1>2, BaseBefore DEF Filled, Says

\* The fields of every block are those it says and those it inherits.
LEMMA StatedIs ==
    ASSUME NEW doc \in Docs, Parses(doc), Grounded(doc)
    PROVE  \A i \in 1..Len(doc) :
              Stated(doc)[i] \in Says /\ Stated(doc)[i] = Filled(doc, Stated(doc), i)
  <1> DEFINE L == Len(doc)
             Solves(g, k) == g \in [1..k -> Says] /\ \A i \in 1..k : g[i] = Filled(doc, g, i)
  <1>1. L \in Nat
    BY DEF Docs
  <1>2. ASSUME NEW k \in 1..L, NEW g, Solves(g, k - 1) PROVE \E h : Solves(h, k)
    <2> DEFINE h == [i \in 1..k |-> IF i = k THEN Filled(doc, g, k) ELSE g[i]]
    <2>1. \A i \in 1..k : i \in 1..L /\ (i = k \/ i \in 1..(k - 1))
      BY <1>1
    <2>2. Filled(doc, g, k) \in Says
      BY <1>2, FilledSays
    <2>3. h \in [1..k -> Says] /\ \A i \in 1..(k - 1) : h[i] = g[i]
      BY <1>2, <2>1, <2>2
    <2>4. ASSUME NEW i \in 1..k PROVE h[i] = Filled(doc, h, i)
      <3>1. \A j \in 1..(i - 1) : h[j] = g[j]
        BY <2>3
      <3> HIDE DEF h
      <3>2. Filled(doc, h, i) = Filled(doc, g, i)
        BY <2>1, <3>1, FilledFrom
      <3> QED BY <1>2, <2>1, <2>3, <3>2 DEF h
    <2> QED BY <2>3, <2>4
  <1> DEFINE I == {k \in 1..L : ~\E g : Solves(g, k)}
  <1>3. \E g : Solves(g, 0)
    <2>1. Solves([i \in 1..0 |-> Default], 0)
      OBVIOUS
    <2> QED BY <2>1
  <1> HIDE DEF Solves
  <1>4. I = {}
    <2> SUFFICES ASSUME I # {} PROVE FALSE
      OBVIOUS
    <2>1. PICK m \in I : \A j \in I : m <= j
      BY <1>1, SmallestOf
    <2>2. m - 1 = 0 \/ m - 1 \in (1..L) \ I
      BY <1>1, <2>1
    <2>3. \E g : Solves(g, m - 1)
      BY <1>3, <2>2
    <2> QED BY <1>2, <2>1, <2>3
  <1>5. PICK g : Solves(g, L)
    <2>1. L = 0 \/ L \in 1..L
      BY <1>1
    <2> QED BY <1>3, <1>4, <2>1
  <1>6. g = [i \in 1..L |-> Filled(doc, g, i)]
    BY <1>5 DEF Solves
  <1>7. Stated(doc) = [i \in 1..L |-> Filled(doc, Stated(doc), i)]
    BY <1>6, Zenon DEF Stated
  <1>8. \A i \in 1..L : Stated(doc)[i] = g[i]
    <2> DEFINE J == {i \in 1..L : Stated(doc)[i] # g[i]}
    <2> SUFFICES ASSUME J # {} PROVE FALSE
      OBVIOUS
    <2>1. PICK m \in J : \A j \in J : m <= j
      BY <1>1, SmallestOf
    <2>2. \A j \in 1..(m - 1) : Stated(doc)[j] = g[j]
      BY <1>1, <2>1
    <2>3. Filled(doc, Stated(doc), m) = Filled(doc, g, m)
      BY <2>2, FilledFrom
    <2> QED BY <1>6, <1>7, <2>1, <2>3
  <1> QED BY <1>5, <1>7, <1>8 DEF Solves

----------------------------------------------------------------------------
\* What each mutation makes of a document.
LEMMA DocIs ==
    ASSUME NEW doc \in Docs
    PROVE  /\ Len(doc) \in Nat /\ DOMAIN doc = 1..Len(doc)
           /\ \A i \in 1..Len(doc) : /\ doc[i] \in Block /\ doc[i].says \in Says
                                     /\ doc[i].name \in Names
  <1>1. Len(doc) \in Nat /\ \A i \in 1..Len(doc) : doc[i] \in Block
    BY DEF Docs
  <1> QED BY <1>1 DEF Block, Docs

LEMMA NewBlockIs ==
    ASSUME NEW doc \in Docs, NEW n \in Names, NEW says \in Says, Called(doc, n) = {}
    PROVE  LET new == Declare(doc, n, says)
           IN  /\ new \in Docs /\ Len(new) = Len(doc) + 1
               /\ \A i \in 1..Len(doc) : new[i] = doc[i]
               /\ new[Len(doc) + 1] = [name |-> n, anchor |-> None, merge |-> None, says |-> says]
  <1> DEFINE b == [name |-> n, anchor |-> None, merge |-> None, says |-> says]
  <1>1. b \in Block
    BY DEF Block
  <1>2. Declare(doc, n, says) = Append(doc, b)
    BY DEF Declare
  <1> HIDE DEF b
  <1>3. /\ Append(doc, b) \in Docs /\ Len(Append(doc, b)) = Len(doc) + 1
        /\ \A i \in 1..Len(doc) : Append(doc, b)[i] = doc[i]
        /\ Append(doc, b)[Len(doc) + 1] = b
    BY <1>1 DEF Docs
  <1> QED BY <1>2, <1>3 DEF b

\* One block is changed, and keeps its name and its anchor.
LEMMA ChangedBlockIs ==
    ASSUME NEW doc \in Docs, NEW k \in 1..Len(doc), NEW b \in Block,
           b.name = doc[k].name
    PROVE  LET new == [doc EXCEPT ![k] = b]
           IN  /\ new \in Docs /\ Len(new) = Len(doc) /\ new[k] = b
               /\ \A i \in (1..Len(doc)) \ {k} : new[i] = doc[i]
               /\ \A n : Called(new, n) = Called(doc, n)
  <1> DEFINE new == [doc EXCEPT ![k] = b]
  <1>1. /\ new \in Docs /\ Len(new) = Len(doc)
        /\ \A i \in 1..Len(doc) : new[i] = IF i = k THEN b ELSE doc[i]
    BY ExceptSeq DEF Docs
  <1> HIDE DEF new
  <1>2. \A n : Called(new, n) = Called(doc, n)
    BY <1>1 DEF Called
  <1> QED BY <1>1, <1>2 DEF new

LEMMA DeclaredBlockIs ==
    ASSUME NEW doc \in Docs, NEW n \in Names, NEW says \in Says, Called(doc, n) # {}
    PROVE  LET new == Declare(doc, n, says)
               k == IndexOf(doc, n)
           IN  /\ new \in Docs /\ Len(new) = Len(doc)
               /\ new[k] = [doc[k] EXCEPT !.merge = None, !.says = says]
               /\ \A i \in (1..Len(doc)) \ {k} : new[i] = doc[i]
               /\ \A m : Called(new, m) = Called(doc, m)
  <1> DEFINE k == IndexOf(doc, n)
             b == [doc[k] EXCEPT !.merge = None, !.says = says]
  <1>1. k \in 1..Len(doc)
    BY IndexIs DEF Called
  <1>2. b \in Block /\ b.name = doc[k].name
    <2>1. doc[k] \in Block
      BY <1>1, DocIs
    <2> QED BY <2>1 DEF Block
  <1>3. Declare(doc, n, says) = [doc EXCEPT ![k] = b]
    BY DEF Declare
  <1> HIDE DEF b, k
  <1>4. LET new == [doc EXCEPT ![k] = b]
        IN  /\ new \in Docs /\ Len(new) = Len(doc) /\ new[k] = b
            /\ \A i \in (1..Len(doc)) \ {k} : new[i] = doc[i]
            /\ \A m : Called(new, m) = Called(doc, m)
    BY <1>1, <1>2, ChangedBlockIs
  <1> QED BY <1>3, <1>4 DEF b, k

LEMMA EnabledBlockIs ==
    ASSUME NEW doc \in Docs, NEW n \in Names, NEW on \in Values, Called(doc, n) # {}
    PROVE  LET new == SetEnabled(doc, n, on)
               k == IndexOf(doc, n)
           IN  /\ new \in Docs /\ Len(new) = Len(doc)
               /\ new[k] = [doc[k] EXCEPT !.says = [@ EXCEPT !["enabled"] = on]]
               /\ \A i \in (1..Len(doc)) \ {k} : new[i] = doc[i]
               /\ \A m : Called(new, m) = Called(doc, m)
  <1> DEFINE k == IndexOf(doc, n)
             b == [doc[k] EXCEPT !.says = [@ EXCEPT !["enabled"] = on]]
  <1>1. k \in 1..Len(doc)
    BY IndexIs DEF Called
  <1>2. [doc[k].says EXCEPT !["enabled"] = on] \in Says
    BY <1>1, DocIs DEF Says
  <1>3. b \in Block /\ b.name = doc[k].name
    BY <1>1, <1>2, DocIs DEF Block
  <1>4. SetEnabled(doc, n, on) = [doc EXCEPT ![k] = b]
    BY DEF SetEnabled
  <1> HIDE DEF b, k
  <1>5. LET new == [doc EXCEPT ![k] = b]
        IN  /\ new \in Docs /\ Len(new) = Len(doc) /\ new[k] = b
            /\ \A i \in (1..Len(doc)) \ {k} : new[i] = doc[i]
            /\ \A m : Called(new, m) = Called(doc, m)
    BY <1>1, <1>3, ChangedBlockIs
  <1> QED BY <1>4, <1>5 DEF b, k

LEMMA RemovedBlockIs ==
    ASSUME NEW doc \in Docs, NEW n, Called(doc, n) # {}
    PROVE  LET new == RemoveBlock(doc, n)
               k == IndexOf(doc, n)
           IN  /\ new \in Docs /\ Len(new) = Len(doc) - 1
               /\ \A i \in 1..Len(new) : new[i] = IF i < k THEN doc[i] ELSE doc[i + 1]
  <1> DEFINE k == IndexOf(doc, n)
             low == SubSeq(doc, 1, k - 1)
             high == SubSeq(doc, k + 1, Len(doc))
  <1>1. k \in 1..Len(doc) /\ Len(doc) \in Nat /\ \A i \in 1..Len(doc) : doc[i] \in Block
    BY IndexIs, DocIs DEF Called
  <1> HIDE DEF k
  <1>2. /\ low \in Seq(Block) /\ Len(low) = k - 1
        /\ \A i \in 1..(k - 1) : low[i] = doc[i]
    <2>1. 1 \in Int /\ k - 1 \in Int /\ \A i \in 1..(k - 1) : doc[i] \in Block
      BY <1>1
    <2> QED BY <1>1, <2>1, SubSeqProperties
  <1>3. /\ high \in Seq(Block) /\ Len(high) = Len(doc) - k
        /\ \A i \in 1..(Len(doc) - k) : high[i] = doc[k + i]
    <2>1. k + 1 \in Int /\ Len(doc) \in Int /\ \A i \in (k + 1)..Len(doc) : doc[i] \in Block
      BY <1>1
    <2>2. /\ high \in Seq(Block)
          /\ Len(high) = IF k + 1 <= Len(doc) THEN Len(doc) - (k + 1) + 1 ELSE 0
          /\ \A i \in 1..(Len(doc) - (k + 1) + 1) : high[i] = doc[(k + 1) + i - 1]
      BY <2>1, SubSeqProperties
    <2> HIDE DEF high
    <2>3. ASSUME NEW i \in 1..(Len(doc) - k) PROVE high[i] = doc[k + i]
      <3>1. i \in 1..(Len(doc) - (k + 1) + 1) /\ (k + 1) + i - 1 = k + i
        BY <1>1
      <3>2. high[i] = doc[(k + 1) + i - 1]
        BY <2>2, <3>1
      <3> QED BY <3>1, <3>2
    <2>4. Len(high) = Len(doc) - k
      BY <1>1, <2>2
    <2> QED BY <2>2, <2>3, <2>4
  <1>4. RemoveBlock(doc, n) = low \o high
    BY DEF RemoveBlock, RemoveAt, k
  <1> HIDE DEF low, high
  <1>5. /\ low \o high \in Seq(Block) /\ Len(low \o high) = Len(low) + Len(high)
        /\ \A i \in 1..(Len(low) + Len(high)) :
              (low \o high)[i] = IF i <= Len(low) THEN low[i] ELSE high[i - Len(low)]
    BY <1>2, <1>3, ConcatProperties
  <1>6. Len(low \o high) = Len(doc) - 1
    BY <1>1, <1>2, <1>3, <1>5
  <1>7. ASSUME NEW i \in 1..(Len(doc) - 1)
        PROVE  (low \o high)[i] = IF i < k THEN doc[i] ELSE doc[i + 1]
    <2>1. CASE i < k
      BY <1>1, <1>2, <1>3, <1>5, <2>1
    <2>2. CASE ~(i < k)
      <3>1. i - (k - 1) \in 1..(Len(doc) - k) /\ k + (i - (k - 1)) = i + 1 /\ ~(i <= k - 1)
        BY <1>1, <2>2
      <3>2. (low \o high)[i] = high[i - (k - 1)]
        BY <1>1, <1>2, <1>3, <1>5, <3>1
      <3> QED BY <1>3, <2>2, <3>1, <3>2
    <2> QED BY <2>1, <2>2
  <1> QED BY <1>4, <1>5, <1>6, <1>7 DEF k, Docs

LEMMA CommandIs ==
    ASSUME NEW c \in Commands
    PROVE  /\ c.kind \in {"declare", "remove", "enable"} /\ c.name \in Names /\ c.says \in Says
           /\ c.kind = "enable" => c.says["enabled"] \in Values
  BY CommandsAssumption DEF Command, Says, Fields

LEMMA AppliedIsADoc ==
    ASSUME NEW doc \in Docs, NEW c \in Commands, Applies(doc, c)
    PROVE  Applied(doc, c) \in Docs
  <1>1. CASE c.kind = "declare"
    <2>1. Declare(doc, c.name, c.says) \in Docs
      BY CommandIs, NewBlockIs, DeclaredBlockIs
    <2> QED BY <1>1, <2>1 DEF Applied
  <1>2. CASE c.kind = "remove"
    <2>1. RemoveBlock(doc, c.name) \in Docs
      BY <1>2, RemovedBlockIs DEF Applies
    <2> QED BY <1>2, <2>1 DEF Applied
  <1>3. CASE c.kind = "enable"
    <2>1. SetEnabled(doc, c.name, c.says["enabled"]) \in Docs
      BY <1>3, CommandIs, EnabledBlockIs DEF Applies
    <2> QED BY <1>3, <2>1 DEF Applied
  <1> QED BY <1>1, <1>2, <1>3, CommandIs

----------------------------------------------------------------------------
\* The types, and what is known of a command: what it has validated is what it was
\* asked to make of what it read, and its report compares the two.
Followed(e) ==
    /\ pc[e] \in {"create", "write", "rename", "done"} =>
         /\ Applies(seen[e], command[e]) /\ draft[e] = Result(e) /\ Valid(draft[e])
    /\ pc[e] = "done" => changed[e] = Difference(seen[e], draft[e])
FollowInv == TypeOK /\ \A e \in Editors : Followed(e)

LEMMA FollowInit == Init => FollowInv
  <1> SUFFICES ASSUME Init PROVE FollowInv
    OBVIOUS
  <1>1. <<>> \in Docs /\ 0 \in 0..MaxEdits /\ 0 \in 0..MaxEvents
    BY BoundsAssumption DEF Docs
  <1>2. TypeOK
    BY <1>1, EditorsAssumption DEF Init, TypeOK, Busy
  <1> QED BY <1>2 DEF Init, FollowInv, Followed

\* A step of one command, which leaves the others as they were.
LEMMA FollowOwn ==
    ASSUME FollowInv, NEW e \in Editors, NEW to \in {"idle", "done"} \cup Busy, Goes(e, to),
           command' = [command EXCEPT ![e] = command'[e]], command'[e] \in Commands \cup {None},
           seen' = [seen EXCEPT ![e] = seen'[e]], seen'[e] \in Docs,
           draft' = [draft EXCEPT ![e] = draft'[e]], draft'[e] \in Docs,
           temp' = [temp EXCEPT ![e] = temp'[e]], temp'[e] \in Docs,
           changed' = [changed EXCEPT ![e] = changed'[e]], changed'[e] \in SUBSET Names,
           crossed' \in [Editors -> BOOLEAN],
           file' \in Docs, author' \in Editors \cup {Hand},
           edits' \in 0..MaxEdits, events' \in 0..MaxEvents,
           to # "idle" => command'[e] # None,
           to \in {"create", "write", "rename", "done"} =>
               /\ Applies(seen'[e], command'[e]) /\ draft'[e] = Applied(seen'[e], command'[e])
               /\ Valid(draft'[e]),
           to = "done" => changed'[e] = Difference(seen'[e], draft'[e])
    PROVE  FollowInv'
  <1>1. /\ pc' = [pc EXCEPT ![e] = to] /\ pc'[e] = to
        /\ \A x \in Editors \ {e} : pc'[x] = pc[x]
    BY DEF Goes, FollowInv, TypeOK
  <1>2. \A x \in Editors \ {e} : /\ command'[x] = command[x] /\ seen'[x] = seen[x]
                                 /\ draft'[x] = draft[x] /\ changed'[x] = changed[x]
    BY DEF FollowInv, TypeOK
  <1>3. pc' \in [Editors -> {"idle", "done"} \cup Busy]
    BY <1>1 DEF FollowInv, TypeOK
  <1>4. /\ command' \in [Editors -> Commands \cup {None}]
        /\ seen' \in [Editors -> Docs] /\ draft' \in [Editors -> Docs] /\ temp' \in [Editors -> Docs]
        /\ changed' \in [Editors -> SUBSET Names]
    BY DEF FollowInv, TypeOK
  <1>5. \A x \in Editors : pc'[x] \in Busy \cup {"done"} => command'[x] # None
    <2>1. "idle" \notin Busy \cup {"done"}
      BY DEF Busy
    <2> QED BY <1>1, <1>2, <2>1 DEF FollowInv, TypeOK
  <1>6. TypeOK'
    BY <1>3, <1>4, <1>5 DEF TypeOK
  <1>7. Followed(e)'
    BY <1>1 DEF Followed, Result
  <1>8. \A x \in Editors \ {e} : Followed(x)'
    BY <1>1, <1>2 DEF FollowInv, Followed, Result
  <1> QED BY <1>6, <1>7, <1>8 DEF FollowInv

LEMMA FollowTypes ==
    ASSUME FollowInv, NEW e \in Editors
    PROVE  /\ command = [command EXCEPT ![e] = command[e]] /\ command[e] \in Commands \cup {None}
           /\ seen = [seen EXCEPT ![e] = seen[e]] /\ seen[e] \in Docs
           /\ draft = [draft EXCEPT ![e] = draft[e]] /\ draft[e] \in Docs
           /\ temp = [temp EXCEPT ![e] = temp[e]] /\ temp[e] \in Docs
           /\ changed = [changed EXCEPT ![e] = changed[e]] /\ changed[e] \in SUBSET Names
           /\ pc[e] \in Busy \cup {"done"} => command[e] # None
           /\ crossed \in [Editors -> BOOLEAN] /\ [crossed EXCEPT ![e] = FALSE] \in [Editors -> BOOLEAN]
           /\ file \in Docs /\ author \in Editors \cup {Hand}
           /\ edits \in 0..MaxEdits /\ events \in 0..MaxEvents
           /\ <<>> \in Docs /\ {} \in SUBSET Names
  <1>1. <<>> \in Docs
    BY DEF Docs
  <1>2. [crossed EXCEPT ![e] = FALSE] \in [Editors -> BOOLEAN]
    BY Zenon DEF FollowInv, TypeOK
  <1> QED BY <1>1, <1>2 DEF FollowInv, TypeOK

LEMMA FollowGone ==
    ASSUME FollowInv, NEW e \in Editors,
           \/ \E c \in Commands : Read(e, c)
           \/ ReadFails(e) \/ Refuse(e) \/ Abandon(e)
    PROVE  FollowInv'
  <1>1. /\ edits' \in 0..MaxEdits /\ events' \in 0..MaxEvents /\ UNCHANGED <<file, author>>
        /\ draft' = [draft EXCEPT ![e] = <<>>] /\ temp' = [temp EXCEPT ![e] = <<>>]
        /\ changed' = [changed EXCEPT ![e] = {}] /\ crossed' = [crossed EXCEPT ![e] = FALSE]
    BY FollowTypes, BoundsAssumption DEF Read, ReadFails, Refuse, Abandon, Event, Gone
  <1>2. draft'[e] = <<>> /\ temp'[e] = <<>> /\ changed'[e] = {}
    BY <1>1 DEF FollowInv, TypeOK
  <1>3. CASE Gone(e)
    <2>1. /\ Goes(e, "idle") /\ command' = [command EXCEPT ![e] = None] /\ command'[e] = None
          /\ seen' = [seen EXCEPT ![e] = <<>>] /\ seen'[e] = <<>>
      BY <1>3 DEF Gone, FollowInv, TypeOK
    <2> QED BY <1>1, <1>2, <2>1, FollowTypes, FollowOwn DEF Busy
  <1>4. ASSUME NEW c \in Commands, Read(e, c) PROVE FollowInv'
    <2>1. /\ Goes(e, "change") /\ command' = [command EXCEPT ![e] = c] /\ command'[e] = c
          /\ seen' = [seen EXCEPT ![e] = file] /\ seen'[e] = file
      BY <1>4 DEF Read, FollowInv, TypeOK
    <2>2. c # None
      BY CommandsAssumption
    <2> QED BY <1>1, <1>2, <2>1, <2>2, FollowTypes, FollowOwn DEF Busy
  <1> QED BY <1>3, <1>4 DEF ReadFails, Refuse, Abandon

LEMMA FollowWrites ==
    ASSUME FollowInv, EditInv, NEW e \in Editors,
           Change(e) \/ CreateTemp(e) \/ WriteTemp(e) \/ Rename(e)
    PROVE  FollowInv'
  <1>1. command[e] # None /\ command[e] \in Commands
    BY FollowTypes DEF Change, CreateTemp, WriteTemp, Rename, Busy
  <1>2. CASE Change(e)
    <2>1. /\ Goes(e, "create") /\ draft' = [draft EXCEPT ![e] = Result(e)] /\ draft'[e] = Result(e)
          /\ UNCHANGED <<file, author, command, seen, temp, changed, crossed, edits, events>>
          /\ Applies(seen[e], command[e]) /\ Valid(Result(e))
      BY <1>2 DEF Change, Accepted, FollowInv, TypeOK
    <2>2. Result(e) \in Docs
      BY <1>1, <2>1, FollowTypes, AppliedIsADoc DEF Result
    <2> QED BY <1>1, <2>1, <2>2, FollowTypes, FollowOwn DEF Busy, Result
  <1>3. CASE CreateTemp(e) \/ WriteTemp(e)
    <2>1. Applies(seen[e], command[e]) /\ draft[e] = Result(e) /\ Valid(draft[e])
      BY <1>3 DEF CreateTemp, WriteTemp, FollowInv, Followed
    <2>2. PICK to \in {"write", "rename"} : Goes(e, to)
      BY <1>3 DEF CreateTemp, WriteTemp
    <2>3. PICK t \in Docs : temp' = [temp EXCEPT ![e] = t]
      BY <1>3, FollowTypes DEF CreateTemp, WriteTemp
    <2>4. /\ UNCHANGED <<file, author, command, seen, draft, changed, crossed, edits, events>>
          /\ temp'[e] = t
      BY <1>3, <2>3 DEF CreateTemp, WriteTemp, FollowInv, TypeOK
    <2> QED BY <1>1, <2>1, <2>2, <2>3, <2>4, FollowTypes, FollowOwn DEF Busy, Result
  <1>4. CASE Rename(e)
    <2>1. /\ Applies(seen[e], command[e]) /\ draft[e] = Result(e) /\ Valid(draft[e])
          /\ Difference(seen[e], draft[e]) \in SUBSET Names
      BY <1>4 DEF Rename, FollowInv, Followed, Difference
    <2>2. /\ Goes(e, "done") /\ file' = temp[e] /\ author' = e
          /\ changed' = [changed EXCEPT ![e] = Difference(seen[e], draft[e])]
          /\ changed'[e] = Difference(seen[e], draft[e])
          /\ UNCHANGED <<command, seen, draft, temp, edits, events>>
      BY <1>4 DEF Rename, FollowInv, TypeOK
    <2>3. crossed' \in [Editors -> BOOLEAN]
      <3>1. \A x \in Editors : (IF x = e THEN crossed[e] ELSE TRUE) \in BOOLEAN
        BY FollowTypes, Zenon
      <3> QED BY <1>4, <3>1, Zenon DEF Rename
    <2> QED BY <1>1, <2>1, <2>2, <2>3, FollowTypes, FollowOwn DEF Result
  <1> QED BY <1>2, <1>3, <1>4

LEMMA FollowStep == FollowInv /\ EditInv /\ [Next]_vars => FollowInv'
  <1> SUFFICES ASSUME FollowInv, EditInv, [Next]_vars PROVE FollowInv'
    OBVIOUS
  <1>1. ASSUME NEW doc \in Written, Save(doc) PROVE FollowInv'
    <2>1. crossed' \in [Editors -> BOOLEAN]
      BY <1>1, Zenon DEF Save
    <2>2. /\ file' \in Docs /\ author' \in Editors \cup {Hand} /\ events' \in 0..MaxEvents
          /\ UNCHANGED <<pc, command, seen, draft, temp, changed, edits>>
      BY <1>1, EditorsAssumption, BoundsAssumption DEF Save, Event, FollowInv, TypeOK
    <2> QED BY <2>1, <2>2 DEF FollowInv, TypeOK, Followed, Result
  <1>2. CASE UNCHANGED vars
    BY <1>2 DEF vars, editor, FollowInv, TypeOK, Followed, Result
  <1> QED BY <1>1, <1>2, FollowGone, FollowWrites DEF Next

LEMMA FollowInvariant == Spec => [](FollowInv /\ EditInv)
  BY FollowInit, FollowStep, EditInit, EditStep, PTL DEF Spec

\* Whatever is edited, the file and all that a command holds are documents.
THEOREM EditingIsTyped == Spec => []TypeOK
  <1>1. FollowInv => TypeOK
    BY DEF FollowInv
  <1> QED BY <1>1, FollowInvariant, PTL

----------------------------------------------------------------------------
\* What an edit does to the meaning of the document.
Sound(doc) == doc \in Docs /\ Parses(doc) /\ Grounded(doc)

LEMMA MeaningIs ==
    ASSUME NEW doc, Sound(doc), NEW i \in 1..Len(doc)
    PROVE  /\ Meanings(doc)[i] =
                [f \in Fields |-> IF Stated(doc)[i][f] = None THEN Default[f] ELSE Stated(doc)[i][f]]
           /\ \A f \in Fields : Stated(doc)[i][f] =
                IF doc[i].says[f] # None THEN doc[i].says[f]
                ELSE IF Merges(doc, i) THEN Stated(doc)[Base(doc, i)][f]
                ELSE None
  <1>1. Stated(doc)[i] = Filled(doc, Stated(doc), i)
    BY StatedIs DEF Sound
  <1>2. Meanings(doc) = [j \in 1..Len(doc) |->
            [f \in Fields |-> IF Stated(doc)[j][f] = None THEN Default[f] ELSE Stated(doc)[j][f]]]
    BY DEF Meanings
  <1>3. Filled(doc, Stated(doc), i) =
            [f \in Fields |-> IF doc[i].says[f] # None THEN doc[i].says[f]
                              ELSE IF Merges(doc, i) THEN Stated(doc)[Base(doc, i)][f]
                              ELSE None]
    BY DEF Filled
  <1> QED BY <1>1, <1>2, <1>3

LEMMA StatedField ==
    ASSUME NEW doc, Sound(doc), NEW i \in 1..Len(doc), NEW f \in Fields
    PROVE  Stated(doc)[i][f] =
                IF doc[i].says[f] # None THEN doc[i].says[f]
                ELSE IF Merges(doc, i) THEN Stated(doc)[Base(doc, i)][f]
                ELSE None
  BY MeaningIs

\* The other blocks stand when they are where they were.
LEMMA KeptInPlace ==
    ASSUME NEW old, NEW new, NEW n, Others(new, n) = Others(old, n),
           \A i \in Others(old, n) : new[i] = old[i]
    PROVE  Kept(old, new, n)
  <1> DEFINE f == [i \in Others(old, n) |-> i]
  <1>1. f \in [Others(old, n) -> Others(new, n)] /\ \A i \in Others(old, n) : f[i] = i
    OBVIOUS
  <1> QED BY <1>1 DEF Kept

LEMMA DeclareHolds ==
    ASSUME NEW doc \in Docs, NEW n \in Names, NEW says \in Says, Sound(Declare(doc, n, says))
    PROVE  LET new == Declare(doc, n, says)
           IN  /\ Kept(doc, new, n)
               /\ Meanings(new)[IndexOf(new, n)] =
                    [f \in Fields |-> IF says[f] = None THEN Default[f] ELSE says[f]]
  <1> DEFINE new == Declare(doc, n, says)
             k == IndexOf(new, n)
  <1>1. Len(doc) \in Nat /\ Sound(new) /\ new \in Docs
    BY DocIs DEF Sound
  <1>2. Kept(doc, new, n) /\ Called(new, n) # {} /\ new[k].says = says /\ new[k].merge = None
    <2>1. CASE Called(doc, n) = {}
      <3>1. /\ Len(new) = Len(doc) + 1 /\ \A i \in 1..Len(doc) : new[i] = doc[i]
            /\ new[Len(doc) + 1] = [name |-> n, anchor |-> None, merge |-> None, says |-> says]
        BY <2>1, NewBlockIs
      <3> HIDE DEF new
      <3>2. /\ Called(new, n) = {Len(doc) + 1}
            /\ Others(new, n) = Others(doc, n) /\ Others(doc, n) = 1..Len(doc)
        BY <1>1, <2>1, <3>1 DEF Called, Others
      <3>3. k = Len(doc) + 1
        BY <1>1, <3>2, IndexIs
      <3> QED BY <3>1, <3>2, <3>3, KeptInPlace
    <2>2. CASE Called(doc, n) # {}
      <3> DEFINE j == IndexOf(doc, n)
      <3>1. /\ Len(new) = Len(doc) /\ new[j] = [doc[j] EXCEPT !.merge = None, !.says = says]
            /\ \A i \in (1..Len(doc)) \ {j} : new[i] = doc[i]
            /\ \A m : Called(new, m) = Called(doc, m)
        <4>1. LET d == Declare(doc, n, says)
                  l == IndexOf(doc, n)
              IN  /\ d \in Docs /\ Len(d) = Len(doc)
                  /\ d[l] = [doc[l] EXCEPT !.merge = None, !.says = says]
                  /\ \A i \in (1..Len(doc)) \ {l} : d[i] = doc[i]
                  /\ \A m : Called(d, m) = Called(doc, m)
          BY <2>2, DeclaredBlockIs
        <4> QED BY <4>1, Zenon
      <3>2. IndexOf(doc, n) \in Called(doc, n)
        BY <2>2, IndexIs
      <3> HIDE DEF new
      <3>3. k = IndexOf(doc, n)
        BY <3>1 DEF IndexOf
      <3>4. doc[k] \in Block
        BY <3>2, <3>3, DocIs DEF Called
      <3>5. new[k].says = says /\ new[k].merge = None
        BY <3>1, <3>3, <3>4 DEF Block
      <3>6. Kept(doc, new, n)
        BY <3>1, <3>2, KeptInPlace DEF Others
      <3> QED BY <2>2, <3>1, <3>5, <3>6
    <2> QED BY <2>1, <2>2
  <1> HIDE DEF new
  <1>3. k \in 1..Len(new)
    BY <1>1, <1>2, IndexIs DEF Called
  <1>4. ASSUME NEW f \in Fields PROVE Stated(new)[k][f] = says[f]
    <2>1. Stated(new)[k][f] =
                IF new[k].says[f] # None THEN new[k].says[f]
                ELSE IF Merges(new, k) THEN Stated(new)[Base(new, k)][f]
                ELSE None
      BY <1>1, <1>3, MeaningIs
    <2> QED BY <1>2, <2>1 DEF Merges
  <1>5. Meanings(new)[k] =
            [f \in Fields |-> IF Stated(new)[k][f] = None THEN Default[f] ELSE Stated(new)[k][f]]
    BY <1>1, <1>3, MeaningIs
  <1> QED BY <1>2, <1>4, <1>5 DEF new

LEMMA RemoveHolds ==
    ASSUME NEW doc \in Docs, NEW n, Called(doc, n) # {}
    PROVE  LET new == RemoveBlock(doc, n)
           IN  /\ Kept(doc, new, n)
               /\ Alone(doc, n) => Called(new, n) = {}
  <1> DEFINE new == RemoveBlock(doc, n)
             k == IndexOf(doc, n)
             f == [i \in Others(doc, n) |-> IF i < k THEN i ELSE i - 1]
  <1>1. /\ Len(doc) \in Nat /\ k \in 1..Len(doc) /\ k \in Called(doc, n)
        /\ Len(new) = Len(doc) - 1
        /\ \A i \in 1..Len(new) : new[i] = IF i < k THEN doc[i] ELSE doc[i + 1]
    BY DocIs, IndexIs, RemovedBlockIs DEF Called
  <1> HIDE DEF new, k
  <1>2. ASSUME NEW i \in Others(doc, n)
        PROVE  f[i] \in Others(new, n) /\ new[f[i]] = doc[i] /\ i # k /\ i \in 1..Len(doc)
    <2>1. i \in 1..Len(doc) /\ i # k /\ doc[i].name # n
      BY <1>1 DEF Others, Called
    <2>2. f[i] \in 1..Len(new) /\ f[i] = IF i < k THEN i ELSE i - 1
      BY <1>1, <2>1
    <2> HIDE DEF f
    <2>3. new[f[i]] = doc[i]
      BY <1>1, <2>1, <2>2
    <2> QED BY <2>1, <2>2, <2>3 DEF Others, Called
  <1>3. ASSUME NEW j \in Others(new, n) PROVE \E i \in Others(doc, n) : f[i] = j
    <2> DEFINE i == IF j < k THEN j ELSE j + 1
    <2>1. j \in 1..Len(new) /\ new[j].name # n
      BY DEF Others, Called
    <2>2. i \in 1..Len(doc) /\ doc[i] = new[j] /\ (IF i < k THEN i ELSE i - 1) = j
      BY <1>1, <2>1
    <2>3. i \in Others(doc, n)
      BY <2>1, <2>2 DEF Others, Called
    <2> QED BY <2>2, <2>3
  <1>4. \A i, j \in Others(doc, n) : i < j => f[i] < f[j]
    BY <1>1, <1>2
  <1>5. Kept(doc, new, n)
    <2>1. f \in [Others(doc, n) -> Others(new, n)]
      BY <1>2
    <2> HIDE DEF f
    <2> QED BY <1>2, <1>3, <1>4, <2>1 DEF Kept
  <1>6. ASSUME Alone(doc, n) PROVE Called(new, n) = {}
    <2>1. IsFiniteSet(1..Len(doc)) /\ Called(doc, n) \in SUBSET (1..Len(doc))
      BY <1>1, FS_Interval DEF Called
    <2>2. IsFiniteSet(Called(doc, n)) /\ Cardinality(Called(doc, n)) \in Nat
      BY <2>1, FS_Subset, FS_CardinalityType
    <2>3. Cardinality(Called(doc, n)) = 1
      BY <1>1, <1>6, <2>2, FS_EmptySet DEF Alone
    <2>4. Called(doc, n) = {k}
      BY <1>1, <2>2, <2>3, FS_Singleton
    <2> SUFFICES ASSUME NEW j \in Called(new, n) PROVE FALSE
      OBVIOUS
    <2>5. j \in 1..Len(new) /\ new[j].name = n
      BY DEF Called
    <2>6. j < k => j \in Called(doc, n)
      BY <1>1, <2>5 DEF Called
    <2>7. ~(j < k) => j + 1 \in Called(doc, n)
      BY <1>1, <2>5 DEF Called
    <2> QED BY <1>1, <2>4, <2>5, <2>6, <2>7
  <1> QED BY <1>5, <1>6 DEF new

\* A field that is said, or left out, where it was means what it meant.
LEMMA SameMeaning ==
    ASSUME NEW old, NEW new, Sound(old), Sound(new), Len(new) = Len(old), NEW F \in Fields,
           \A i \in 1..Len(old) : /\ new[i].anchor = old[i].anchor /\ new[i].merge = old[i].merge
                                  /\ new[i].says[F] = old[i].says[F]
    PROVE  \A i \in 1..Len(old) : Meanings(new)[i][F] = Meanings(old)[i][F]
  <1>1. Len(old) \in Nat
    BY DocIs DEF Sound
  <1>2. ASSUME NEW i \in 1..Len(old)
        PROVE  Base(new, i) = Base(old, i) /\ (Merges(new, i) <=> Merges(old, i))
    <2>1. Carriers(new, i) = Carriers(old, i)
      <3>1. \A j \in 1..i : j \in 1..Len(old)
        BY <1>1
      <3> QED BY <3>1 DEF Carriers
    <2> QED BY <2>1 DEF Base, Merges
  <1> DEFINE I == {i \in 1..Len(old) : Stated(new)[i][F] # Stated(old)[i][F]}
  <1>3. I = {}
    <2> SUFFICES ASSUME I # {} PROVE FALSE
      OBVIOUS
    <2>1. PICK m \in I : \A j \in I : m <= j
      BY <1>1, SmallestOf
    <2>2. m \in 1..Len(old) /\ m \in 1..Len(new)
      OBVIOUS
    <2>3. /\ Stated(old)[m][F] =
               IF old[m].says[F] # None THEN old[m].says[F]
               ELSE IF Merges(old, m) THEN Stated(old)[Base(old, m)][F] ELSE None
          /\ Stated(new)[m][F] =
               IF new[m].says[F] # None THEN new[m].says[F]
               ELSE IF Merges(new, m) THEN Stated(new)[Base(new, m)][F] ELSE None
      BY <2>2, StatedField
    <2>4. Merges(old, m) => Base(old, m) \in (1..Len(old)) \ I
      <3>1. Merges(old, m) => Base(old, m) \in 1..(m - 1) /\ Base(old, m) \in 1..Len(old)
        BY <2>2, BaseBefore DEF Sound
      <3> QED BY <1>1, <2>1, <2>2, <3>1
    <2>5. Merges(old, m) => Stated(new)[Base(old, m)][F] = Stated(old)[Base(old, m)][F]
      BY <2>4
    <2>6. Stated(new)[m][F] = Stated(old)[m][F]
      BY <1>2, <2>2, <2>3, <2>5
    <2> QED BY <2>6
  <1>4. ASSUME NEW i \in 1..Len(old) PROVE Meanings(new)[i][F] = Meanings(old)[i][F]
    <2>1. /\ Meanings(old)[i] =
               [f \in Fields |-> IF Stated(old)[i][f] = None THEN Default[f] ELSE Stated(old)[i][f]]
          /\ Meanings(new)[i] =
               [f \in Fields |-> IF Stated(new)[i][f] = None THEN Default[f] ELSE Stated(new)[i][f]]
      BY MeaningIs
    <2> QED BY <1>3, <2>1
  <1> QED BY <1>4

LEMMA EnableHolds ==
    ASSUME NEW doc \in Docs, NEW n \in Names, NEW on \in Values, Called(doc, n) # {},
           Sound(SetEnabled(doc, n, on))
    PROVE  LET new == SetEnabled(doc, n, on)
               k == IndexOf(new, n)
           IN  /\ Kept(doc, new, n) /\ k = IndexOf(doc, n)
               /\ Meanings(new)[k]["enabled"] = on
               /\ Sound(doc) => \A f \in Fields \ {"enabled"} :
                                   Meanings(new)[k][f] = Meanings(doc)[k][f]
  <1> DEFINE new == SetEnabled(doc, n, on)
             k == IndexOf(doc, n)
  <1>1. /\ Sound(new) /\ Len(new) = Len(doc)
        /\ new[k] = [doc[k] EXCEPT !.says = [@ EXCEPT !["enabled"] = on]]
        /\ \A i \in (1..Len(doc)) \ {k} : new[i] = doc[i]
        /\ \A m : Called(new, m) = Called(doc, m)
    <2>1. LET d == SetEnabled(doc, n, on)
              l == IndexOf(doc, n)
          IN  /\ d \in Docs /\ Len(d) = Len(doc)
              /\ d[l] = [doc[l] EXCEPT !.says = [@ EXCEPT !["enabled"] = on]]
              /\ \A i \in (1..Len(doc)) \ {l} : d[i] = doc[i]
              /\ \A m : Called(d, m) = Called(doc, m)
      BY EnabledBlockIs
    <2> QED BY <2>1, Zenon
  <1>2. k \in 1..Len(doc) /\ k \in Called(doc, n)
    BY IndexIs DEF Called
  <1> HIDE DEF new
  <1>3. IndexOf(new, n) = k
    BY <1>1 DEF IndexOf
  <1> HIDE DEF k
  <1>4. /\ new[k].anchor = doc[k].anchor /\ new[k].merge = doc[k].merge
        /\ new[k].says["enabled"] = on
        /\ \A f \in Fields \ {"enabled"} : new[k].says[f] = doc[k].says[f]
    <2>1. doc[k] \in Block /\ doc[k].says \in [Fields -> Values \cup {None}]
      BY <1>2, DocIs DEF Says
    <2>2. /\ new[k].anchor = doc[k].anchor /\ new[k].merge = doc[k].merge
          /\ new[k].says = [doc[k].says EXCEPT !["enabled"] = on]
      BY <1>1, <2>1 DEF Block
    <2> QED BY <2>1, <2>2 DEF Fields
  <1>5. Kept(doc, new, n)
    BY <1>1, <1>2, KeptInPlace DEF Others
  <1>6. Meanings(new)[k]["enabled"] = on
    <2>1. "enabled" \in Fields /\ on # None /\ k \in 1..Len(new)
      BY <1>1, <1>2, ValuesAssumption DEF Fields
    <2>2. \A f \in Fields : Stated(new)[k][f] =
              IF new[k].says[f] # None THEN new[k].says[f]
              ELSE IF Merges(new, k) THEN Stated(new)[Base(new, k)][f] ELSE None
      <3>1. Sound(new)
        BY <1>1
      <3> QED BY <2>1, <3>1, MeaningIs
    <2>3. Meanings(new)[k] =
            [f \in Fields |-> IF Stated(new)[k][f] = None THEN Default[f] ELSE Stated(new)[k][f]]
      BY <1>1, <2>1, MeaningIs
    <2> QED BY <1>4, <2>1, <2>2, <2>3
  <1>7. ASSUME Sound(doc), NEW f \in Fields \ {"enabled"}
        PROVE  Meanings(new)[k][f] = Meanings(doc)[k][f]
    <2>1. \A i \in 1..Len(doc) : /\ new[i].anchor = doc[i].anchor /\ new[i].merge = doc[i].merge
                                 /\ new[i].says[f] = doc[i].says[f]
      BY <1>1, <1>4, <1>7
    <2> QED BY <1>1, <1>2, <1>7, <2>1, SameMeaning
  <1> QED BY <1>3, <1>5, <1>6, <1>7 DEF new, k

LEMMA ValidIsSound == ASSUME NEW doc \in Docs, Valid(doc) PROVE Sound(doc)
  BY DEF Valid, Sound

\* What is known of a command whose edit stands.
LEMMA StandingIs ==
    ASSUME FollowInv, EditInv, NEW e \in Editors, Standing(e)
    PROVE  /\ seen[e] \in Docs /\ file \in Docs /\ command[e] \in Commands
           /\ Applies(seen[e], command[e]) /\ file = Applied(seen[e], command[e])
           /\ Valid(file) /\ Sound(file) /\ changed[e] = Difference(seen[e], file)
  <1>1. pc[e] = "done" /\ author = e /\ file = draft[e]
    BY DEF Standing, EditInv, WrittenIsValid
  <1>2. command[e] \in Commands
    BY <1>1 DEF FollowInv, TypeOK
  <1> QED BY <1>1, <1>2, ValidIsSound DEF FollowInv, TypeOK, Followed, Result

\* An edit that no other crosses does what it says, whatever the block said and
\* inherited before, and every other block stands as it was.
THEOREM EditsTakeHold == Spec => []EditTakesHold
  <1>1. FollowInv /\ EditInv => EditTakesHold
    <2> SUFFICES ASSUME FollowInv, EditInv, NEW e \in Editors, Standing(e)
                 PROVE  LET c == command[e]
                            n == c.name
                        IN  /\ Kept(seen[e], file, n)
                            /\ c.kind = "declare" =>
                                 Now(n) = [f \in Fields |-> IF c.says[f] = None THEN Default[f]
                                                            ELSE c.says[f]]
                            /\ c.kind = "remove" /\ Alone(seen[e], n) => Called(file, n) = {}
                            /\ c.kind = "enable" =>
                                 /\ Now(n)["enabled"] = c.says["enabled"]
                                 /\ Valid(seen[e]) => \A f \in Fields \ {"enabled"} :
                                                         Now(n)[f] = Before(e, n)[f]
      BY DEF EditTakesHold
    <2> DEFINE c == command[e]
               n == c.name
    <2>1. /\ seen[e] \in Docs /\ c \in Commands /\ Applies(seen[e], c)
          /\ file = Applied(seen[e], c) /\ Sound(file)
      BY StandingIs
    <2>2. /\ c.kind \in {"declare", "remove", "enable"} /\ n \in Names /\ c.says \in Says
          /\ c.kind = "enable" => c.says["enabled"] \in Values
      BY <2>1, CommandIs
    <2>3. CASE c.kind = "declare"
      <3>1. file = Declare(seen[e], n, c.says)
        BY <2>1, <2>3 DEF Applied
      <3>2. /\ Kept(seen[e], file, n)
            /\ Meanings(file)[IndexOf(file, n)] =
                 [f \in Fields |-> IF c.says[f] = None THEN Default[f] ELSE c.says[f]]
        BY <2>1, <2>2, <3>1, DeclareHolds
      <3> QED BY <2>3, <3>2 DEF Now
    <2>4. CASE c.kind = "remove"
      <3>1. file = RemoveBlock(seen[e], n) /\ Called(seen[e], n) # {}
        BY <2>1, <2>4 DEF Applied, Applies
      <3>2. Kept(seen[e], file, n) /\ (Alone(seen[e], n) => Called(file, n) = {})
        BY <2>1, <3>1, RemoveHolds
      <3> QED BY <2>4, <3>2
    <2>5. CASE c.kind = "enable"
      <3>1. file = SetEnabled(seen[e], n, c.says["enabled"]) /\ Called(seen[e], n) # {}
        BY <2>1, <2>5 DEF Applied, Applies
      <3>2. /\ Kept(seen[e], file, n) /\ IndexOf(file, n) = IndexOf(seen[e], n)
            /\ Meanings(file)[IndexOf(file, n)]["enabled"] = c.says["enabled"]
            /\ Sound(seen[e]) => \A f \in Fields \ {"enabled"} :
                  Meanings(file)[IndexOf(file, n)][f] = Meanings(seen[e])[IndexOf(file, n)][f]
        BY <2>1, <2>2, <2>5, <3>1, EnableHolds
      <3>3. Valid(seen[e]) => Sound(seen[e])
        BY <2>1, ValidIsSound
      <3> QED BY <2>5, <3>2, <3>3 DEF Now, Before
    <2> QED BY <2>2, <2>3, <2>4, <2>5
  <1> QED BY <1>1, FollowInvariant, PTL

----------------------------------------------------------------------------
\* What the report of an edit is worth.

\* In a valid document no two blocks have one target.
LEMMA ValidTargets ==
    ASSUME NEW doc \in Docs, Valid(doc)
    PROVE  /\ \A i \in 1..Len(doc) : Meanings(doc)[i]["target"] = Stated(doc)[i]["target"]
           /\ \A i, j \in 1..Len(doc) :
                 i # j => Meanings(doc)[i]["target"] # Meanings(doc)[j]["target"]
  <1>1. Sound(doc) /\ "target" \in Fields /\ Default["target"] = None
    BY ValidIsSound, ValuesAssumption DEF Fields
  <1>2. /\ \A i \in 1..Len(doc) : Meanings(doc)[i]["target"] # None
        /\ \A i, j \in 1..Len(doc) :
              i # j => ~Overlap(Meanings(doc)[i]["target"], Meanings(doc)[j]["target"])
    BY DEF Valid
  <1>3. ASSUME NEW i \in 1..Len(doc)
        PROVE  Meanings(doc)[i]["target"] = Stated(doc)[i]["target"]
    <2>1. Meanings(doc)[i] =
            [f \in Fields |-> IF Stated(doc)[i][f] = None THEN Default[f] ELSE Stated(doc)[i][f]]
      BY <1>1, MeaningIs
    <2> QED BY <1>1, <1>2, <2>1
  <1> QED BY <1>2, <1>3 DEF Overlap

\* Where a block stands once the one at k is removed.
Shifted(i, k) == IF i < k THEN i ELSE i - 1

LEMMA ShiftedIs ==
    ASSUME NEW doc \in Docs, NEW n, Called(doc, n) # {}, NEW i \in 1..Len(doc), i # IndexOf(doc, n)
    PROVE  /\ Shifted(i, IndexOf(doc, n)) \in 1..Len(RemoveBlock(doc, n))
           /\ RemoveBlock(doc, n)[Shifted(i, IndexOf(doc, n))] = doc[i]
           /\ \A j \in 1..Len(doc) : j # i /\ j # IndexOf(doc, n) =>
                 Shifted(j, IndexOf(doc, n)) # Shifted(i, IndexOf(doc, n))
  <1> DEFINE new == RemoveBlock(doc, n)
             k == IndexOf(doc, n)
  <1>1. /\ Len(doc) \in Nat /\ k \in 1..Len(doc) /\ Len(new) = Len(doc) - 1
        /\ \A j \in 1..Len(new) : new[j] = IF j < k THEN doc[j] ELSE doc[j + 1]
    BY DocIs, IndexIs, RemovedBlockIs DEF Called
  <1>2. i # k
    OBVIOUS
  <1> HIDE DEF new, k
  <1>3. /\ Shifted(i, k) \in 1..Len(new) /\ new[Shifted(i, k)] = doc[i]
        /\ \A j \in 1..Len(doc) : j # i /\ j # k => Shifted(j, k) # Shifted(i, k)
    BY <1>1, <1>2 DEF Shifted
  <1> QED BY <1>3 DEF new, k

LEMMA BaseShifts ==
    ASSUME NEW doc \in Docs, NEW n, Called(doc, n) # {}, Sound(doc), Sound(RemoveBlock(doc, n)),
           NEW i \in 1..Len(doc), i # IndexOf(doc, n), Merges(doc, i),
           Base(doc, i) # IndexOf(doc, n)
    PROVE  Base(RemoveBlock(doc, n), Shifted(i, IndexOf(doc, n)))
              = Shifted(Base(doc, i), IndexOf(doc, n))
  <1> DEFINE new == RemoveBlock(doc, n)
             k == IndexOf(doc, n)
             b == Base(doc, i)
             p == Shifted(i, k)
             q == Shifted(b, k)
  <1>1. /\ Len(doc) \in Nat /\ k \in 1..Len(doc) /\ Sound(new) /\ new \in Docs
        /\ Len(new) = Len(doc) - 1
        /\ \A j \in 1..Len(new) : new[j] = IF j < k THEN doc[j] ELSE doc[j + 1]
    BY DocIs, IndexIs, RemovedBlockIs DEF Called, Sound
  <1>2. b \in 1..(i - 1) /\ b \in 1..Len(doc) /\ b \in Carriers(doc, i)
        /\ \A j \in Carriers(doc, i) : b >= j
    BY BaseBefore, BaseIs DEF Sound, Parses
  <1>3. i # k /\ b # k
    OBVIOUS
  <1> HIDE DEF new, k, b
  <1>4. /\ p \in 1..Len(new) /\ new[p] = doc[i]
        /\ q \in 1..p /\ q \in 1..Len(new) /\ new[q] = doc[b]
    BY <1>1, <1>2, <1>3 DEF Shifted
  <1>5. q \in Carriers(new, p)
    BY <1>2, <1>4 DEF Carriers
  <1>6. ASSUME NEW j \in Carriers(new, p) PROVE j <= q
    <2> DEFINE l == IF j < k THEN j ELSE j + 1
    <2>1. j \in 1..p /\ new[j].anchor = new[p].merge /\ j \in 1..Len(new)
      BY <1>1, <1>4 DEF Carriers
    <2>2. l \in 1..i /\ doc[l] = new[j]
      BY <1>1, <1>3, <1>4, <2>1 DEF Shifted
    <2>3. l \in Carriers(doc, i)
      BY <1>4, <2>1, <2>2 DEF Carriers
    <2>4. b >= l
      BY <1>2, <2>3
    <2> QED BY <1>1, <1>2, <1>3, <2>1, <2>4 DEF Shifted
  <1> HIDE DEF p, q
  <1>7. Base(new, p) \in Carriers(new, p) /\ Base(new, p) >= q
    BY <1>1, <1>4, <1>5, BaseIs
  <1>8. Base(new, p) <= q /\ Base(new, p) \in Int /\ q \in Int
    BY <1>4, <1>6, <1>7 DEF Carriers
  <1>9. Base(new, p) = q
    BY <1>7, <1>8
  <1> QED BY <1>9 DEF new, p, q, k, b

\* The removal of a block changes the target of none that has another target.
LEMMA TargetsStay ==
    ASSUME NEW doc \in Docs, NEW n, Called(doc, n) # {}, Sound(doc), Sound(RemoveBlock(doc, n))
    PROVE  \A i \in 1..Len(doc) :
              Stated(doc)[i]["target"] # Stated(doc)[IndexOf(doc, n)]["target"] =>
                 Stated(RemoveBlock(doc, n))[Shifted(i, IndexOf(doc, n))]["target"]
                    = Stated(doc)[i]["target"]
  <1> DEFINE new == RemoveBlock(doc, n)
             k == IndexOf(doc, n)
             D(i) == Stated(doc)[i]["target"]
             E(i) == Stated(new)[i]["target"]
             I == {i \in 1..Len(doc) : D(i) # D(k) /\ E(Shifted(i, k)) # D(i)}
  <1>1. /\ Len(doc) \in Nat /\ k \in 1..Len(doc) /\ Sound(new)
        /\ Len(new) = Len(doc) - 1
        /\ \A j \in 1..Len(new) : new[j] = IF j < k THEN doc[j] ELSE doc[j + 1]
        /\ "target" \in Fields
    BY DocIs, IndexIs, RemovedBlockIs DEF Called, Fields
  <1>2. I = {}
    <2> SUFFICES ASSUME I # {} PROVE FALSE
      OBVIOUS
    <2>1. PICK m \in I : \A j \in I : m <= j
      BY <1>1, SmallestOf
    <2>2. m \in 1..Len(doc) /\ m # k /\ D(m) # D(k) /\ E(Shifted(m, k)) # D(m)
      OBVIOUS
    <2>3. Shifted(m, k) \in 1..Len(new) /\ new[Shifted(m, k)] = doc[m]
      BY <2>2, ShiftedIs
    <2>4. D(m) = IF doc[m].says["target"] # None THEN doc[m].says["target"]
                 ELSE IF Merges(doc, m) THEN D(Base(doc, m)) ELSE None
      BY <1>1, <2>2, StatedField
    <2>5. E(Shifted(m, k)) =
                 IF doc[m].says["target"] # None THEN doc[m].says["target"]
                 ELSE IF Merges(doc, m) THEN E(Base(new, Shifted(m, k))) ELSE None
      <3> DEFINE p == Shifted(m, k)
      <3>1. E(p) = IF new[p].says["target"] # None THEN new[p].says["target"]
                   ELSE IF Merges(new, p) THEN E(Base(new, p)) ELSE None
        BY <1>1, <2>3, StatedField
      <3> QED BY <2>3, <3>1 DEF Merges
    <2>6. doc[m].says["target"] = None /\ Merges(doc, m)
      BY <2>2, <2>4, <2>5
    <2>7. D(m) = D(Base(doc, m)) /\ E(Shifted(m, k)) = E(Base(new, Shifted(m, k)))
      BY <2>4, <2>5, <2>6
    <2>8. Base(doc, m) # k
      BY <2>2, <2>7
    <2>9. Base(new, Shifted(m, k)) = Shifted(Base(doc, m), k)
      BY <2>2, <2>6, <2>8, BaseShifts
    <2>10. Base(doc, m) \in 1..(m - 1) /\ Base(doc, m) \in 1..Len(doc)
      BY <2>2, <2>6, BaseBefore DEF Sound
    <2>11. Base(doc, m) \notin I
      BY <1>1, <2>1, <2>2, <2>10
    <2> QED BY <2>2, <2>7, <2>9, <2>10, <2>11
  <1> QED BY <1>2

\* A command that removes no block leaves every block under its name.
LEMMA InPlace ==
    ASSUME NEW doc \in Docs, NEW c \in Commands, Applies(doc, c), c.kind # "remove", NEW n
    PROVE  Called(doc, n) \subseteq Called(Applied(doc, c), n)
  <1>1. c.name \in Names /\ c.says \in Says /\ Len(doc) \in Nat
    BY CommandIs, DocIs
  <1>2. CASE c.kind = "declare" /\ Called(doc, c.name) = {}
    <2> DEFINE new == Declare(doc, c.name, c.says)
    <2>1. Len(new) = Len(doc) + 1 /\ \A i \in 1..Len(doc) : new[i] = doc[i]
      BY <1>1, <1>2, NewBlockIs
    <2>2. Applied(doc, c) = new
      BY <1>2 DEF Applied
    <2> HIDE DEF new
    <2> QED BY <1>1, <2>1, <2>2 DEF Called
  <1>3. CASE c.kind = "declare" /\ Called(doc, c.name) # {}
    <2>1. \A m : Called(Declare(doc, c.name, c.says), m) = Called(doc, m)
      BY <1>1, <1>3, DeclaredBlockIs
    <2> QED BY <1>3, <2>1 DEF Applied
  <1>4. CASE c.kind = "enable"
    <2>1. c.says["enabled"] \in Values /\ Called(doc, c.name) # {}
      BY <1>4, CommandIs DEF Applies
    <2>2. \A m : Called(SetEnabled(doc, c.name, c.says["enabled"]), m) = Called(doc, m)
      BY <1>1, <2>1, EnabledBlockIs
    <2> QED BY <1>4, <2>2 DEF Applied
  <1> QED BY <1>2, <1>3, <1>4, CommandIs

\* Where the blocks of a name that remain all mean what its first block meant,
\* there was one block of the name, and there is one.
LEMMA OneRemains ==
    ASSUME NEW doc \in Docs, NEW c \in Commands, Applies(doc, c), Valid(doc),
           Applied(doc, c) \in Docs, Valid(Applied(doc, c)), NEW n,
           Called(doc, n) # {}, Called(Applied(doc, c), n) # {},
           \A i \in Called(Applied(doc, c), n) :
              Meanings(Applied(doc, c))[i] = Meanings(doc)[IndexOf(doc, n)]
    PROVE  Called(doc, n) = {IndexOf(doc, n)}
  <1> DEFINE new == Applied(doc, c)
             first == IndexOf(doc, n)
  <1>1. first \in Called(doc, n) /\ Called(doc, n) \subseteq 1..Len(doc)
    BY IndexIs DEF Called
  <1>2. \A i, j \in Called(new, n) : i = j
    <2> SUFFICES ASSUME NEW i \in Called(new, n), NEW j \in Called(new, n), i # j
                 PROVE  FALSE
      OBVIOUS
    <2>1. i \in 1..Len(new) /\ j \in 1..Len(new) /\ new \in Docs /\ Valid(new)
      BY DEF Called
    <2>2. Meanings(new)[i] = Meanings(new)[j]
      OBVIOUS
    <2> HIDE DEF new
    <2> QED BY <2>1, <2>2, ValidTargets
  <1>3. ASSUME NEW j \in Called(doc, n), j # first
        PROVE  FALSE
    <2>1. CASE c.kind # "remove"
      <3>1. Called(doc, n) \subseteq Called(new, n)
        BY <2>1, InPlace
      <3> QED BY <1>1, <1>2, <1>3, <3>1
    <2>2. CASE c.kind = "remove"
      <3> DEFINE k == IndexOf(doc, c.name)
      <3>1. Called(doc, c.name) # {} /\ new = RemoveBlock(doc, c.name)
        BY <2>2 DEF Applies, Applied
      <3>2. k \in Called(doc, c.name)
        BY <3>1, IndexIs
      <3>3. ASSUME NEW i \in Called(doc, n), i # k
            PROVE  Shifted(i, k) \in Called(new, n)
        <4>1. i \in 1..Len(doc) /\ doc[i].name = n
          BY DEF Called
        <4>2. Shifted(i, k) \in 1..Len(new) /\ new[Shifted(i, k)] = doc[i]
          BY <3>1, <3>3, <4>1, ShiftedIs
        <4> HIDE DEF new, k
        <4> QED BY <4>1, <4>2 DEF Called
      <3>4. CASE c.name # n
        <4>1. k # first /\ k # j
          BY <1>1, <3>2, <3>4 DEF Called
        <4>2. Shifted(first, k) # Shifted(j, k)
          BY <1>1, <1>3, <3>1, <4>1, ShiftedIs
        <4> QED BY <1>1, <1>2, <3>3, <4>1, <4>2
      <3>5. CASE c.name = n
        <4>1. k = first
          BY <3>5
        <4>2. Shifted(j, k) \in Called(new, n) /\ Shifted(j, k) \in 1..Len(new)
          BY <1>3, <3>3, <4>1 DEF Called
        <4>3. Stated(doc)[j]["target"] # Stated(doc)[k]["target"]
          BY <1>1, <1>3, <4>1, ValidTargets
        <4>4. Stated(new)[Shifted(j, k)]["target"] = Stated(doc)[j]["target"]
          <5>1. Sound(doc) /\ Sound(RemoveBlock(doc, c.name)) /\ j \in 1..Len(doc)
            BY <1>1, <3>1, ValidIsSound
          <5> QED BY <3>1, <4>3, <5>1, TargetsStay
        <4>5. Stated(new)[Shifted(j, k)]["target"] = Stated(doc)[k]["target"]
          BY <1>1, <4>1, <4>2, ValidTargets
        <4> QED BY <4>3, <4>4, <4>5
      <3> QED BY <3>4, <3>5
    <2> QED BY <2>1, <2>2
  <1> QED BY <1>1, <1>3

\* What is compared tells what changed: the difference names every workspace whose
\* blocks do not mean what they meant, and where names are not repeated no other.
LEMMA DifferenceTells ==
    ASSUME NEW doc \in Docs, NEW c \in Commands, Applies(doc, c), Valid(doc),
           Applied(doc, c) \in Docs, Valid(Applied(doc, c)), NEW n \in Names
    PROVE  /\ MeansOf(doc, n) # MeansOf(Applied(doc, c), n) => n \in Difference(doc, Applied(doc, c))
           /\ n \in Difference(doc, Applied(doc, c)) /\ Alone(doc, n) =>
                MeansOf(doc, n) # MeansOf(Applied(doc, c), n)
  <1> DEFINE new == Applied(doc, c)
             first == IndexOf(doc, n)
  <1>1. Called(doc, n) # {} => first \in Called(doc, n)
    BY IndexIs
  <1>2. n \in Difference(doc, new) <=>
           \/ \E i \in Called(new, n) :
                Called(doc, n) = {} \/ Meanings(doc)[first] # Meanings(new)[i]
           \/ Called(doc, n) # {} /\ Called(new, n) = {}
    BY DEF Difference
  <1>3. ASSUME n \notin Difference(doc, new)
        PROVE  MeansOf(doc, n) = MeansOf(new, n)
    <2>1. CASE Called(doc, n) = {}
      BY <1>2, <1>3, <2>1 DEF MeansOf
    <2>2. CASE Called(doc, n) # {}
      <3>1. /\ Called(new, n) # {}
            /\ \A i \in Called(new, n) : Meanings(new)[i] = Meanings(doc)[first]
        BY <1>2, <1>3, <2>2
      <3>2. Called(doc, n) = {first}
        BY <2>2, <3>1, OneRemains
      <3> HIDE DEF new, first
      <3> QED BY <3>1, <3>2 DEF MeansOf
    <2> QED BY <2>1, <2>2
  <1>4. ASSUME n \in Difference(doc, new), Alone(doc, n), MeansOf(doc, n) = MeansOf(new, n)
        PROVE  FALSE
    <2>1. PICK i \in Called(new, n) :
            Called(doc, n) = {} \/ Meanings(doc)[first] # Meanings(new)[i]
      <3>1. CASE Called(doc, n) # {} /\ Called(new, n) = {}
        <4>1. Meanings(doc)[first] \in MeansOf(doc, n) /\ MeansOf(new, n) = {}
          BY <1>1, <3>1 DEF MeansOf
        <4> QED BY <1>4, <4>1
      <3> QED BY <1>2, <1>4, <3>1
    <2>2. Meanings(new)[i] \in MeansOf(doc, n)
      BY <1>4 DEF MeansOf
    <2>3. PICK j \in Called(doc, n) : Meanings(doc)[j] = Meanings(new)[i]
      BY <2>2 DEF MeansOf
    <2>4. j = first
      <3>1. IsFiniteSet(Called(doc, n))
        <4>1. Len(doc) \in Nat /\ Called(doc, n) \subseteq 1..Len(doc)
          BY DocIs DEF Called
        <4>2. IsFiniteSet(1..Len(doc))
          BY <4>1, FS_Interval
        <4> QED BY <4>1, <4>2, FS_Subset
      <3>2. Cardinality(Called(doc, n)) \in Nat /\ Cardinality(Called(doc, n)) <= 1
        BY <1>4, <3>1, FS_CardinalityType DEF Alone
      <3>3. Cardinality(Called(doc, n)) = 1
        BY <2>3, <3>1, <3>2, FS_EmptySet
      <3>4. \E x : Called(doc, n) = {x}
        BY <3>1, <3>3, FS_Singleton
      <3> QED BY <1>1, <2>3, <3>4
    <2> QED BY <2>1, <2>3, <2>4
  <1> QED BY <1>3, <1>4

\* An edit that no other crosses, of a file that was valid, is reported by its
\* effect: every workspace that is there no more, is new or means something else
\* is named, and where names are not repeated no other is.
THEOREM ReportsTell == Spec => []ReportTells
  <1>1. FollowInv /\ EditInv => ReportTells
    <2> SUFFICES ASSUME FollowInv, EditInv, NEW e \in Editors, Standing(e), Valid(seen[e]),
                        NEW n \in Names
                 PROVE  /\ MeansOf(seen[e], n) # MeansOf(file, n) => n \in changed[e]
                        /\ n \in changed[e] /\ Alone(seen[e], n) =>
                             MeansOf(seen[e], n) # MeansOf(file, n)
      BY DEF ReportTells
    <2>1. /\ seen[e] \in Docs /\ file \in Docs /\ command[e] \in Commands
          /\ Applies(seen[e], command[e]) /\ file = Applied(seen[e], command[e])
          /\ Valid(file) /\ changed[e] = Difference(seen[e], file)
      BY StandingIs
    <2> QED BY <2>1, DifferenceTells
  <1> QED BY <1>1, FollowInvariant, PTL

=============================================================================
