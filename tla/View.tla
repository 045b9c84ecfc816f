-------------------------------- MODULE View --------------------------------
(***************************************************************************)
(* The merged view of a folder (sdk/layerfs) and the root node that serves *)
(* it (sdk/mount/node.go): an ordered union of layers, the last of which   *)
(* that has a name wins it.                                                *)
(*                                                                         *)
(* Nothing is cached and nothing is locked.  An operation reads the layers *)
(* one after the other, then goes back to the layer that won; whoever      *)
(* edits the sources may do so between any two of those reads.  A union is *)
(* immutable and operations share nothing, so that one reader, which holds *)
(* one directory open at a time, stands for all of them.                   *)
(*                                                                         *)
(* Abstracted: the names are numbers, in lexical order; an entry is what   *)
(* it is, a file or a directory with all that is below it; reading the     *)
(* directory of a layer is one step; modes are left out.  Below a top      *)
(* level entry a view is a passthrough to one layer, and is not modelled.  *)
(***************************************************************************)
EXTENDS Integers, Sequences, FiniteSets

CONSTANTS
    Depth,      \* how many layers the union has
    Names,      \* names of top level entries
    Kept,       \* what an entry may be
    None,       \* no entry, no name
    Missing,    \* a layer whose root does not exist
    Unreadable, \* a layer whose root cannot be read, nor anything below it
    Versions,   \* the states a layer may be in
    Portions,   \* numbers of entries asked of an open directory at once
    MaxEdits    \* bound on the edits of the sources

Layers == 1..Depth
Shelves == [Names -> Kept \cup {None}]

ASSUME DepthAssumption == Depth \in Nat
ASSUME NamesAssumption ==
    /\ Names \subseteq Nat /\ IsFiniteSet(Names)
    /\ None \notin Names \cup Kept /\ None \notin [layer : Layers, entry : Kept]
ASSUME VersionsAssumption ==
    /\ Missing \notin Shelves /\ Unreadable \notin Shelves /\ Missing # Unreadable
    /\ Versions \subseteq Shelves \cup {Missing, Unreadable}
ASSUME BoundsAssumption == Portions \subseteq Int /\ MaxEdits \in Nat

VARIABLES
    layers,     \* the layers as they are
    op,         \* the operation under way, and the name it is about
    at,         \* the next layer it reads
    owner,      \* the winner of each name among the layers read
    holders,    \* the layers that have each name among the layers read
    answer,     \* how the last operation ended
    entries,    \* the names an open root directory holds
    offset,     \* how many of them it has handed out
    served,     \* those names, in order
    eof,        \* it has said that there are no more
    past,       \* the states of each layer while the operation went on
    listed,     \* the last listing, while nothing has changed since it began
    edits       \* edits so far

reading == <<op, at, owner, holders, answer>>
handle == <<entries, offset, served, eof>>
vars == <<layers, reading, handle, past, listed, edits>>

Idle == [kind |-> "idle", name |-> None]
Whole == {"list", "shadowed"}       \* operations on the root
OfName == {"open", "lookup"}        \* Open, Stat or ReadDir of an entry; Lookup of it
Ops == {Idle} \cup [kind : Whole, name : {None}] \cup [kind : OfName, name : Names]

Winner == [layer : Layers, entry : Kept]
NoOwner == [n \in Names |-> None]
NoHolder == [n \in Names |-> <<>>]
Answer == [op : Ops, how : {"found", "absent", "error"}, layer : 0..Depth,
           entry : Kept \cup {None}]
NoAnswer == [op |-> Idle, how |-> "absent", layer |-> 0, entry |-> None]

TypeOK ==
    /\ layers \in [Layers -> Versions]
    /\ op \in Ops /\ at \in 1..(Depth + 1)
    /\ owner \in [Names -> Winner \cup {None}]
    /\ holders \in [Names -> Seq(Layers)]
    /\ answer \in Answer
    /\ entries \in Seq(Names) /\ offset \in 0..Len(entries)
    /\ served \in Seq(Names) /\ eof \in BOOLEAN
    /\ past \in [Layers -> SUBSET Versions]
    /\ listed \in [Names -> Winner \cup {None}] \cup {None}
    /\ edits \in 0..MaxEdits

Init ==
    /\ layers \in [Layers -> Versions]
    /\ op = Idle /\ at = 1 /\ owner = NoOwner /\ holders = NoHolder /\ answer = NoAnswer
    /\ entries = <<>> /\ offset = 0 /\ served = <<>> /\ eof = FALSE
    /\ past = [i \in Layers |-> {layers[i]}]
    /\ listed = None /\ edits = 0

Readable(layer) == layer \notin {Missing, Unreadable}
Has(layer, n) == Readable(layer) /\ layer[n] # None

----------------------------------------------------------------------------
\* Every operation begins by reading the layers, in declared order.

Begin(o) ==
    /\ op = Idle
    /\ op' = o /\ at' = 1 /\ owner' = NoOwner /\ holders' = NoHolder
    /\ entries' = <<>> /\ offset' = 0 /\ served' = <<>> /\ eof' = FALSE
    /\ past' = [i \in Layers |-> {layers[i]}]
    /\ answer' = NoAnswer
    /\ UNCHANGED <<layers, listed, edits>>

Reading == op # Idle /\ at <= Depth
This == layers[at]

\* A mistake: a name stays with the first layer that has it.
FirstWins(own) ==
    [n \in Names |-> IF This[n] # None /\ own[n] = None
                     THEN [layer |-> at, entry |-> This[n]] ELSE own[n]]

\* index: the entries of a layer take their names over.
Overlaid(own) ==
    [n \in Names |-> IF This[n] # None THEN [layer |-> at, entry |-> This[n]] ELSE own[n]]

\* A mistake: the layers that have a name are kept last first.
ListedFirst(held) ==
    [n \in Names |-> IF This[n] # None THEN <<at>> \o held[n] ELSE held[n]]

Noted(held) ==
    [n \in Names |-> IF This[n] # None THEN Append(held[n], at) ELSE held[n]]

ReadLayer ==
    /\ Reading
    /\ Readable(This)
    /\ at' = at + 1
    /\ IF op.kind = "shadowed" THEN holders' = Noted(holders) /\ UNCHANGED owner
       ELSE owner' = Overlaid(owner) /\ UNCHANGED holders
    /\ UNCHANGED <<layers, op, answer, handle, past, listed, edits>>

\* A layer whose root does not exist contributes nothing.
SkipMissing ==
    /\ Reading
    /\ This = Missing
    /\ at' = at + 1
    /\ UNCHANGED <<layers, op, owner, holders, answer, handle, past, listed, edits>>

Ends(how, layer, entry) ==
    /\ op' = Idle /\ at' = 1
    /\ owner' = IF op.kind = "list" THEN owner ELSE NoOwner
    /\ answer' = [op |-> op, how |-> how, layer |-> layer, entry |-> entry]
    /\ UNCHANGED <<layers, past, edits>>

\* A mistake: a layer that cannot be read is passed over.
PassOver ==
    /\ Reading
    /\ This = Unreadable
    /\ at' = at + 1
    /\ UNCHANGED <<layers, op, owner, holders, answer, handle, past, listed, edits>>

\* Any other failure ends the operation.  Origin has no way to tell it from a
\* name nobody has, and the root node answers ENOENT.
FailLayer ==
    /\ Reading
    /\ This = Unreadable
    /\ Ends(IF op.kind = "lookup" THEN "absent" ELSE "error", 0, None)
    /\ UNCHANGED <<holders, handle, listed>>

----------------------------------------------------------------------------
\* Every layer was read.

AllRead == at > Depth
Calm == \A i \in Layers : past[i] = {layers[i]}

\* A mistake: the names of the first layer are left out.
UpperNames == {n \in Names : owner[n] # None /\ owner[n].layer > 1}

Merged == {n \in Names : owner[n] # None}

InOrder(names) ==
    CHOOSE s \in [1..Cardinality(names) -> names] :
        \A i, j \in DOMAIN s : i < j => s[i] < s[j]

\* ReadDir and Readdir answer with the winners in lexical order; Open keeps them
\* in a handle, to be read by portions.
List ==
    /\ op.kind = "list" /\ AllRead
    /\ Ends("found", 0, None)
    /\ entries' = InOrder(Merged) /\ offset' = 0 /\ served' = <<>> /\ eof' = FALSE
    /\ listed' = IF Calm THEN [n \in Names |-> IF n \in Merged THEN owner[n] ELSE None]
                 ELSE None
    /\ UNCHANGED holders

Shadowed ==
    /\ op.kind = "shadowed" /\ AllRead
    /\ Ends("found", 0, None)
    /\ UNCHANGED <<holders, handle, listed>>

Resolving == op.kind \in OfName /\ AllRead

NobodyHas ==
    /\ Resolving
    /\ owner[op.name] = None
    /\ Ends("absent", 0, None)
    /\ UNCHANGED <<holders, handle, listed>>

\* Back to the layer that won, for the entry as it is now.
W == owner[op.name].layer

Found ==
    /\ Resolving
    /\ owner[op.name] # None
    /\ Has(layers[W], op.name)
    /\ Ends("found", W, layers[W][op.name])
    /\ UNCHANGED <<holders, handle, listed>>

\* The entry went after it was listed, with its layer or without.
WentAway ==
    /\ Resolving
    /\ owner[op.name] # None
    /\ ~Has(layers[W], op.name)
    /\ Ends(IF layers[W] = Unreadable THEN "error" ELSE "absent", 0, None)
    /\ UNCHANGED <<holders, handle, listed>>

----------------------------------------------------------------------------
\* An open root directory is read by portions: all the rest when n is not
\* positive, at most n otherwise, and EOF when nothing is left.

Rest == SubSeq(entries, offset + 1, Len(entries))

\* A mistake: what is handed out is counted as it was asked for.
CountAsked(n) ==
    /\ op = Idle
    /\ ~eof
    /\ LET m == IF n <= 0 \/ n > Len(Rest) THEN Len(Rest) ELSE n
       IN  /\ offset' = offset + n
           /\ served' = served \o SubSeq(Rest, 1, m)
           /\ eof' = (n > 0 /\ Rest = <<>>)
    /\ UNCHANGED <<layers, reading, entries, past, listed, edits>>

\* A mistake: EOF comes with the last entries when fewer than n are left.
EarlyEnd(n) ==
    /\ op = Idle
    /\ ~eof
    /\ LET m == IF n <= 0 \/ n > Len(Rest) THEN Len(Rest) ELSE n
       IN  /\ offset' = offset + m
           /\ served' = IF n > m THEN served ELSE served \o SubSeq(Rest, 1, m)
           /\ eof' = (n > m)
    /\ UNCHANGED <<layers, reading, entries, past, listed, edits>>

ReadPortion(n) ==
    /\ op = Idle
    /\ ~eof
    /\ LET m == IF n <= 0 \/ n > Len(Rest) THEN Len(Rest) ELSE n
       IN  /\ offset' = offset + m
           /\ served' = served \o SubSeq(Rest, 1, m)
           /\ eof' = (n > 0 /\ Rest = <<>>)
    /\ UNCHANGED <<layers, reading, entries, past, listed, edits>>

\* The sources are edited, moved, deleted, made unreadable.
Edit(i, version) ==
    /\ edits < MaxEdits
    /\ version # layers[i]
    /\ layers' = [layers EXCEPT ![i] = version]
    /\ past' = IF op = Idle THEN past ELSE [past EXCEPT ![i] = @ \cup {version}]
    /\ listed' = None
    /\ edits' = edits + 1
    /\ UNCHANGED <<reading, handle>>

Next ==
    \/ \E o \in Ops \ {Idle} : Begin(o)
    \/ ReadLayer \/ SkipMissing \/ FailLayer
    \/ List \/ Shadowed \/ NobodyHas \/ Found \/ WentAway
    \/ \E n \in Portions : ReadPortion(n)
    \/ \E i \in Layers, v \in Versions : Edit(i, v)

Spec == Init /\ [][Next]_vars

----------------------------------------------------------------------------
\* What a view promises, though its layers change while it is read: an answer is
\* judged by the states its layers went through from its beginning to its end.

Answered(kinds, how) == op = Idle /\ answer.op.kind \in kinds /\ answer.how = how

Ever(i, n) == \E v \in past[i] : Has(v, n)
Always(i, n) == \A v \in past[i] : Has(v, n)

\* The layer may be taken for the winner of the name: no layer after it had the
\* name all along.
Wins(i, n) == Ever(i, n) /\ \A j \in (i + 1)..Depth : ~Always(j, n)

\* "The listing is the merge of every layer's root, deduplicated with the last
\* occurrence winning": a name that some layer has all along is listed, and a
\* listed name belongs to a layer that no later one overrides.
ListingRight ==
    Answered({"list"}, "found") => \A n \in Names :
        IF owner[n] = None THEN \A i \in Layers : ~Always(i, n)
        ELSE /\ Wins(owner[n].layer, n)
             /\ \E v \in past[owner[n].layer] : Has(v, n) /\ v[n] = owner[n].entry

\* "The last layer containing the name wins": what is found is in a layer that no
\* later one overrides, as it was at some time of the operation, and a name
\* whose winner does not change is found.  (A name that loses its winner halfway
\* may be reported absent, though an earlier layer has it all along.)
AnswerRight ==
    /\ Answered(OfName, "found") =>
         /\ Wins(answer.layer, answer.op.name)
         /\ \E v \in past[answer.layer] :
               Has(v, answer.op.name) /\ v[answer.op.name] = answer.entry
    /\ Answered(OfName, "absent") =>
         \/ answer.op.kind = "lookup" /\ \E i \in Layers : Unreadable \in past[i]
         \/ ~\E i \in Layers : /\ Always(i, answer.op.name)
                               /\ \A j \in (i + 1)..Depth : ~Ever(j, answer.op.name)

\* "A listed name and a looked-up name always resolve to the same layer"
\* (layered-fs.md, layerfs_test.go): as long as nothing is edited in between.
ListedIsLookedUp ==
    listed # None =>
        /\ Answered(OfName, "found") =>
             listed[answer.op.name] = [layer |-> answer.layer, entry |-> answer.entry]
        /\ Answered(OfName, "absent") => listed[answer.op.name] = None
        /\ ~Answered(OfName, "error")

\* "A layer that becomes unreadable while the view is live yields errors from the
\* operations that touch it, not a silently different view": every operation
\* fails when a layer is unreadable all along, but for Lookup, which reports the
\* name absent; and no operation fails when none ever was.
Untouchable == \E i \in Layers : past[i] = {Unreadable}
ErrorsAreTold ==
    /\ Answered(Whole \cup OfName, "error") => \E i \in Layers : Unreadable \in past[i]
    /\ op = Idle /\ answer.op.kind \in {"list", "shadowed", "open"} /\ Untouchable
         => answer.how = "error"

\* "Names the winner and the losers, losers in declared order" (layered-fs.md,
\* layerfs.go): whatever a layer has all along is reported, nothing it never
\* had, and the winner is the layer a listing gives the name to.
ShadowsRight ==
    Answered({"shadowed"}, "found") => \A n \in Names :
        LET held == {holders[n][i] : i \in 1..Len(holders[n])}
        IN  /\ \A i \in 1..Len(holders[n]) : \A j \in 1..Len(holders[n]) :
                  i < j => holders[n][i] < holders[n][j]
            /\ \A i \in Layers : (Always(i, n) => i \in held) /\ (i \in held => Ever(i, n))
            /\ listed # None => IF held = {} THEN listed[n] = None
                                ELSE listed[n].layer = holders[n][Len(holders[n])]

\* Whatever the portions asked for, an open directory hands out each of its names
\* once, in order, and says EOF after the last.
PortionsAddUp ==
    /\ served = SubSeq(entries, 1, offset)
    /\ eof => served = entries
    /\ \A i, j \in 1..Len(entries) : i < j => entries[i] < entries[j]

=============================================================================
