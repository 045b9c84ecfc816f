----------------------------- MODULE ViewProofs -----------------------------
(***************************************************************************)
(* Proofs about View for any number of layers, names and edits.            *)
(***************************************************************************)
EXTENDS View, FiniteSetTheorems, SequenceTheorems, TLAPS

----------------------------------------------------------------------------
\* The types of what an operation reads and answers.  (The handle of an open
\* directory plays no part in it.)
ReadType ==
    /\ layers \in [Layers -> Versions]
    /\ op \in Ops /\ at \in 1..(Depth + 1)
    /\ owner \in [Names -> Winner \cup {None}]
    /\ past \in [Layers -> SUBSET Versions]
    /\ answer.op \in Ops
    /\ answer.op.kind \in OfName /\ answer.how = "found" => answer.layer \in Layers

\* The layer may be taken for the winner among those before a position.
WinsBefore(p, i, n) ==
    /\ i \in Layers /\ i < p /\ Ever(i, n)
    /\ \A j \in Layers : i < j /\ j < p => ~Always(j, n)
Held(i, n, x) == \E v \in past[i] : Has(v, n) /\ v[n] = x

\* While the layers are read, every name has the winner of those already read.
OwnersRight ==
    op # Idle /\ op.kind # "shadowed" => \A n \in Names :
        IF owner[n] = None THEN \A i \in Layers : i < at => ~Always(i, n)
        ELSE /\ WinsBefore(at, owner[n].layer, n)
             /\ Held(owner[n].layer, n, owner[n].entry)

\* What was read is what the layers were, and it could be read.
PastRight ==
    op # Idle => \A i \in Layers : /\ layers[i] \in past[i]
                                   /\ i < at => past[i] # {Unreadable}

\* A listing nothing has changed since is the merge of the layers as they are.
ListedRight ==
    listed # None =>
        /\ Calm /\ \A i \in Layers : layers[i] # Unreadable
        /\ \A n \in Names :
             IF listed[n] = None THEN \A i \in Layers : ~Always(i, n)
             ELSE /\ WinsBefore(Depth + 1, listed[n].layer, n)
                  /\ listed[n] = [layer |-> listed[n].layer,
                                  entry |-> layers[listed[n].layer][n]]

ViewInv ==
    /\ ReadType /\ OwnersRight /\ PastRight /\ ListedRight
    /\ ListingRight /\ AnswerRight /\ ErrorsAreTold

----------------------------------------------------------------------------
\* Facts about operations and layers.

LEMMA OpKinds ==
    ASSUME NEW o \in Ops
    PROVE  /\ o.kind \in {"idle"} \cup Whole \cup OfName
           /\ o = Idle \/ o.kind # "idle"
           /\ o.kind \in OfName => o.name \in Names
  BY DEF Ops, Idle, Whole, OfName

LEMMA AllLayers == Depth \in Nat /\ \A i \in Layers : i \in Nat /\ i < Depth + 1
  BY DepthAssumption DEF Layers

LEMMA WinsAll ==
    ASSUME NEW i \in Layers, NEW n, WinsBefore(Depth + 1, i, n)
    PROVE  Wins(i, n)
  BY AllLayers DEF WinsBefore, Wins, Layers

LEMMA LayerValue ==
    ASSUME ReadType, NEW i \in Layers, Readable(layers[i]), NEW n \in Names
    PROVE  layers[i][n] \in Kept \cup {None}
  BY VersionsAssumption DEF ReadType, Readable, Shelves

\* The sources change; what was once in a layer was once in it.
LEMMA PastGrows ==
    ASSUME ReadType, \A i \in Layers : past[i] \subseteq past'[i]
    PROVE  /\ \A i \in Layers, n \in Names : Ever(i, n) => Ever(i, n)'
           /\ \A i \in Layers, n \in Names : ~Always(i, n) => ~Always(i, n)'
           /\ \A i \in Layers, n \in Names : \A x : Held(i, n, x) => Held(i, n, x)'
  BY DEF Ever, Always, Held, Has, Readable

----------------------------------------------------------------------------
\* One lemma for each kind of step.

LEMMA ViewInit == Init => ViewInv
  <1> SUFFICES ASSUME Init PROVE ViewInv
    OBVIOUS
  <1>1. ReadType
    BY DepthAssumption DEF Init, ReadType, Ops, NoOwner, NoAnswer, Idle, OfName
  <1>2. op = Idle /\ answer.op.kind = "idle" /\ listed = None
    BY DEF Init, NoAnswer, Idle
  <1> QED BY <1>1, <1>2 DEF ViewInv, OwnersRight, PastRight, ListedRight, ListingRight, AnswerRight,
              ErrorsAreTold, Answered, Whole, OfName

LEMMA ViewBegin ==
    ASSUME ViewInv, NEW o \in Ops \ {Idle}, Begin(o)
    PROVE  ViewInv'
  <1>1. /\ op' = o /\ o # Idle /\ at' = 1 /\ owner' = NoOwner /\ op = Idle
        /\ past' = [i \in Layers |-> {layers[i]}] /\ layers' = layers /\ listed' = listed
    BY DEF Begin
  <1>2. ReadType'
    BY <1>1, AllLayers DEF Begin, ViewInv, ReadType, NoOwner, NoAnswer, Idle, Ops, OfName
  <1>3. OwnersRight' /\ PastRight'
    BY <1>1, AllLayers DEF OwnersRight, PastRight, NoOwner, Layers
  <1>4. listed # None => past' = past
    BY <1>1 DEF ViewInv, ReadType, ListedRight, Calm
  <1>5. ListedRight'
    BY <1>1, <1>4 DEF ViewInv, ListedRight, Calm, WinsBefore, Ever, Always, Has, Readable
  <1>6. ListingRight' /\ AnswerRight' /\ ErrorsAreTold'
    BY <1>1 DEF ListingRight, AnswerRight, ErrorsAreTold, Answered
  <1> QED BY <1>2, <1>3, <1>5, <1>6 DEF ViewInv

LEMMA ViewRead ==
    ASSUME ViewInv, ReadLayer \/ SkipMissing
    PROVE  ViewInv'
  <1>1. /\ op # Idle /\ op' = op /\ at \in Layers /\ at' = at + 1 /\ UNCHANGED <<layers, past, listed>>
        /\ This # Unreadable
    BY AllLayers, VersionsAssumption
       DEF ReadLayer, SkipMissing, Reading, Readable, ViewInv, ReadType, Layers
  <1>2. This \in past[at]
    BY <1>1 DEF ViewInv, PastRight, This
  <1>3. PastRight'
    BY <1>1, <1>2, AllLayers DEF ViewInv, PastRight, ReadType
  <1>4. ListedRight'
    BY <1>1 DEF ViewInv, ListedRight, Calm, WinsBefore, Ever, Always, Has, Readable
  <1>5. ListingRight' /\ AnswerRight' /\ ErrorsAreTold'
    BY <1>1 DEF ListingRight, AnswerRight, ErrorsAreTold, Answered
  <1>6. ReadType'
    <2>1. owner' \in [Names -> Winner \cup {None}]
      <3>1. CASE owner' = owner
        BY <3>1 DEF ViewInv, ReadType
      <3>2. CASE ReadLayer /\ owner' = Overlaid(owner)
        BY <1>1, <3>2, LayerValue DEF ReadLayer, This, Overlaid, Winner, ViewInv, ReadType
      <3> QED BY <3>1, <3>2 DEF ReadLayer, SkipMissing
    <2>2. answer' = answer /\ at' \in 1..(Depth + 1)
      BY <1>1, AllLayers DEF ReadLayer, SkipMissing, Layers
    <2> QED BY <1>1, <2>1, <2>2 DEF ViewInv, ReadType
  <1>7. ASSUME op.kind # "shadowed", NEW n \in Names
        PROVE  IF owner'[n] = None THEN \A i \in Layers : i < at' => ~Always(i, n)
               ELSE /\ WinsBefore(at', owner'[n].layer, n)
                    /\ Held(owner'[n].layer, n, owner'[n].entry)
    <2>1. CASE Has(This, n)
      <3>1. owner'[n] = [layer |-> at, entry |-> This[n]]
        BY <1>1, <1>7, <2>1, VersionsAssumption
           DEF ReadLayer, SkipMissing, Overlaid, Has, Readable
      <3>2. owner'[n] # None
        BY <1>1, <2>1, <3>1, LayerValue, NamesAssumption DEF This, Has, ViewInv
      <3>3. WinsBefore(at + 1, at, n) /\ Held(at, n, This[n])
        BY <1>1, <1>2, <2>1, AllLayers DEF WinsBefore, Ever, Held
      <3> QED BY <1>1, <3>1, <3>2, <3>3
    <2>2. CASE ~Has(This, n)
      <3>1. owner'[n] = owner[n]
        BY <1>1, <1>7, <2>2, VersionsAssumption
           DEF ReadLayer, SkipMissing, Overlaid, Has, ViewInv, ReadType
      <3>2. ~Always(at, n)
        BY <1>2, <2>2 DEF Always
      <3>3. \A i \in Layers : i < at + 1 <=> i < at \/ i = at
        BY <1>1, AllLayers
      <3> QED BY <1>1, <1>7, <3>1, <3>2, <3>3 DEF ViewInv, OwnersRight, WinsBefore
    <2> QED BY <2>1, <2>2
  <1>8. OwnersRight'
    BY <1>1, <1>7 DEF OwnersRight, WinsBefore, Held, Ever, Always, Has, Readable
  <1> QED BY <1>3, <1>4, <1>5, <1>6, <1>8 DEF ViewInv

\* An edit while an operation reads, or while none does.
LEMMA ViewEdit ==
    ASSUME ViewInv, NEW i \in Layers, NEW version \in Versions, Edit(i, version)
    PROVE  ViewInv'
  <1>1. /\ layers' = [layers EXCEPT ![i] = version] /\ listed' = None
        /\ UNCHANGED <<op, at, owner, answer>>
    BY DEF Edit, reading
  <1>2. ReadType /\ ReadType' /\ \A j \in Layers : past[j] \subseteq past'[j]
    BY <1>1 DEF Edit, ViewInv, ReadType
  <1>3. ListedRight'
    BY <1>1 DEF ListedRight
  <1>4. CASE op = Idle
    <2>1. past' = past
      BY <1>4 DEF Edit
    <2>2. ListingRight' /\ AnswerRight' /\ ErrorsAreTold'
      BY <1>1, <2>1 DEF ViewInv, ListingRight, AnswerRight, ErrorsAreTold, Answered, Wins, Ever,
           Always, Has, Readable, Untouchable
    <2> QED BY <1>1, <1>2, <1>3, <1>4, <2>2 DEF ViewInv, OwnersRight, PastRight
  <1>5. CASE op # Idle
    <2>1. OwnersRight'
      <3> SUFFICES ASSUME op.kind # "shadowed", NEW n \in Names
                   PROVE  IF owner[n] = None THEN \A j \in Layers : j < at => ~Always(j, n)'
                          ELSE /\ WinsBefore(at, owner[n].layer, n)'
                               /\ Held(owner[n].layer, n, owner[n].entry)'
        BY <1>1 DEF OwnersRight, WinsBefore, Held, Ever, Always, Has, Readable
      <3>1. CASE owner[n] = None
        BY <1>2, <1>5, <3>1, PastGrows DEF ViewInv, OwnersRight
      <3>2. CASE owner[n] # None
        BY <1>1, <1>2, <1>5, <3>2, PastGrows DEF ViewInv, OwnersRight, WinsBefore
      <3> QED BY <3>1, <3>2
    <2>2. PastRight'
      <3>1. past' = [past EXCEPT ![i] = @ \cup {version}]
        BY <1>5 DEF Edit
      <3> QED BY <1>1, <1>2, <1>5, <3>1 DEF ViewInv, PastRight, ReadType
    <2>3. ListingRight' /\ AnswerRight' /\ ErrorsAreTold'
      BY <1>1, <1>5 DEF ListingRight, AnswerRight, ErrorsAreTold, Answered
    <2> QED BY <1>2, <1>3, <2>1, <2>2, <2>3 DEF ViewInv
  <1> QED BY <1>4, <1>5

\* The end of an operation, in the terms the properties are stated in.
LEMMA ViewEnds ==
    ASSUME ViewInv, op # Idle, NEW how, NEW layer, NEW entry, Ends(how, layer, entry),
           owner' = IF op.kind = "list" THEN owner ELSE NoOwner,
           listed' = listed \/ ListedRight',
           op.kind = "list" /\ how = "found" => at = Depth + 1,
           op.kind \in OfName /\ how = "found" =>
               layer \in Layers /\ Wins(layer, op.name) /\ Held(layer, op.name, entry),
           op.kind \in OfName /\ how = "absent" =>
               \/ op.kind = "lookup" /\ \E i \in Layers : Unreadable \in past[i]
               \/ ~\E i \in Layers : /\ Always(i, op.name)
                                     /\ \A j \in (i + 1)..Depth : ~Ever(j, op.name),
           how = "error" => \E i \in Layers : Unreadable \in past[i],
           op.kind \in {"list", "shadowed", "open"} /\ how # "error" => ~Untouchable
    PROVE  ViewInv'
  <1>1. /\ op' = Idle /\ at' = 1 /\ UNCHANGED <<layers, past>>
        /\ answer' = [op |-> op, how |-> how, layer |-> layer, entry |-> entry]
    BY DEF Ends
  <1>2. ReadType'
    BY <1>1, AllLayers DEF ViewInv, ReadType, NoOwner, Ops
  <1>3. OwnersRight' /\ PastRight'
    BY <1>1 DEF OwnersRight, PastRight
  <1>4. ListedRight'
    BY <1>1 DEF ViewInv, ListedRight, Calm, WinsBefore, Ever, Always, Has, Readable
  <1>5. ListingRight'
    <2> SUFFICES ASSUME op.kind = "list", how = "found", NEW n \in Names
                 PROVE  IF owner[n] = None THEN \A i \in Layers : ~Always(i, n)
                        ELSE Wins(owner[n].layer, n) /\ Held(owner[n].layer, n, owner[n].entry)
      BY <1>1 DEF ListingRight, Answered, Wins, Held, Ever, Always, Has, Readable
    <2>1. IF owner[n] = None THEN \A i \in Layers : i < Depth + 1 => ~Always(i, n)
          ELSE /\ WinsBefore(Depth + 1, owner[n].layer, n)
               /\ Held(owner[n].layer, n, owner[n].entry)
      BY DEF ViewInv, OwnersRight
    <2> QED BY <2>1, WinsAll, AllLayers DEF WinsBefore
  <1>6. AnswerRight'
    BY <1>1 DEF AnswerRight, Answered, Wins, Held, Ever, Always, Has, Readable
  <1>7. ErrorsAreTold'
    BY <1>1 DEF ErrorsAreTold, Answered, Untouchable
  <1> QED BY <1>2, <1>3, <1>4, <1>5, <1>6, <1>7 DEF ViewInv

LEMMA ViewFail ==
    ASSUME ViewInv, FailLayer
    PROVE  ViewInv'
  <1>1. op # Idle /\ at \in Layers /\ This = Unreadable /\ This \in past[at]
    BY AllLayers DEF FailLayer, Reading, ViewInv, ReadType, PastRight, This, Layers
  <1>2. op.kind \in Whole \cup OfName
    BY <1>1, OpKinds DEF ViewInv, ReadType
  <1> QED BY <1>1, <1>2, ViewEnds DEF FailLayer, Ends, Whole, OfName

\* Once every layer was read, none was unreadable all along.
LEMMA AllWereRead ==
    ASSUME ViewInv, op # Idle, AllRead
    PROVE  at = Depth + 1 /\ ~Untouchable
  <1>1. at = Depth + 1
    BY AllLayers DEF AllRead, ViewInv, ReadType
  <1> QED BY <1>1, AllLayers DEF ViewInv, PastRight, Untouchable

LEMMA ViewList ==
    ASSUME ViewInv, List
    PROVE  ViewInv'
  <1>1. op # Idle /\ op.kind = "list" /\ AllRead /\ Ends("found", 0, None)
    BY DEF List, Idle
  <1>2. at = Depth + 1 /\ ~Untouchable
    BY <1>1, AllWereRead
  <1>3. ListedRight'
    <2> SUFFICES ASSUME Calm PROVE ListedRight'
      BY DEF List, ListedRight
    <2>1. listed' = [n \in Names |-> IF n \in Merged THEN owner[n] ELSE None]
          /\ UNCHANGED <<layers, past>>
      BY <1>1 DEF List, Ends
    <2>2. \A i \in Layers : layers[i] # Unreadable
      BY <1>2 DEF Calm, Untouchable
    <2>3. ASSUME NEW n \in Names
          PROVE  IF listed'[n] = None THEN \A i \in Layers : ~Always(i, n)
                 ELSE /\ WinsBefore(Depth + 1, listed'[n].layer, n)
                      /\ listed'[n] = [layer |-> listed'[n].layer,
                                       entry |-> layers[listed'[n].layer][n]]
      <3>1. listed'[n] = owner[n]
        BY <2>1 DEF Merged
      <3>2. CASE owner[n] = None
        BY <1>1, <1>2, <3>1, <3>2, AllLayers DEF ViewInv, OwnersRight
      <3>3. CASE owner[n] # None
        <4>1. WinsBefore(Depth + 1, owner[n].layer, n) /\ owner[n].layer \in Layers
              /\ Held(owner[n].layer, n, owner[n].entry)
          BY <1>1, <1>2, <3>3 DEF ViewInv, OwnersRight, WinsBefore
        <4>2. owner[n].entry = layers[owner[n].layer][n]
          BY <4>1 DEF Held, Calm
        <4>3. owner[n] \in Winner
          BY <3>3 DEF ViewInv, ReadType
        <4> QED BY <3>1, <3>3, <4>1, <4>2, <4>3 DEF Winner
      <3> QED BY <3>2, <3>3
    <2> QED BY <2>1, <2>2, <2>3 DEF ListedRight, Calm, WinsBefore, Ever, Always, Has, Readable
  <1> QED BY <1>1, <1>2, <1>3, ViewEnds DEF Ends, OfName

LEMMA ViewShadowed ==
    ASSUME ViewInv, Shadowed
    PROVE  ViewInv'
  <1>1. op # Idle /\ op.kind = "shadowed" /\ AllRead /\ Ends("found", 0, None) /\ listed' = listed
    BY DEF Shadowed, Idle
  <1> QED BY <1>1, AllWereRead, ViewEnds DEF Ends, OfName

LEMMA ViewResolve ==
    ASSUME ViewInv, NobodyHas \/ Found \/ WentAway
    PROVE  ViewInv'
  <1>1. op # Idle /\ op.kind \in OfName /\ AllRead /\ listed' = listed /\ op.name \in Names
        /\ op.kind # "shadowed" /\ op.kind # "list"
    BY OpKinds DEF NobodyHas, Found, WentAway, Resolving, OfName, Idle, ViewInv, ReadType
  <1>2. at = Depth + 1 /\ ~Untouchable
    BY <1>1, AllWereRead
  <1>3. CASE NobodyHas
    <2>1. \A i \in Layers : ~Always(i, op.name)
      BY <1>1, <1>2, <1>3, AllLayers DEF NobodyHas, ViewInv, OwnersRight
    <2> QED BY <1>1, <1>2, <1>3, <2>1, ViewEnds DEF NobodyHas, Ends
  <1>4. CASE owner[op.name] # None /\ (Found \/ WentAway)
    <2>1. /\ W \in Layers /\ WinsBefore(Depth + 1, W, op.name) /\ Wins(W, op.name)
          /\ layers[W] \in past[W]
      BY <1>1, <1>2, <1>4, WinsAll DEF ViewInv, OwnersRight, PastRight, WinsBefore, W
    <2>2. CASE Found
      BY <1>1, <1>2, <2>1, <2>2, ViewEnds DEF Found, Ends, Held
    <2>3. CASE WentAway
      <3>1. ~Always(W, op.name)
        BY <2>1, <2>3 DEF WentAway, Always
      <3>2. ASSUME NEW i \in Layers, Always(i, op.name)
            PROVE  \E j \in (i + 1)..Depth : Ever(j, op.name)
        <4>1. i < W
          BY <2>1, <3>1, <3>2, AllLayers DEF WinsBefore
        <4> QED BY <2>1, <4>1, AllLayers DEF WinsBefore, Layers
      <3>3. layers[W] = Unreadable => \E i \in Layers : Unreadable \in past[i]
        BY <2>1
      <3>4. ~\E i \in Layers : /\ Always(i, op.name)
                               /\ \A j \in (i + 1)..Depth : ~Ever(j, op.name)
        BY <3>2
      <3>5. CASE layers[W] = Unreadable
        BY <1>1, <1>2, <2>3, <3>3, <3>5, ViewEnds DEF WentAway, Ends
      <3>6. CASE layers[W] # Unreadable
        BY <1>1, <1>2, <2>3, <3>4, <3>6, ViewEnds DEF WentAway, Ends
      <3> QED BY <3>5, <3>6
    <2> QED BY <1>4, <2>2, <2>3
  <1> QED BY <1>3, <1>4 DEF Found, WentAway

LEMMA ViewQuiet ==
    ASSUME ViewInv, UNCHANGED <<layers, reading, past, listed>>
    PROVE  ViewInv'
  <1>1. UNCHANGED <<layers, op, at, owner, answer, past, listed>>
    BY DEF reading
  <1>2. ReadType' /\ OwnersRight' /\ PastRight' /\ ListedRight'
    BY <1>1 DEF ViewInv, ReadType, OwnersRight, PastRight, ListedRight, Calm, WinsBefore, Held, Ever,
         Always, Has, Readable
  <1>3. ListingRight' /\ AnswerRight' /\ ErrorsAreTold'
    BY <1>1 DEF ViewInv, ListingRight, AnswerRight, ErrorsAreTold, Answered, Wins, Ever,
         Always, Has, Readable, Untouchable
  <1> QED BY <1>2, <1>3 DEF ViewInv

LEMMA ViewStep == ViewInv /\ [Next]_vars => ViewInv'
  <1>1. ASSUME ViewInv, UNCHANGED vars \/ \E n \in Portions : ReadPortion(n) PROVE ViewInv'
    BY <1>1, ViewQuiet DEF vars, ReadPortion
  <1> QED BY <1>1, ViewBegin, ViewRead, ViewFail, ViewList, ViewShadowed, ViewResolve, ViewEdit DEF Next

LEMMA ViewInvariant == Spec => []ViewInv
  BY ViewInit, ViewStep, PTL DEF Spec

----------------------------------------------------------------------------
\* Whatever is edited while it is read, a listing gives every name to a layer that
\* has it and that no later one overrides all along.
THEOREM ListingIsRight == Spec => []ListingRight
  <1>1. ViewInv => ListingRight
    BY DEF ViewInv
  <1> QED BY <1>1, ViewInvariant, PTL

\* Whatever is edited while it is looked for, an entry is found in a layer that no
\* later one overrides all along, and one whose winner does not change is found.
THEOREM AnswersAreRight == Spec => []AnswerRight
  <1>1. ViewInv => AnswerRight
    BY DEF ViewInv
  <1> QED BY <1>1, ViewInvariant, PTL

\* No operation fails unless a layer cannot be read, and none but Lookup passes over
\* a layer that cannot be read all along.
THEOREM FailuresAreTold == Spec => []ErrorsAreTold
  <1>1. ViewInv => ErrorsAreTold
    BY DEF ViewInv
  <1> QED BY <1>1, ViewInvariant, PTL

\* As long as nothing is edited, a name is looked up where it was listed.
THEOREM LookupFollowsListing == Spec => []ListedIsLookedUp
  <1>1. ViewInv => ListedIsLookedUp
    <2> SUFFICES ASSUME ViewInv, listed # None PROVE
          /\ Answered(OfName, "found") =>
               listed[answer.op.name] = [layer |-> answer.layer, entry |-> answer.entry]
          /\ Answered(OfName, "absent") => listed[answer.op.name] = None
          /\ ~Answered(OfName, "error")
      BY DEF ListedIsLookedUp
    <2>1. /\ op = Idle /\ answer.op.kind \in OfName => answer.op.name \in Names
          /\ Calm /\ \A i \in Layers : layers[i] # Unreadable /\ past[i] = {layers[i]}
      BY OpKinds DEF ViewInv, ReadType, ListedRight, Calm
    <2>2. ~\E i \in Layers : Unreadable \in past[i]
      BY <2>1
    <2>3. \A i \in Layers, n \in Names : Always(i, n) <=> Ever(i, n)
      BY <2>1 DEF Always, Ever
    <2>4. ASSUME Answered(OfName, "found")
          PROVE  listed[answer.op.name] = [layer |-> answer.layer, entry |-> answer.entry]
      <3> DEFINE n == answer.op.name
      <3>1. n \in Names /\ Wins(answer.layer, n) /\ answer.layer \in Layers
            /\ Held(answer.layer, n, answer.entry)
        BY <2>1, <2>4 DEF ViewInv, ReadType, AnswerRight, Answered, Held
      <3>2. listed[n] # None
        BY <2>3, <3>1 DEF ViewInv, ListedRight, Wins
      <3>3. WinsBefore(Depth + 1, listed[n].layer, n)
            /\ listed[n] = [layer |-> listed[n].layer, entry |-> layers[listed[n].layer][n]]
        BY <3>1, <3>2 DEF ViewInv, ListedRight
      <3>4. listed[n].layer = answer.layer
        BY <2>3, <3>1, <3>3, AllLayers DEF Wins, WinsBefore, Layers
      <3>5. answer.entry = layers[answer.layer][n]
        BY <2>1, <3>1 DEF Held
      <3> QED BY <3>3, <3>4, <3>5
    <2>5. ASSUME Answered(OfName, "absent") PROVE listed[answer.op.name] = None
      <3> DEFINE n == answer.op.name
      <3>1. n \in Names /\ ~\E i \in Layers : /\ Always(i, n)
                                             /\ \A j \in (i + 1)..Depth : ~Ever(j, n)
        BY <2>1, <2>2, <2>5 DEF ViewInv, AnswerRight, Answered
      <3>2. listed[n] # None => WinsBefore(Depth + 1, listed[n].layer, n)
        BY <3>1 DEF ViewInv, ListedRight
      <3> QED BY <2>3, <3>1, <3>2, AllLayers DEF WinsBefore, Layers
    <2>6. ~Answered(OfName, "error")
      BY <2>2 DEF ViewInv, ErrorsAreTold, Answered
    <2> QED BY <2>4, <2>5, <2>6
  <1> QED BY <1>1, ViewInvariant, PTL

----------------------------------------------------------------------------
\* What the reading of the layers for Shadowed has found so far: the layers before
\* a position that have each name, in order.
HeldIn(n) == {holders[n][i] : i \in 1..Len(holders[n])}
HoldersBefore(p) ==
    \A n \in Names :
        /\ \A i \in 1..Len(holders[n]) : \A j \in 1..Len(holders[n]) :
              i < j => holders[n][i] < holders[n][j]
        /\ \A h \in HeldIn(n) : h < p /\ Ever(h, n)
        /\ \A i \in Layers : i < p /\ Always(i, n) => i \in HeldIn(n)

HoldersType == holders \in [Names -> Seq(Layers)]
HoldersRight ==
    /\ op.kind = "shadowed" => HoldersBefore(at)
    /\ Answered({"shadowed"}, "found") => HoldersBefore(Depth + 1)
HoldersInv == HoldersType /\ HoldersRight

\* One more layer has the name.
LEMMA OneMoreHolder ==
    ASSUME NEW s \in Seq(Layers), NEW i \in Layers,
           \A j \in 1..Len(s) : s[j] < i,
           \A j, l \in 1..Len(s) : j < l => s[j] < s[l]
    PROVE  LET t == Append(s, i)
           IN  /\ t \in Seq(Layers)
               /\ \A j, l \in 1..Len(t) : j < l => t[j] < t[l]
               /\ {t[j] : j \in 1..Len(t)} = {s[j] : j \in 1..Len(s)} \cup {i}
  <1> DEFINE t == Append(s, i)
  <1>1. /\ t \in Seq(Layers) /\ Len(s) \in Nat /\ Len(t) = Len(s) + 1
        /\ t[Len(s) + 1] = i /\ \A j \in 1..Len(s) : t[j] = s[j]
    BY DEF Layers
  <1>2. ASSUME NEW j \in 1..Len(t), NEW l \in 1..Len(t), j < l PROVE t[j] < t[l]
    <2>1. j \in 1..Len(s) /\ (l \in 1..Len(s) \/ l = Len(s) + 1)
      BY <1>1, <1>2
    <2> QED BY <1>1, <1>2, <2>1
  <1>3. {t[j] : j \in 1..Len(t)} = {s[j] : j \in 1..Len(s)} \cup {i}
    <2>1. ASSUME NEW j \in 1..Len(t) PROVE t[j] \in {s[l] : l \in 1..Len(s)} \cup {i}
      <3>1. j \in 1..Len(s) \/ j = Len(s) + 1
        BY <1>1
      <3> QED BY <1>1, <3>1
    <2>2. i \in {t[j] : j \in 1..Len(t)} /\ \A j \in 1..Len(s) : s[j] \in {t[l] : l \in 1..Len(t)}
      BY <1>1
    <2> QED BY <2>1, <2>2
  <1> QED BY <1>1, <1>2, <1>3

LEMMA HoldersRead ==
    ASSUME ViewInv, HoldersInv, ReadLayer \/ SkipMissing
    PROVE  HoldersInv'
  <1>1. /\ op # Idle /\ op' = op /\ at \in Layers /\ at' = at + 1 /\ UNCHANGED <<layers, past>>
        /\ This # Unreadable /\ This \in past[at]
    BY AllLayers, VersionsAssumption
       DEF ReadLayer, SkipMissing, Reading, Readable, ViewInv, ReadType, PastRight, Layers, This
  <1>2. ~Answered({"shadowed"}, "found")'
    BY <1>1 DEF Answered
  <1>3. CASE op.kind # "shadowed"
    BY <1>1, <1>2, <1>3 DEF ReadLayer, SkipMissing, HoldersInv, HoldersType, HoldersRight
  <1>4. CASE op.kind = "shadowed"
    <2>1. \A n \in Names : IF Has(This, n) THEN holders'[n] = Append(holders[n], at)
                           ELSE holders'[n] = holders[n]
      BY <1>4, VersionsAssumption DEF ReadLayer, SkipMissing, Noted, Has, Readable, HoldersInv, HoldersType
    <2>2. ASSUME NEW n \in Names
          PROVE  /\ holders'[n] \in Seq(Layers)
                 /\ \A i \in 1..Len(holders'[n]) : \A j \in 1..Len(holders'[n]) :
                       i < j => holders'[n][i] < holders'[n][j]
                 /\ HeldIn(n)' = HeldIn(n) \cup (IF Has(This, n) THEN {at} ELSE {})
      <3>1. /\ holders[n] \in Seq(Layers) /\ \A h \in HeldIn(n) : h < at
            /\ \A i \in 1..Len(holders[n]) : \A j \in 1..Len(holders[n]) :
                  i < j => holders[n][i] < holders[n][j]
        BY <1>4 DEF HoldersInv, HoldersType, HoldersRight, HoldersBefore
      <3>2. CASE Has(This, n)
        <4>1. \A j \in 1..Len(holders[n]) : holders[n][j] < at
          BY <3>1 DEF HeldIn
        <4>2. holders'[n] = Append(holders[n], at)
          BY <2>1, <3>2
        <4>3. LET t == Append(holders[n], at)
              IN  /\ t \in Seq(Layers)
                  /\ \A j, l \in 1..Len(t) : j < l => t[j] < t[l]
                  /\ {t[j] : j \in 1..Len(t)} = HeldIn(n) \cup {at}
          BY <1>1, <3>1, <4>1, OneMoreHolder DEF HeldIn
        <4> QED BY <3>2, <4>2, <4>3 DEF HeldIn
      <3>3. CASE ~Has(This, n)
        BY <2>1, <3>1, <3>3 DEF HeldIn
      <3> QED BY <3>2, <3>3
    <2>3. HoldersType'
      <3>1. holders' = [n \in Names |-> holders'[n]]
        BY <1>4 DEF ReadLayer, SkipMissing, Noted, HoldersInv, HoldersType
      <3> QED BY <2>2, <3>1 DEF HoldersType
    <2>4. ASSUME NEW n \in Names
          PROVE  /\ \A h \in HeldIn(n)' : h < at + 1 /\ Ever(h, n)
                 /\ \A i \in Layers : i < at + 1 /\ Always(i, n) => i \in HeldIn(n)'
      <3>1. /\ \A h \in HeldIn(n) : h < at /\ Ever(h, n) /\ h \in Layers
            /\ \A i \in Layers : i < at /\ Always(i, n) => i \in HeldIn(n)
        <4>1. HeldIn(n) \subseteq Layers
          BY DEF HoldersInv, HoldersType, HeldIn
        <4> QED BY <1>4, <4>1 DEF HoldersInv, HoldersRight, HoldersBefore
      <3>2. Has(This, n) => Ever(at, n)
        BY <1>1 DEF Ever
      <3>3. Always(at, n) => Has(This, n)
        BY <1>1 DEF Always
      <3>4. \A i \in Layers : i < at + 1 <=> i < at \/ i = at
        BY <1>1, AllLayers
      <3> QED BY <1>1, <2>2, <3>1, <3>2, <3>3, <3>4
    <2>5. HoldersBefore(at)'
      BY <1>1, <2>2, <2>4 DEF HoldersBefore, Ever, Always, Has, Readable
    <2> QED BY <1>2, <2>3, <2>5 DEF HoldersInv, HoldersRight
  <1> QED BY <1>3, <1>4

LEMMA HoldersEdit ==
    ASSUME ViewInv, HoldersInv, NEW i \in Layers, NEW version \in Versions, Edit(i, version)
    PROVE  HoldersInv'
  <1>1. UNCHANGED <<op, at, answer, holders>> /\ \A j \in Layers : past[j] \subseteq past'[j]
    BY DEF Edit, reading, ViewInv, ReadType
  <1>2. ASSUME NEW p, HoldersBefore(p) PROVE HoldersBefore(p)'
    <2>1. \A n : HeldIn(n)' = HeldIn(n)
      BY <1>1 DEF HeldIn
    <2>2. \A n \in Names : HeldIn(n) \subseteq Layers
      BY DEF HoldersInv, HoldersType, HeldIn
    <2>3. /\ \A j \in Layers, n \in Names : Ever(j, n) => Ever(j, n)'
          /\ \A j \in Layers, n \in Names : ~Always(j, n) => ~Always(j, n)'
      BY <1>1, PastGrows DEF ViewInv
    <2> QED BY <1>1, <1>2, <2>1, <2>2, <2>3 DEF HoldersBefore
  <1> QED BY <1>1, <1>2 DEF HoldersInv, HoldersType, HoldersRight, Answered

LEMMA HoldersStep == ViewInv /\ HoldersInv /\ [Next]_vars => HoldersInv'
  <1> SUFFICES ASSUME ViewInv, HoldersInv, [Next]_vars PROVE HoldersInv'
    OBVIOUS
  <1>1. ASSUME NEW o \in Ops \ {Idle}, Begin(o) PROVE HoldersInv'
    <2>1. op' = o /\ o # Idle /\ at' = 1 /\ holders' = NoHolder
      BY <1>1 DEF Begin
    <2>2. HoldersBefore(1)'
      <3>1. \A n \in Names : HeldIn(n)' = {} /\ Len(holders'[n]) = 0
        BY <2>1 DEF HeldIn, NoHolder
      <3> QED BY <3>1, AllLayers DEF HoldersBefore, Layers
    <2> QED BY <2>1, <2>2 DEF HoldersInv, HoldersType, HoldersRight, Answered, NoHolder, HoldersBefore
  <1>2. ASSUME FailLayer \/ List \/ NobodyHas \/ Found \/ WentAway PROVE HoldersInv'
    <2>1. op' = Idle /\ holders' = holders /\ (answer'.op.kind = "shadowed" => answer'.how # "found")
      BY <1>2, VersionsAssumption
         DEF FailLayer, List, NobodyHas, Found, WentAway, Ends, Resolving, OfName
    <2> QED BY <2>1 DEF HoldersInv, HoldersType, HoldersRight, Answered, Idle
  <1>3. ASSUME Shadowed PROVE HoldersInv'
    <2>1. /\ op.kind = "shadowed" /\ op # Idle /\ AllRead /\ op' = Idle
          /\ UNCHANGED <<holders, past, layers>>
      BY <1>3 DEF Shadowed, Ends, Idle
    <2>2. HoldersBefore(Depth + 1)
      BY <2>1, AllWereRead DEF HoldersInv, HoldersRight
    <2>3. HoldersBefore(Depth + 1)'
      BY <2>1, <2>2 DEF HoldersBefore, HeldIn, Ever, Always, Has, Readable
    <2> QED BY <2>1, <2>3 DEF HoldersInv, HoldersType, HoldersRight, Idle
  <1>4. ASSUME UNCHANGED <<layers, reading, past>> PROVE HoldersInv'
    BY <1>4 DEF reading, HoldersInv, HoldersType, HoldersRight, HoldersBefore, HeldIn, Answered, Ever,
       Always, Has, Readable
  <1> QED BY <1>1, <1>2, <1>3, <1>4, HoldersRead, HoldersEdit DEF Next, vars, ReadPortion

LEMMA HoldersInvariant == Spec => []HoldersInv
  <1>1. Init => HoldersInv
    BY DEF Init, HoldersInv, HoldersType, HoldersRight, NoHolder, NoAnswer, Answered, Idle
  <1> QED BY <1>1, HoldersStep, ViewInvariant, PTL DEF Spec

\* Whatever is edited while it is read, a report of shadowed names has every layer
\* that has the name all along, in declared order, and no layer that never had it;
\* as long as nothing is edited, its winner is the layer a listing names.
THEOREM ShadowsAreRight == Spec => []ShadowsRight
  <1>1. ViewInv /\ HoldersInv => ShadowsRight
    <2> SUFFICES ASSUME ViewInv, HoldersInv, Answered({"shadowed"}, "found"), NEW n \in Names
                 PROVE  /\ \A i \in 1..Len(holders[n]) : \A j \in 1..Len(holders[n]) :
                              i < j => holders[n][i] < holders[n][j]
                        /\ \A i \in Layers : (Always(i, n) => i \in HeldIn(n))
                                             /\ (i \in HeldIn(n) => Ever(i, n))
                        /\ listed # None => IF HeldIn(n) = {} THEN listed[n] = None
                              ELSE listed[n].layer = holders[n][Len(holders[n])]
      BY DEF ShadowsRight, HeldIn
    <2>1. HoldersBefore(Depth + 1) /\ holders[n] \in Seq(Layers)
      BY DEF HoldersInv, HoldersType, HoldersRight
    <2>2. ASSUME listed # None
          PROVE  IF HeldIn(n) = {} THEN listed[n] = None
                 ELSE listed[n].layer = holders[n][Len(holders[n])]
      <3>1. \A i \in Layers : Always(i, n) <=> Ever(i, n)
        BY <2>2 DEF ViewInv, ListedRight, Calm, Always, Ever
      <3>2. \A i \in Layers : i \in HeldIn(n) <=> Always(i, n)
        BY <2>1, <3>1, AllLayers DEF HoldersBefore
      <3>3. HeldIn(n) \subseteq Layers
        BY <2>1 DEF HeldIn
      <3>4. IF listed[n] = None THEN \A i \in Layers : ~Always(i, n)
            ELSE WinsBefore(Depth + 1, listed[n].layer, n)
        BY <2>2 DEF ViewInv, ListedRight
      <3>5. CASE HeldIn(n) = {}
        BY <3>1, <3>2, <3>4, <3>5 DEF WinsBefore
      <3>6. CASE HeldIn(n) # {}
        <4> DEFINE last == holders[n][Len(holders[n])]
        <4>1. Len(holders[n]) \in 1..Len(holders[n]) /\ last \in HeldIn(n)
          BY <2>1, <3>6 DEF HeldIn
        <4>2. \A h \in HeldIn(n) : h <= last
          BY <2>1, <3>3, <4>1, AllLayers DEF HoldersBefore, HeldIn
        <4>3. WinsBefore(Depth + 1, listed[n].layer, n) /\ listed[n].layer \in HeldIn(n)
          BY <3>1, <3>2, <3>3, <3>4, <4>1 DEF WinsBefore
        <4>4. last \in Layers /\ Always(last, n)
          BY <3>2, <3>3, <4>1
        <4> QED BY <3>6, <4>2, <4>3, <4>4, AllLayers DEF WinsBefore
      <3> QED BY <3>5, <3>6
    <2> QED BY <2>1, <2>2, AllLayers DEF HoldersBefore
  <1> QED BY <1>1, HoldersInvariant, ViewInvariant, PTL

----------------------------------------------------------------------------
\* Finitely many numbers can be put in order: the place of each of them is told by
\* how many are not above it.
UpTo(S, n) == {m \in S : m <= n}

LEMMA RankGrows ==
    ASSUME NEW S \in SUBSET Nat, IsFiniteSet(S), NEW a \in S, NEW b \in S, a < b
    PROVE  Cardinality(UpTo(S, a)) < Cardinality(UpTo(S, b))
  <1>1. /\ UpTo(S, a) \in SUBSET UpTo(S, b) /\ UpTo(S, b) \in SUBSET S
        /\ b \in UpTo(S, b) /\ b \notin UpTo(S, a)
    <2>1. a \in Nat /\ b \in Nat /\ \A m \in S : m \in Nat
      OBVIOUS
    <2>2. \A m \in S : m <= a => m <= b
      BY <2>1
    <2>3. b <= b /\ ~(b <= a)
      BY <2>1
    <2> QED BY <2>2, <2>3, Zenon DEF UpTo
  <1>2. IsFiniteSet(UpTo(S, b)) /\ IsFiniteSet(UpTo(S, a))
    BY <1>1, FS_Subset
  <1>3. /\ Cardinality(UpTo(S, a)) <= Cardinality(UpTo(S, b))
        /\ Cardinality(UpTo(S, b)) = Cardinality(UpTo(S, a)) => UpTo(S, b) = UpTo(S, a)
    BY <1>1, <1>2, FS_Subset
  <1>4. Cardinality(UpTo(S, a)) \in Nat /\ Cardinality(UpTo(S, b)) \in Nat
    BY <1>2, FS_CardinalityType
  <1> QED BY <1>1, <1>3, <1>4

LEMMA OrderExists ==
    ASSUME NEW S \in SUBSET Nat, IsFiniteSet(S)
    PROVE  \E s \in [1..Cardinality(S) -> S] : \A i, j \in DOMAIN s : i < j => s[i] < s[j]
  <1> DEFINE N == Cardinality(S)
             rank == [n \in S |-> Cardinality(UpTo(S, n))]
  <1>1. N \in Nat
    BY FS_CardinalityType
  <1>2. rank \in [S -> 1..N]
    <2> SUFFICES ASSUME NEW n \in S PROVE Cardinality(UpTo(S, n)) \in 1..N
      OBVIOUS
    <2>1. UpTo(S, n) \in SUBSET S /\ n \in UpTo(S, n)
      BY DEF UpTo
    <2>2. IsFiniteSet(UpTo(S, n)) /\ Cardinality(UpTo(S, n)) <= N
      BY <2>1, FS_Subset
    <2>3. Cardinality(UpTo(S, n)) \in Nat /\ Cardinality(UpTo(S, n)) # 0
      BY <2>1, <2>2, FS_CardinalityType, FS_EmptySet
    <2> QED BY <1>1, <2>2, <2>3
  <1>3. \A a, b \in S : a < b => rank[a] < rank[b]
    BY RankGrows
  <1>4. \A a, b \in S : rank[a] = rank[b] => a = b
    <2> SUFFICES ASSUME NEW a \in S, NEW b \in S, rank[a] = rank[b] PROVE a = b
      OBVIOUS
    <2>1. a \in Nat /\ b \in Nat /\ rank[a] \in Nat /\ rank[b] \in Nat
      BY <1>1, <1>2
    <2> QED BY <1>3, <2>1
  <1>5. rank \in Surjection(S, 1..N)
    <2>1. rank \in Injection(S, 1..N)
      BY <1>2, <1>4 DEF Injection, IsInjective
    <2>2. IsFiniteSet(1..N) /\ Cardinality(1..N) = N
      BY <1>1, FS_Interval
    <2> HIDE DEF rank
    <2> QED BY <2>1, <2>2, FS_Injection
  <1>6. \A i \in 1..N : \E n \in S : rank[n] = i
    BY <1>5 DEF Surjection
  <1> DEFINE s == [i \in 1..N |-> CHOOSE n \in S : rank[n] = i]
  <1> HIDE DEF rank, N
  <1>7. s \in [1..N -> S] /\ \A i \in 1..N : s[i] \in S /\ rank[s[i]] = i
    BY <1>6
  <1> HIDE DEF s
  <1>8. ASSUME NEW i \in DOMAIN s, NEW j \in DOMAIN s, i < j PROVE s[i] < s[j]
    <2>1. i \in 1..N /\ j \in 1..N /\ s[i] \in Nat /\ s[j] \in Nat
      BY <1>7
    <2>2. ~(s[j] < s[i]) /\ s[i] # s[j]
      BY <1>1, <1>3, <1>7, <1>8, <2>1
    <2> QED BY <2>1, <2>2
  <1> QED BY <1>7, <1>8 DEF N

LEMMA InOrderIs ==
    ASSUME NEW S \in SUBSET Names
    PROVE  /\ InOrder(S) \in Seq(Names)
           /\ \A i, j \in 1..Len(InOrder(S)) : i < j => InOrder(S)[i] < InOrder(S)[j]
  <1>1. S \in SUBSET Nat /\ IsFiniteSet(S) /\ Cardinality(S) \in Nat
    BY NamesAssumption, FS_Subset, FS_CardinalityType
  <1>2. /\ InOrder(S) \in [1..Cardinality(S) -> S]
        /\ \A i, j \in DOMAIN InOrder(S) : i < j => InOrder(S)[i] < InOrder(S)[j]
    BY <1>1, OrderExists DEF InOrder
  <1>3. InOrder(S) \in Seq(S) /\ DOMAIN InOrder(S) = 1..Len(InOrder(S))
    BY <1>1, <1>2
  <1>4. InOrder(S) \in Seq(Names)
    BY <1>3
  <1> QED BY <1>2, <1>3, <1>4

\* Two adjacent portions are one.
LEMMA PortionsJoin ==
    ASSUME NEW S, NEW s \in Seq(S), NEW a \in 0..Len(s), NEW m \in 0..(Len(s) - a)
    PROVE  /\ Len(SubSeq(s, a + 1, Len(s))) = Len(s) - a
           /\ SubSeq(s, 1, a) \o SubSeq(SubSeq(s, a + 1, Len(s)), 1, m) = SubSeq(s, 1, a + m)
  <1>1. /\ Len(s) \in Nat /\ a \in Nat /\ m \in Nat /\ a <= Len(s) /\ a + m <= Len(s)
        /\ Len(SubSeq(s, a + 1, Len(s))) = Len(s) - a
    OBVIOUS
  <1>2. SubSeq(SubSeq(s, a + 1, Len(s)), 1, m) = SubSeq(s, a + 1, a + m)
    <2>1. CASE m = 0
      BY <1>1, <2>1, SubSeqEmpty
    <2>2. CASE m # 0
      <3>1. /\ a + 1 \in 1..Len(s) /\ Len(s) \in 1..Len(s)
            /\ 1 \in 1..(Len(s) - (a + 1) + 1) /\ m \in 1..(Len(s) - (a + 1) + 1)
            /\ (a + 1) + 1 - 1 = a + 1 /\ (a + 1) + m - 1 = a + m
        BY <1>1, <2>2
      <3>2. SubSeq(SubSeq(s, a + 1, Len(s)), 1, m) = SubSeq(s, (a + 1) + 1 - 1, (a + 1) + m - 1)
        BY <3>1, SubSeqOfSubSeq
      <3> QED BY <3>1, <3>2
    <2> QED BY <2>1, <2>2
  <1>3. 1 \in 1..(Len(s) + 1) /\ a \in (1 - 1)..Len(s) /\ a + m \in a..Len(s)
    BY <1>1
  <1>4. SubSeq(s, 1, a) \o SubSeq(s, a + 1, a + m) = SubSeq(s, 1, a + m)
    BY <1>3, ConcatAdjacentSubSeq
  <1> QED BY <1>1, <1>2, <1>4

----------------------------------------------------------------------------
\* An open root directory: its names in order, and the portion handed out.
HandleInv ==
    /\ entries \in Seq(Names) /\ offset \in 0..Len(entries) /\ eof \in BOOLEAN
    /\ served = SubSeq(entries, 1, offset)
    /\ eof => offset = Len(entries)
    /\ \A i, j \in 1..Len(entries) : i < j => entries[i] < entries[j]

\* The rest of what has a type.
NotesType ==
    /\ answer \in Answer /\ edits \in 0..MaxEdits
    /\ listed \in [Names -> Winner \cup {None}] \cup {None}

LEMMA FreshHandle ==
    ASSUME NEW s \in Seq(Names), \A i, j \in 1..Len(s) : i < j => s[i] < s[j],
           entries' = s, offset' = 0, served' = <<>>, eof' = FALSE
    PROVE  HandleInv'
  <1>1. 0 \in 0..Len(s) /\ SubSeq(s, 1, 0) = <<>>
    BY SubSeqEmpty
  <1> QED BY <1>1, Zenon DEF HandleInv

LEMMA NoNames == <<>> \in Seq(Names) /\ \A i, j \in 1..Len(<<>>) : i < j => <<>>[i] < <<>>[j]
  OBVIOUS

LEMMA HandleRead ==
    ASSUME HandleInv, NEW n \in Portions, ReadPortion(n)
    PROVE  HandleInv'
  <1> DEFINE m == IF n <= 0 \/ n > Len(Rest) THEN Len(Rest) ELSE n
  <1>1. /\ offset' = offset + m /\ served' = served \o SubSeq(Rest, 1, m)
        /\ eof' = (n > 0 /\ Rest = <<>>) /\ entries' = entries
    BY DEF ReadPortion
  <1>2. Len(entries) \in Nat /\ offset \in 0..Len(entries) /\ n \in Int /\ entries \in Seq(Names)
    BY BoundsAssumption DEF HandleInv
  <1>3. Len(Rest) = Len(entries) - offset
    BY <1>2, PortionsJoin DEF Rest
  <1>4. m \in 0..(Len(entries) - offset) /\ offset + m \in 0..Len(entries)
    BY <1>2, <1>3
  <1> HIDE DEF m
  <1>5. served' = SubSeq(entries, 1, offset + m)
    BY <1>1, <1>2, <1>4, PortionsJoin DEF HandleInv, Rest
  <1>6. eof' => offset + m = Len(entries)
    <2>1. eof' => Rest = <<>>
      BY <1>1, Zenon
    <2> QED BY <1>2, <1>3, <1>4, <2>1
  <1> QED BY <1>1, <1>4, <1>5, <1>6 DEF HandleInv

LEMMA HandleStep == HandleInv /\ ViewInv /\ [Next]_vars => HandleInv'
  <1> SUFFICES ASSUME HandleInv, ViewInv, [Next]_vars PROVE HandleInv'
    OBVIOUS
  <1>1. ASSUME NEW o \in Ops \ {Idle}, Begin(o) PROVE HandleInv'
    BY <1>1, FreshHandle, NoNames DEF Begin
  <1>2. ASSUME List PROVE HandleInv'
    BY <1>2, FreshHandle, InOrderIs DEF List, Merged
  <1>3. ASSUME UNCHANGED handle PROVE HandleInv'
    BY <1>3 DEF handle, HandleInv
  <1> QED BY <1>1, <1>2, <1>3, HandleRead
          DEF Next, vars, ReadLayer, SkipMissing, FailLayer, Shadowed, NobodyHas, Found, WentAway, Edit

LEMMA HandleInvariant == Spec => []HandleInv
  <1>1. Init => HandleInv
    <2> SUFFICES ASSUME Init PROVE HandleInv
      OBVIOUS
    <2>1. entries = <<>> /\ offset = 0 /\ served = <<>> /\ eof = FALSE
      BY DEF Init
    <2>2. 0 \in 0..Len(entries) /\ SubSeq(entries, 1, 0) = <<>>
      BY <2>1, SubSeqEmpty
    <2> QED BY <2>1, <2>2, NoNames, Zenon DEF HandleInv
  <1> QED BY <1>1, HandleStep, ViewInvariant, PTL DEF Spec

\* Whatever the portions asked for, an open directory hands out each of its names
\* once, in order, and says EOF after the last.
THEOREM PortionsAlwaysAddUp == Spec => []PortionsAddUp
  <1>1. HandleInv => PortionsAddUp
    BY SubSeqFull DEF HandleInv, PortionsAddUp
  <1> QED BY <1>1, HandleInvariant, PTL

LEMMA NotesStep == NotesType /\ ViewInv /\ [Next]_vars => NotesType'
  <1> SUFFICES ASSUME NotesType, ViewInv, [Next]_vars PROVE NotesType'
    OBVIOUS
  <1>1. ASSUME NEW how \in {"found", "absent", "error"}, NEW layer \in 0..Depth,
               NEW entry \in Kept \cup {None}, Ends(how, layer, entry),
               UNCHANGED listed \/ List
        PROVE  NotesType'
    <2>1. answer' \in Answer /\ edits' = edits
      BY <1>1 DEF Ends, Answer, ViewInv, ReadType
    <2>2. listed' \in [Names -> Winner \cup {None}] \cup {None}
      BY <1>1 DEF List, NotesType, ViewInv, ReadType
    <2> QED BY <2>1, <2>2 DEF NotesType
  <1>2. 0 \in 0..Depth /\ None \in Kept \cup {None}
    BY DepthAssumption
  <1>3. CASE FailLayer
    BY <1>1, <1>2, <1>3 DEF FailLayer
  <1>4. CASE List
    BY <1>1, <1>2, <1>4 DEF List
  <1>5. CASE Shadowed \/ NobodyHas \/ WentAway
    BY <1>1, <1>2, <1>5 DEF Shadowed, NobodyHas, WentAway
  <1>6. CASE Found
    <2>1. op # Idle /\ op.kind \in OfName /\ AllRead /\ op.name \in Names /\ op.kind # "shadowed"
      BY <1>6, OpKinds DEF Found, Resolving, OfName, Idle, ViewInv, ReadType
    <2>2. W \in Layers /\ W \in 0..Depth
      BY <1>6, <2>1, AllWereRead, AllLayers DEF Found, ViewInv, OwnersRight, WinsBefore, W, Layers
    <2>3. layers[W][op.name] \in Kept \cup {None}
      BY <1>6, <2>1, <2>2, LayerValue DEF Found, Has, ViewInv
    <2> QED BY <1>1, <1>6, <2>2, <2>3 DEF Found
  <1>7. ASSUME NEW o \in Ops \ {Idle}, Begin(o) PROVE NotesType'
    BY <1>2, <1>7 DEF Begin, NotesType, NoAnswer, Answer, Ops
  <1>8. ASSUME NEW i \in Layers, NEW v \in Versions, Edit(i, v) PROVE NotesType'
    BY <1>8, BoundsAssumption DEF Edit, reading, NotesType
  <1>9. ASSUME UNCHANGED <<answer, listed, edits>> PROVE NotesType'
    BY <1>9 DEF NotesType
  <1> QED BY <1>3, <1>4, <1>5, <1>6, <1>7, <1>8, <1>9
          DEF Next, vars, reading, ReadLayer, SkipMissing, ReadPortion

\* Every variable keeps to its type.
THEOREM ViewIsTyped == Spec => []TypeOK
  <1>1. Init => NotesType
    BY DepthAssumption, BoundsAssumption DEF Init, NotesType, NoAnswer, Answer, Ops
  <1>2. HandleInv => served \in Seq(Names)
    <2> SUFFICES ASSUME HandleInv PROVE SubSeq(entries, 1, offset) \in Seq(Names)
      BY DEF HandleInv
    <2>1. offset \in Nat /\ offset <= Len(entries) /\ \A i \in 1..offset : entries[i] \in Names
      BY DEF HandleInv
    <2> QED BY <2>1, SubSeqProperties
  <1>3. ViewInv /\ HoldersInv /\ HandleInv /\ NotesType => TypeOK
    BY <1>2 DEF ViewInv, ReadType, HoldersInv, HoldersType, HandleInv, NotesType, TypeOK
  <1> QED BY <1>1, <1>3, NotesStep, HoldersInvariant, HandleInvariant, ViewInvariant, PTL DEF Spec

=============================================================================
