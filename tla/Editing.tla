------------------------------ MODULE Editing ------------------------------
(***************************************************************************)
(* The commands that edit the configuration (sdk/config/file.go): read the *)
(* document, change one block of it, validate the result, put it in place  *)
(* through a temporary file, and report every workspace whose meaning      *)
(* changed.  Nothing is locked: people save the file, and other commands   *)
(* edit it, between any two of those steps.                                *)
(*                                                                         *)
(* Abstracted: a document is the sequence of its blocks.  A block says     *)
(* some of the fields and may inherit the others, by a merge key, from the *)
(* block that carries an anchor.  A path is its resolved form, and a list  *)
(* of sources or of folders is one value.  Layout and comments, values     *)
(* of a wrong type and unknown keys are left out.                          *)
(***************************************************************************)
EXTENDS Naturals, SequencesExt

CONSTANTS
    Editors,    \* commands that run at the same time
    Names,      \* names of workspaces
    Anchors,    \* names of anchors
    Values,     \* what a field may say
    None,       \* no anchor, no merge key, a field that is not there
    Default,    \* what the fields that may be left out mean then
    Nested,     \* pairs of targets, the first of which lies in the second
    Commands,   \* what the commands are asked to do
    Written,    \* documents that people write
    Hand,       \* the people who write them
    MaxEdits,   \* bound on commands
    MaxEvents   \* bound on saves, failures and kills

Fields == {"target", "sources", "folders", "enabled"}
Says == [Fields -> Values \cup {None}]
Block == [name : Names, anchor : Anchors \cup {None}, merge : Anchors \cup {None}, says : Says]
Docs == Seq(Block)
Command == [kind : {"declare", "remove", "enable"}, name : Names, says : Says]

ASSUME ValuesAssumption ==
    /\ None \notin Values \cup Anchors \cup Names
    /\ Default \in Says /\ Default["target"] = None /\ Default["sources"] = None
ASSUME CommandsAssumption ==
    /\ Commands \subseteq Command /\ None \notin Commands
    /\ \A c \in Commands :
         /\ c.kind = "declare" => c.says["target"] # None /\ c.says["sources"] # None
         /\ c.kind = "enable" => c.says["enabled"] # None
ASSUME EditorsAssumption == Written \subseteq Docs /\ Hand \notin Editors
ASSUME BoundsAssumption == MaxEdits \in Nat /\ MaxEvents \in Nat

----------------------------------------------------------------------------
\* What a document means.

\* An alias refers to the last anchor of that name up to it.
Carriers(doc, i) == {j \in 1..i : doc[j].anchor = doc[i].merge}
Base(doc, i) == Max(Carriers(doc, i))
Merges(doc, i) == doc[i].merge # None

\* An unknown anchor is an error of syntax; a block merged into itself is found
\* out when it is decoded.
Parses(doc) == \A i \in 1..Len(doc) : Merges(doc, i) => Carriers(doc, i) # {}
Grounded(doc) == \A i \in 1..Len(doc) : Merges(doc, i) => Base(doc, i) # i

\* The fields of a block, its own before those it inherits.
Filled(doc, stated, i) ==
    [f \in Fields |-> IF doc[i].says[f] # None THEN doc[i].says[f]
                      ELSE IF Merges(doc, i) THEN stated[Base(doc, i)][f]
                      ELSE None]
Stated(doc) == LET stated[i \in 1..Len(doc)] == Filled(doc, stated, i) IN stated
Meanings(doc) ==
    LET stated == Stated(doc)
    IN  [i \in 1..Len(doc) |->
            [f \in Fields |-> IF stated[i][f] = None THEN Default[f] ELSE stated[i][f]]]

Overlap(s, t) == s = t \/ <<s, t>> \in Nested \/ <<t, s>> \in Nested

\* resolve and checkTargets.
Valid(doc) ==
    /\ Parses(doc) /\ Grounded(doc)
    /\ LET m == Meanings(doc)
       IN  /\ \A i \in 1..Len(doc) : m[i]["target"] # None /\ m[i]["sources"] # None
           /\ \A i, j \in 1..Len(doc) : i # j => ~Overlap(m[i]["target"], m[j]["target"])

Called(doc, n) == {i \in 1..Len(doc) : doc[i].name = n}
IndexOf(doc, n) == Min(Called(doc, n))

\* A mistake: what a block inherits is not compared.
OwnDifference(seen, doc) ==
    {n \in Names :
        \/ \E i \in Called(doc, n) :
             \/ ~Valid(seen) \/ Called(seen, n) = {}
             \/ seen[IndexOf(seen, n)].says # doc[i].says
        \/ Valid(seen) /\ Called(seen, n) # {} /\ Called(doc, n) = {}}

\* Names of the workspaces that do not mean what they meant.  Nothing can be
\* compared with a document that was not valid.
Difference(seen, doc) ==
    {n \in Names :
        \/ \E i \in Called(doc, n) :
             \/ ~Valid(seen) \/ Called(seen, n) = {}
             \/ Meanings(seen)[IndexOf(seen, n)] # Meanings(doc)[i]
        \/ Valid(seen) /\ Called(seen, n) # {} /\ Called(doc, n) = {}}

----------------------------------------------------------------------------
\* The mutations.  Each concerns the first block of the name.

\* A block is replaced whole, except for its anchor, where it stood.
Declare(doc, n, says) ==
    IF Called(doc, n) = {}
    THEN Append(doc, [name |-> n, anchor |-> None, merge |-> None, says |-> says])
    ELSE [doc EXCEPT ![IndexOf(doc, n)] = [@ EXCEPT !.merge = None, !.says = says]]

RemoveBlock(doc, n) == RemoveAt(doc, IndexOf(doc, n))

\* A mistake: a field that is to have its default is left out.
SetUnlessDefault(doc, n, on) ==
    [doc EXCEPT ![IndexOf(doc, n)].says["enabled"] = IF on = Default["enabled"] THEN None ELSE on]

\* A mistake: the field says yes or no.
SetYes(doc, n, on) ==
    [doc EXCEPT ![IndexOf(doc, n)].says["enabled"] = IF on = Default["enabled"] THEN "yes" ELSE "no"]

\* The field is written even when it has its default, since it may be inherited.
SetEnabled(doc, n, on) == [doc EXCEPT ![IndexOf(doc, n)].says["enabled"] = on]

Applies(doc, c) == c.kind # "declare" => Called(doc, c.name) # {}
Applied(doc, c) ==
    CASE c.kind = "declare" -> Declare(doc, c.name, c.says)
      [] c.kind = "remove" -> RemoveBlock(doc, c.name)
      [] c.kind = "enable" -> SetEnabled(doc, c.name, c.says["enabled"])

----------------------------------------------------------------------------
VARIABLES
    file,       \* the document in the file
    author,     \* who wrote it: a command, or people
    pc,         \* where each command is
    command,    \* what it was asked to do
    seen,       \* the document it read
    draft,      \* the document it has validated
    temp,       \* what its temporary file holds
    changed,    \* the workspaces it reports as changed
    crossed,    \* the file was written since it read it
    edits,      \* commands so far
    events      \* saves, failures and kills so far

editor == <<pc, command, seen, draft, temp, changed, crossed>>
vars == <<file, author, editor, edits, events>>

NoSays == [f \in Fields |-> None]
Busy == {"change", "create", "write", "rename"}

TypeOK ==
    /\ file \in Docs /\ author \in Editors \cup {Hand}
    /\ pc \in [Editors -> {"idle", "done"} \cup Busy]
    /\ command \in [Editors -> Commands \cup {None}]
    /\ seen \in [Editors -> Docs] /\ draft \in [Editors -> Docs] /\ temp \in [Editors -> Docs]
    /\ changed \in [Editors -> SUBSET Names] /\ crossed \in [Editors -> BOOLEAN]
    /\ edits \in 0..MaxEdits /\ events \in 0..MaxEvents
    /\ \A e \in Editors : pc[e] \in Busy \cup {"done"} => command[e] # None

Init ==
    /\ file \in Written /\ author = Hand
    /\ pc = [e \in Editors |-> "idle"]
    /\ command = [e \in Editors |-> None]
    /\ seen = [e \in Editors |-> <<>>] /\ draft = seen /\ temp = seen
    /\ changed = [e \in Editors |-> {}] /\ crossed = [e \in Editors |-> FALSE]
    /\ edits = 0 /\ events = 0

Goes(e, to) == pc' = [pc EXCEPT ![e] = to]
Event == events < MaxEvents /\ events' = events + 1

\* The command is over without having replaced the file; what it held is gone.
Gone(e) ==
    /\ Goes(e, "idle")
    /\ command' = [command EXCEPT ![e] = None]
    /\ seen' = [seen EXCEPT ![e] = <<>>]
    /\ draft' = [draft EXCEPT ![e] = <<>>] /\ temp' = [temp EXCEPT ![e] = <<>>]
    /\ changed' = [changed EXCEPT ![e] = {}] /\ crossed' = [crossed EXCEPT ![e] = FALSE]
    /\ UNCHANGED <<file, author>>

\* Read.  A file that is not there is an empty document.
Read(e, c) ==
    /\ pc[e] \notin Busy
    /\ edits < MaxEdits /\ edits' = edits + 1
    /\ Parses(file)
    /\ Goes(e, "change")
    /\ command' = [command EXCEPT ![e] = c]
    /\ seen' = [seen EXCEPT ![e] = file]
    /\ draft' = [draft EXCEPT ![e] = <<>>] /\ temp' = [temp EXCEPT ![e] = <<>>]
    /\ changed' = [changed EXCEPT ![e] = {}] /\ crossed' = [crossed EXCEPT ![e] = FALSE]
    /\ UNCHANGED <<file, author, events>>

\* A file that does not parse cannot be edited.
ReadFails(e) ==
    /\ pc[e] \notin Busy
    /\ edits < MaxEdits /\ edits' = edits + 1
    /\ ~Parses(file)
    /\ Gone(e)
    /\ UNCHANGED events

Result(e) == Applied(seen[e], command[e])

\* A mistake: the document is validated only when it was valid before.
ValidIfItWas(e) == Valid(seen[e]) => Valid(Result(e))

Accepted(e) == Valid(Result(e))

\* The mutation, and the validation of what it makes.
Change(e) ==
    /\ pc[e] = "change"
    /\ Applies(seen[e], command[e]) /\ Accepted(e)
    /\ draft' = [draft EXCEPT ![e] = Result(e)]
    /\ Goes(e, "create")
    /\ UNCHANGED <<file, author, command, seen, temp, changed, crossed, edits, events>>

\* Nothing of that name, or a document that would not be valid: the file stands.
Refuse(e) ==
    /\ pc[e] = "change"
    /\ ~(Applies(seen[e], command[e]) /\ Accepted(e))
    /\ Gone(e)
    /\ UNCHANGED <<edits, events>>

CreateTemp(e) ==
    /\ pc[e] = "create"
    /\ Goes(e, "write")
    /\ temp' = [temp EXCEPT ![e] = <<>>]
    /\ UNCHANGED <<file, author, command, seen, draft, changed, crossed, edits, events>>

WriteTemp(e) ==
    /\ pc[e] = "write"
    /\ Goes(e, "rename")
    /\ temp' = [temp EXCEPT ![e] = draft[e]]
    /\ UNCHANGED <<file, author, command, seen, draft, changed, crossed, edits, events>>

\* The file is replaced at once, and the command reports.
Rename(e) ==
    /\ pc[e] = "rename"
    /\ file' = temp[e] /\ author' = e
    /\ changed' = [changed EXCEPT ![e] = Difference(seen[e], draft[e])]
    /\ crossed' = [x \in Editors |-> IF x = e THEN crossed[e] ELSE TRUE]
    /\ Goes(e, "done")
    /\ UNCHANGED <<command, seen, draft, temp, edits, events>>

\* A step of write fails, and the temporary file is removed; or the command is
\* killed, and leaves behind a temporary file that is never read.
Abandon(e) ==
    /\ pc[e] \in Busy
    /\ Event
    /\ Gone(e)
    /\ UNCHANGED edits

\* People save a document of their own.
Save(doc) ==
    /\ Event
    /\ doc # file
    /\ file' = doc /\ author' = Hand
    /\ crossed' = [e \in Editors |-> TRUE]
    /\ UNCHANGED <<pc, command, seen, draft, temp, changed, edits>>

Next ==
    \/ \E e \in Editors :
         \/ \E c \in Commands : Read(e, c)
         \/ ReadFails(e) \/ Change(e) \/ Refuse(e)
         \/ CreateTemp(e) \/ WriteTemp(e) \/ Rename(e) \/ Abandon(e)
    \/ \E doc \in Written : Save(doc)

Spec == Init /\ [][Next]_vars

----------------------------------------------------------------------------
\* What editing promises.

\* "The result is validated before it is written", "a reader never sees a
\* half-written configuration" (file.go): whatever fails and whoever else writes,
\* a file that a command wrote last is the whole of a valid document.
WrittenIsValid ==
    author \in Editors =>
        /\ Valid(file)
        /\ pc[author] = "done" => file = draft[author]

\* An edit that no other crossed.
Standing(e) == pc[e] = "done" /\ author = e /\ ~crossed[e]
Others(doc, n) == (1..Len(doc)) \ Called(doc, n)
Kept(old, new, n) ==
    \E f \in [Others(old, n) -> Others(new, n)] :
        /\ \A i, j \in Others(old, n) : i < j => f[i] < f[j]
        /\ \A j \in Others(new, n) : \E i \in Others(old, n) : f[i] = j
        /\ \A i \in Others(old, n) : new[f[i]] = old[i]
Now(n) == Meanings(file)[IndexOf(file, n)]
Before(e, n) == Meanings(seen[e])[IndexOf(seen[e], n)]
Alone(doc, n) == Cardinality(Called(doc, n)) <= 1

\* An edit does what it says, whatever the block said and inherited before and
\* whoever inherits from it: "add" states the whole workspace, "rm" leaves none
\* of the name, "enable" and "disable" decide over an inherited value and
\* change nothing else; and every other block stands as it was.
EditTakesHold ==
    \A e \in Editors : Standing(e) =>
        LET c == command[e]
            n == c.name
        IN  /\ Kept(seen[e], file, n)
            /\ c.kind = "declare" =>
                 Now(n) = [f \in Fields |-> IF c.says[f] = None THEN Default[f] ELSE c.says[f]]
            /\ c.kind = "remove" /\ Alone(seen[e], n) => Called(file, n) = {}
            /\ c.kind = "enable" =>
                 /\ Now(n)["enabled"] = c.says["enabled"]
                 /\ Valid(seen[e]) => \A f \in Fields \ {"enabled"} : Now(n)[f] = Before(e, n)[f]

\* "An edit is reported by its effect, not by its argument ... so an alias never
\* changes something silently" (workspace-config.md): of a file that was valid,
\* the report names every workspace that is there no more, is new, or means
\* something else, and, where names are not repeated, no other.
MeansOf(doc, n) == {Meanings(doc)[i] : i \in Called(doc, n)}
ReportTells ==
    \A e \in Editors : Standing(e) /\ Valid(seen[e]) => \A n \in Names :
        /\ MeansOf(seen[e], n) # MeansOf(file, n) => n \in changed[e]
        /\ n \in changed[e] /\ Alone(seen[e], n) => MeansOf(seen[e], n) # MeansOf(file, n)

=============================================================================
