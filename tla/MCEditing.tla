----------------------------- MODULE MCEditing -----------------------------
(***************************************************************************)
(* Documents of two or three blocks, with anchors, merge keys, a name used *)
(* twice, and what people break.                                           *)
(***************************************************************************)
EXTENDS Editing, TLC

CONSTANTS base, scratch, other, anchor, e1, e2

Says4(t, s, f, e) == ("target" :> t) @@ ("sources" :> s) @@ ("folders" :> f) @@ ("enabled" :> e)
MCDefault == Says4(None, None, "all", "true")
MCValues == {"/a", "/b", "/b/c", "/d", "one", "two", "all", "some", "true", "false"}
MCNested == {<<"/b/c", "/b">>}

Plain(n, t, s) == [name |-> n, anchor |-> None, merge |-> None,
                   says |-> Says4(t, s, None, None)]
Anchored(n, t, s, e) == [name |-> n, anchor |-> anchor, merge |-> None,
                         says |-> Says4(t, s, "some", e)]
Heir(n, t) == [name |-> n, anchor |-> None, merge |-> anchor,
               says |-> Says4(t, None, None, None)]

MCWritten == {
    <<>>,
    <<Anchored(base, "/a", "one", "false"), Heir(scratch, "/b")>>,
    <<Anchored(other, "/d", "two", None), Anchored(base, "/a", "one", None), Heir(scratch, "/b")>>,
    <<Plain(base, "/a", "one"), Plain(base, "/d", "two")>>,
    <<Plain(base, "/b", None), Plain(scratch, "/b/c", "one")>>,
    <<Heir(scratch, "/b"), Anchored(base, "/a", "one", None)>>,
    <<[Anchored(base, "/a", None, None) EXCEPT !.merge = anchor]>> }

Declares(n, t, s, f, e) == [kind |-> "declare", name |-> n, says |-> Says4(t, s, f, e)]
MCCommands == {
    Declares(base, "/a", "two", None, None),
    Declares(scratch, "/b", "one", "some", "false"),
    Declares(other, "/b/c", "one", None, None),
    [kind |-> "remove", name |-> base, says |-> NoSays],
    [kind |-> "remove", name |-> scratch, says |-> NoSays],
    [kind |-> "enable", name |-> base, says |-> Says4(None, None, None, "true")],
    [kind |-> "enable", name |-> scratch, says |-> Says4(None, None, None, "true")],
    [kind |-> "enable", name |-> base, says |-> Says4(None, None, None, "false")] }

\* The commands differ in nothing but what they are asked to do.
MCSymmetry == Permutations(Editors)
============================================================================
