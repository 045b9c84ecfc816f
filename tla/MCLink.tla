------------------------------- MODULE MCLink -------------------------------
(***************************************************************************)
(* Small projects for Link: two tools that hold entries of the same names, *)
(* one of which is the name the other would be given, in a root that is    *)
(* new or that already holds those names.                                  *)
(***************************************************************************)
EXTENDS Link, TLC

CONSTANTS claude, opencode, commit, x, y, socket, locked

MCTools == {claude, opencode}
MCOrders == {<<claude, opencode>>, <<opencode, claude>>}
MCContents == {x, y, socket, locked}

Plain == <<commit>>
Suffixed == <<commit, opencode>>
Numbered == <<commit, opencode, 2>>
MCListing == <<Plain, Suffixed>>

\* What a directory may hold under those names.
Shelf(a, b) == (Plain :> a) @@ (Suffixed :> b) @@ NoEntry
Project(c, o, r) == (claude :> c) @@ (opencode :> o) @@ (Root :> r)

MCTrees == {
    Project(Shelf(x, None), Shelf(x, None), NoEntry),
    Project(Shelf(x, None), Shelf(y, x), NoEntry),
    Project(NoEntry, Shelf(x, None), Shelf(y, y)),
    Project(Shelf(x, None), Shelf(y, None), Shelf(locked, None)),
    Project(Shelf(x, None), NoEntry, Shelf(locked, None)),
    Project(NoEntry, Shelf(socket, None), (Numbered :> x) @@ Shelf(y, socket)) }

MCLayouts == { (claude :> "dir") @@ (opencode :> o) : o \in {"dir", "absent", "elsewhere"} }

\* For the project in which .opencode is a link to .ai.
AliasTrees == {Project(NoEntry, NoEntry, Shelf(x, None))}
AliasLayouts == {(claude :> "absent") @@ (opencode :> "dir")}
AliasOrders == {<<opencode>>}
============================================================================
