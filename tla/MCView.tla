------------------------------- MODULE MCView -------------------------------
(***************************************************************************)
(* A view of three layers and two names.  A layer may have one of the      *)
(* names or both, and may change what an entry is.                         *)
(***************************************************************************)
EXTENDS View, TLC

CONSTANTS file, dir

One == (1 :> file) @@ (2 :> None)
Both == (1 :> dir) @@ (2 :> file)

MCVersions == {One, Both, Missing, Unreadable}
============================================================================
