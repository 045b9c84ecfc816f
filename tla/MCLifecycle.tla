---------------------------- MODULE MCLifecycle ----------------------------
(***************************************************************************)
(* Small machines for Lifecycle: one or two daemons, one or two commands   *)
(* at a time, two workspaces.                                              *)
(***************************************************************************)
EXTENDS Lifecycle

CONSTANTS p, q, c1, c2, a, b

MCNames == {a, b}

Cmd(o, n) == [op |-> o, name |-> n]
AllCommands == {Cmd(o, n) : o \in {"add", "rm"}, n \in MCNames}
               \cup {Cmd(o, a) : o \in {"reload", "down"}}
Adds == {Cmd("add", a), Cmd("add", b)}
Requests == {Cmd("reload", a), Cmd("down", a)}
Reloads == {Cmd("add", a), Cmd("reload", a)}
============================================================================
