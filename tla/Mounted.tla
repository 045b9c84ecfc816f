------------------------------ MODULE Mounted ------------------------------
(***************************************************************************)
(* What reconciliation promises to whoever reads the views, at any moment  *)
(* of any pass, without saying how a pass goes about it.                   *)
(*                                                                         *)
(* A plan is a workspace as far as it decides what is served.  The daemon  *)
(* has a goal, the plans that are declared and enabled, and some plans are *)
(* up: established, each of their directories live and serving what was    *)
(* declared.  The daemon may change its mind, mount where nothing is       *)
(* mounted what it has for a goal, and unmount what it likes, except that  *)
(* a plan that is up, and still a goal, stays up until the rest of the     *)
(* machine takes a mount from it or the daemon ends.                       *)
(***************************************************************************)
EXTENDS Naturals

CONSTANTS
    Plans,  \* workspaces, as far as they decide what is served
    Dirs,   \* directories of the machine
    At,     \* At[p]: the directories of plan p
    Stack,  \* Stack[p]: what plan p serves at each of them
    Stacks, \* what a directory of this daemon may serve
    Alien   \* what it may carry otherwise: nothing is "absent", a mount left by
            \* a process that ended is "stale", another user's is "other"

VARIABLES
    goal,   \* what is declared and enabled
    up,     \* what is established
    table,  \* what each directory carries
    outside \* steps taken by the rest of the machine, with the end of a daemon
vars == <<goal, up, table, outside>>

Serves(p) == \A d \in At[p] : table[d] = Stack[p]

Init ==
    /\ goal = {} /\ up = {} /\ outside = 0
    /\ table \in [Dirs -> Alien]

\* Another configuration is written, or takes effect; nothing is touched yet.
Adopt ==
    /\ goal' \subseteq Plans
    /\ outside' \in {outside, outside + 1}
    /\ UNCHANGED <<up, table>>

Without(ds) == [d \in Dirs |-> IF d \in ds THEN "absent" ELSE table[d]]

\* Mounts of the user are taken away, and plans given up, but none that are up
\* and a goal.
Withdraw ==
    /\ UNCHANGED <<goal, outside>>
    /\ up' \subseteq up /\ up \cap goal \subseteq up'
    /\ \E ds \in SUBSET {d \in Dirs : table[d] \notin {"absent", "other"}} :
         /\ table' = Without(ds)
         /\ \A p \in up' : At[p] \cap ds = {}

\* A directory that carries nothing is made to serve one of the goals.
Mount(p, d) ==
    /\ p \in goal \ up
    /\ d \in At[p] /\ table[d] = "absent"
    /\ table' = [table EXCEPT ![d] = Stack[p]]
    /\ UNCHANGED <<goal, up, outside>>

\* A plan is up once all of it is served, never before.
Complete(p) ==
    /\ p \in goal \ up
    /\ Serves(p)
    /\ up' = up \cup {p}
    /\ UNCHANGED <<goal, table, outside>>

\* The rest of the machine changes what a directory carries.
Interfere(d, s) ==
    /\ table' = [table EXCEPT ![d] = s]
    /\ up' = {p \in up : d \notin At[p]}
    /\ outside' = outside + 1
    /\ UNCHANGED goal

\* The daemon ends, releasing some directories first or none; what else it served
\* is stale.
End ==
    /\ goal' = {} /\ up' = {} /\ outside' = outside + 1
    /\ \E ds \in SUBSET Dirs :
         table' = [d \in Dirs |-> IF Without(ds)[d] \in Stacks THEN "stale" ELSE Without(ds)[d]]

Next ==
    \/ Adopt \/ Withdraw \/ End
    \/ \E p \in Plans, d \in Dirs : Mount(p, d)
    \/ \E p \in Plans : Complete(p)
    \/ \E d \in Dirs, s \in Alien : Interfere(d, s)

Spec == Init /\ [][Next]_vars
============================================================================
