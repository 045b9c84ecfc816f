---------------------------- MODULE MCReconcile ----------------------------
(***************************************************************************)
(* Small machines for Reconcile: three names, three targets, two           *)
(* folders, two stacks, and families of configuration files.               *)
(***************************************************************************)
EXTENDS Reconcile

CONSTANTS a, b, c, t1, t2, t3, skills, agents, s1, s2

MCNames == {a, b, c}
MCTargets == {t1, t2, t3}
MCFolders == {skills, agents}
MCStacks == {s1, s2}

\* t3 lies below t1.
MCInside == [t \in MCTargets |-> IF t = t1 THEN {t1, t3} ELSE {t}]
MCReal == [t \in MCTargets |-> t]

Decl(n, t, fs, s, on) == [name |-> n, target |-> t, folders |-> fs, stack |-> s, enabled |-> on]
A(fs, s) == Decl(a, t1, fs, s, TRUE)
B(fs, s) == Decl(b, t2, fs, s, TRUE)
Off(w) == [w EXCEPT !.enabled = FALSE]
Both == <<skills, agents>>
One == <<skills>>

\* The changes the guide to workspaces describes: add, change the folders or the
\* sources, disable, remove, move, or give the target to another workspace.
\* Where a pass finds s2 unreadable or a mount of b busy, b fails beside a, which
\* at t3 has no reason to, in either order.  A workspace that lists one folder
\* twice can never be established.
MCConfigs == {
    <<A(Both, s1)>>,
    <<A(Both, s1), B(One, s2)>>,
    <<A(One, s2)>>,
    <<Off(A(One, s1)), B(One, s2)>>,
    <<Decl(a, t3, One, s1, TRUE), B(One, s2)>>,
    <<B(One, s2), Decl(a, t3, One, s1, TRUE)>>,
    <<Decl(c, t1, One, s2, TRUE)>>,
    <<A(<<skills, skills>>, s1), B(One, s2)>>,
    <<>> }

\* b is moved, and a, earlier in the file, takes over the target it had.
MCConfigsReuse == {
    <<A(One, s1), B(One, s2)>>,
    <<Decl(a, t2, One, s1, TRUE), Decl(b, t1, One, s2, TRUE)>> }

\* Repeated reloads heal even the exchange of targets.
MCConfigsHeals == MCConfigsReuse \cup {<<Off(A(Both, s1))>>}

SkillsDir == {<<t1, skills>>}
OtherSkillsDir == {<<t2, skills>>}
AgentsDir == {<<t1, agents>>}
\* A directory under t1 at which no file of these families mounts.
AsideDir == {<<t3, agents>>}
TwoDirs == {<<t1, skills>>, <<t3, agents>>}
MissingStack == {s2}
\* The theorems speak of this family of files, and of machines on which other
\* processes keep to that directory.
ASSUME Configs = MCConfigs => UniqueNames /\ NoReuse
ASSUME Intruders = AsideDir => Undisputed
============================================================================
