------------------------- MODULE MCDispatchDelivery -------------------------
\* Small instances of DispatchDelivery: who is addressed, and symmetry.
EXTENDS DispatchDelivery, TLC

CONSTANTS c1, c2, s1, s2, p1

MCRuntimes == {c1, c2}
MCOneSession == {s1}
MCTwoSessions == {s1, s2}
MCOnePlan == {p1}
MCToOne == [r \in {p1} |-> s1]
MCToDirectory == [r \in {p1} |-> Cwd]

\* Runtimes are interchangeable (safety runs only).
MCSymmetry == Permutations(MCRuntimes)
=============================================================================
