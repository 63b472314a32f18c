------------------------ MODULE MCForegroundReview ------------------------
EXTENDS ForegroundReview, TLC
CONSTANTS m1, m2
MCManagers == {m1, m2}
MCOne == {m1}
Symmetry == Permutations(Managers)
===========================================================================
