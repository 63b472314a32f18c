------------------------- MODULE MCVerdictDelivery -------------------------
\* Model-checking instances of VerdictDelivery: model values and symmetry.
EXTENDS VerdictDelivery, TLC

CONSTANTS c1, c2

MCRuntimes == {c1, c2}
MCAllFaults == {"reload", "retry", "receipt"}
MCReloadFault == {"reload"}
MCNoFaults == {}

\* The runtimes are interchangeable (safety runs only).
MCSymmetry == Permutations(MCRuntimes)
=============================================================================
