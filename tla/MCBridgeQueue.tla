--------------------------- MODULE MCBridgeQueue ---------------------------
\* Model-checking instances of BridgeQueue: model values.
EXTENDS BridgeQueue

CONSTANTS r1, r2, c1, c2, plan, garbage

MCTwoRequests == {r1, r2}
MCRuntimes == {c1, c2}
MCPlans == {plan}
MCMalformed == {garbage}
MCNone == {}
=============================================================================
