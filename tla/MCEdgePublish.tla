--------------------------- MODULE MCEdgePublish ---------------------------
EXTENDS EdgePublish, TLC

CONSTANTS a1, a2, b1

MCOperatorOf == (a1 :> "a") @@ (a2 :> "a") @@ (b1 :> "b")
=============================================================================
