--------------------------- MODULE MCHandleManager ---------------------------
EXTENDS HandleManager

CONSTANTS a, b

FromL1 == [t \in Tx |-> "L1"]
FromL2 == [t \in Tx |-> "L2"]
BothWays == [t \in Tx |-> IF t = a THEN "L1" ELSE "L2"]

Clocks(l1, l2, agent) ==
    [c \in Layers \cup {"agent"} |-> IF c = "L1" THEN l1 ELSE IF c = "L2" THEN l2 ELSE agent]
AgentFarAhead == Clocks(0, 0, 2)
AgentAhead == Clocks(0, 0, 1)
L2Ahead == Clocks(0, 1, 2)
L1Ahead == Clocks(1, 0, 2)
=============================================================================
