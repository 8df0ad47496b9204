CONSTANTS
    Kinds = {"B", "C", "D"}
    MaxWant = 2
    MaxData = 3
SPECIFICATION Spec
INVARIANT JoinIsExactFifoMatch
CHECK_DEADLOCK FALSE
