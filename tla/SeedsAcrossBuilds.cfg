SPECIFICATION Spec
CONSTANTS
    Nodes = {n1, n2}
    WordsPerHash = 3
    CountWinners = {0, 64, 65}
    MaxWinners = 64
CHECK_DEADLOCK FALSE
INVARIANT NodesDrawTheSameSeeds
