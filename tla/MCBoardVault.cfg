SPECIFICATION Spec
CONSTANTS
    BOX_SIZE = 2
    CluesToKeep = 5
    Strides = {1, 11}
    Shuffles <- MCShuffles
INVARIANTS
    OneSolution
    NoClueToSpare
