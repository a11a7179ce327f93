SPECIFICATION WorkSpec
CONSTANTS
    Stride = 37
    MaxRounds = 2
INVARIANTS
    LatenciesInRange
    EvenWork
