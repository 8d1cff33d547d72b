SPECIFICATION FairLadderSpec
CONSTANTS
    Host = {a, b}
    Start = 0
    Before = 1
    Delta = 1
    ActiveDeltas = {0, 1}
    OldId = r2
    NewId = r3
    NoId = NoId
    Second = 2
    MaxTime = 4
    MaxRestarts = 1
INVARIANTS LadderTypeOK CloseMeansOneRung FleetWindowCovers
PROPERTIES ReturnMeansProvisioned LadderEnds
