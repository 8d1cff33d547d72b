SPECIFICATION FairWalkSpec
CONSTANTS
    Horizontal = {"h1"}
    Up = "up"
    Shapes = {"plane"}
    ChunkSize = 2
    VolumeChunks = 1
    VolumeBaseUp = 0
    SpawnRadius = 1
    SparseRange = 1
    Steps = {1}
    Stalls = {4}
    MaxStalls = 1
PROPERTY ComesBack
