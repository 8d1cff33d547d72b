SPECIFICATION Spec
CONSTANTS
    Horizontal = {x}
    Up = up
    Shapes = {"sparse", "cube", "plane"}
    ChunkSize = 2
    VolumeChunks = 1
    VolumeBaseUp = 0
    SpawnRadius = 0
    SparseRange = 1
    Steps = {0, 4}
    Stalls = {3}
    MaxStalls = 1
    TagSize = 2
    SlotSize = 1
    AuthAt = 0
    HeaderSize = 1
    PayloadSizes = {1, 2}
    RecvBuffer = 5
    LengthMax = 4
    Radii = {0, 1}
    ServerRadius = 0
    MaxBoxes = 2
    Grace = 1
    Episode = 2
    LoadTicks = 1
    Flight = 1
    MaxFlying = 2
    Lengths = {0, 5}
INVARIANTS TypeOK Confined ReadsInside RefusalsExplained CrossingsAreGeometry
