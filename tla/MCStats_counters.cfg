SPECIFICATION Spec
CONSTANTS
    Recorder = {w1, w2}
    Loader = {l1, l2}
    NumBuckets = 3
    Bounds <- MCBounds
    Latencies = {0, 4, 7}
    MaxSamples = 2
    MaxLoads = 2
SYMMETRY Symmetry
INVARIANTS TypeOK SamplesConserved MaxIsLargest SnapshotInBetween
    PercentilesOrdered IntervalsAddUp
CHECK_DEADLOCK FALSE
