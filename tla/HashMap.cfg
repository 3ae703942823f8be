\* One pool entry, maps of 5 pairs in 2 x 4 buckets of 2 slots, three
\* keys colliding in the left bucket, allocation failures allowed.
CONSTANTS
    PNA_NHASHMAPS = 1
    BKT_SIZE = 2
    PairCounts = {5}
    Keys = {1, 2, 3}
    Vals = {1, 2}
    HashOut <- MCHashOut
    AllocMayFail = TRUE
    MaxCreates = 3
SPECIFICATION Spec
INVARIANT TypeOK GetAfterPut
CHECK_DEADLOCK FALSE
