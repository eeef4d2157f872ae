SPECIFICATION MemorySpec
CONSTANTS
    k1 = k1
    k2 = k2
    small = small
    large = large
    file = file
    Key <- KeyMC
    Value <- ValueMC
    Chunk <- ChunkMC
    Size <- SizeMC
    ChunkOf <- ChunkOfMC
    None = None
    Torn = Torn
    Budget = 2
    MaxRecords = 2
INVARIANTS
    BytesBalance
    ReadsAreWrites
    DeletedStaysGone
PROPERTIES
    CallsEnd
