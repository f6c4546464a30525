SPECIFICATION MCSpec
CONSTANTS
    Documents <- MCDocuments
    Rewrites <- MCRewrites
    FieldLimits <- MCFieldLimits
    MaxWrites = 1
    MaxEvents = 1
    ReadBuffer = 2
    CheckEvery = 1
    StrongCheck = 2
    RowLimit = 2
    MaxPreview = 2
    MaxPayload = 3
    Searches <- MCSearches
    SearchRewrites <- MCSearchRewrites
    SearchBuffer = 3
    SearchCheckEvery = 1
    CacheBlock = 4
    PageHits = 2
    ScratchQuota = 125
    MaxSearchEvents = 1
    MaxDemands = 3
    Prefix = 2
    ExpLimit = 9
    Requests <- MCRequests
    Tunings <- MCTunings
    ScanBuffer = 5
    PageRecords = 3
    RecordCost = 2
    BucketRows = 3
    BufferPairs = 2
    ChunkPairs = 2
INVARIANTS
    TextTypeOK
    ShownIsSnapshot
    CellsAreHonest
    PageIsStore
    ShownIsHit
    RunsAreSorted
    MapsAreExact
PROPERTIES
    StreamOfSnapshot
    DistrustIsFinal
    SearchPromise
    WorkSettles
