CONSTANTS
    RecordSize <- MCRecordSize
    HeaderSize = 1
    BUFFER_CAPACITY = 3
    MAX_FILE_SIZE = 6
    MaxRecords = 4
    Faults = {"open", "header", "write"}
    PageSize <- MCPageSize
SPECIFICATION ReaderSpec
INVARIANTS
    NothingLost
    InOrder
    SizesBounded
    PrintsTheFiles
    AnnouncedIsPrinted
    EndToEnd
