CONSTANTS
    RecordSize <- MCRecordSize
    HeaderSize = 1
    BUFFER_CAPACITY = 4
    MAX_FILE_SIZE = 8
    MaxRecords = 3
    Faults = {"flush"}
SPECIFICATION Spec
INVARIANTS
    Durable
