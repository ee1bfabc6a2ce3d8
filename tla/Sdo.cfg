CONSTANTS
    SegLen = 2
    ExpLen = 1
    BufSize = 4
    MaxBlk = 2
    RxSlots = 2
    ObjLen <- MCObjLen
    Writeable = {"v", "w", "d"}
    NoSeq = 9
    FifoSize = 6
    Pst = 2
    Payloads <- MCPayloads
    Requests = {"v", "w", "d", "x"}
    Blocks = {TRUE, FALSE}
    Kinds = {"down", "up"}
    OdStart <- MCOdStart
    MaxTransfers = 2
    MaxFaults = 1
    FaultKinds = {"lose", "repeat", "early", "busy", "nmt", "race"}
SPECIFICATION SdoSpec
INVARIANTS UploadFits BlockEndHasSegment
PROPERTIES TransferSpec
