CONSTANTS
    EmSlots = 2
    Inhibit = 0
    CanErrors <- MCCanErrors
    GroupOf <- MCGroupOf
    Entries = 2
    Nodes = {1}
    Remote = {"init", "op"}
    HbTime = 2
    FirstHb = 1
    ConsTime = 2
    Commands = {"op", "stop", "reset"}
    Configs <- MCConfigs
    MaxDue = 1
SPECIFICATION Spec
INVARIANTS ErrorLeavesOperational AlarmsTell OneEntryPerNode 
PROPERTIES StateAnnounced SilenceDetected
