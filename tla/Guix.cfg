CONSTANTS
    Slots = 2
    Widgets = {"clock", "menu"}
    MaxTimers = 2
    MaxTicks = 2
    Closing = {"menu"}
    Observers = {"screen", "power"}
    Priority <- MCPriority
    MaxPosts = 4
SPECIFICATION Spec
INVARIANTS QuietSleep TimersRun 
PROPERTIES EventsTaken TicksCome
CHECK_DEADLOCK FALSE
