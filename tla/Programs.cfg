SPECIFICATION Spec
CONSTANTS
    Line = {"l", "m"}
    Id = {1, 2, 3}
    MaxTyped = 2
    MaxStarts = 2
    Text = {"t"}
    QueueMax = 2
    MqMaxTyped = 1
    MqMaxStarts = 2
    Upload <- MCUpload
    Naming <- MCNaming
    totalChunks <- MCTotalChunks
    User = {"a", "b"}
    MaxSent = 2
    MaxDrops = 1
    Links <- MCLinks
    Delays = {1, 2}
INVARIANTS
    TakeTurns   PageSound
PROPERTIES
    QuitEndsReader QuitEndsAll SentIsShown WorkEnds
CHECK_DEADLOCK FALSE
