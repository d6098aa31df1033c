SPECIFICATION Spec
CONSTANTS
    StreamIds <- MCStreamIds
    Item <- MCItem
    Undecodable = "bad"
    Configs <- FileConfigs
    PeerFrames <- FileFrames
    PingSize = 1
    MaxPeerFrames <- FileBounds
    MaxInFlight = 1
INVARIANTS
    TypeOK
    StopsWhenDone
    SavedFilesExact
