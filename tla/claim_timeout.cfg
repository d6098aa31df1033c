SPECIFICATION FairSpec
CONSTANTS
    StreamIds <- MCStreamIds
    Item <- MCItem
    Undecodable = "bad"
    Configs <- ObservePlain
    PeerFrames <- ClaimFrames
    PingSize = 1
    MaxPeerFrames <- ClaimBounds
    MaxInFlight = 1
PROPERTY
    TimeoutEndsRun
