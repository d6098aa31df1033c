SPECIFICATION Spec
CONSTANTS
    StreamIds <- MCStreamIds
    Item <- MCItem
    Undecodable = "bad"
    Configs <- ObserveBody
    PeerFrames <- ClaimFrames
    PingSize = 1
    MaxPeerFrames <- ClaimBounds
    MaxInFlight = 1
PROPERTY
    CapturedBodySaved
