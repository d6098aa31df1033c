SPECIFICATION Spec
CONSTANTS
    StreamIds <- MCStreamIds
    Item <- MCItem
    Undecodable = "bad"
    Configs <- RequestHeaders
    PeerFrames <- PromiseFrames
    PingSize = 1
    MaxPeerFrames <- ClaimBounds
    MaxInFlight = 1
INVARIANT
    SavedHeadersAreResponses
