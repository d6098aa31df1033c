SPECIFICATION Spec
CONSTANTS
    StreamIds <- MCStreamIds
    Item <- MCItem
    Undecodable = "bad"
    Configs <- RequestPlain
    PeerFrames <- ClaimFrames
    PingSize = 1
    MaxPeerFrames <- ClaimBounds
    MaxInFlight = 1
INVARIANT
    GoAwayOnlyToSilentPeer
