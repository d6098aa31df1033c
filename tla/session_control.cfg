SPECIFICATION FairSpec
CONSTANTS
    StreamIds <- MCStreamIds
    Item <- MCItem
    Undecodable = "bad"
    Configs <- ControlConfigs
    PeerFrames <- ControlFrames
    PingSize = 1
    MaxPeerFrames <- ControlBounds
    MaxInFlight = 2
INVARIANTS
    AnswersFollow
    WorkFollowsHandshake
    GoAwayIsFinal
PROPERTIES
    HoldsConversation
    CloseEnds
    AwaitedFrameEnds
