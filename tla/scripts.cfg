SPECIFICATION FairSpec
CONSTANTS
    StreamIds <- MCStreamIds
    Item <- MCItem
    Undecodable = "bad"
    WrongKind = WrongKind
    Unparsable = Unparsable
    MaxUint32 = 7
    MaxUint24 = 3
    MaxUint8 = 1
    PingSize = 1
    PartSize <- MCPartSize
    MaxFieldSize = 2
    Scripts <- MCScripts
    PeerFrames <- ReceiveFrames
    MaxPeerFrames = 4
    MaxInFlight = 1
INVARIANTS
    TypeOK
    SendsTheScript
    NoOverflow
    RefusesOnlyRanges
    ReceivesEnough
    AcksAsAsked
    GoAwayOnlyToSilent
PROPERTY
    ScriptEnds
