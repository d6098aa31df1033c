SPECIFICATION Spec
CONSTANTS
    MaxUint32 = 7
    MaxInt = 15
    MaxUint = 31
    MaxPort = 5
    DefaultPort = 4
    CommandLines <- MCCommandLines
    Events <- MCEvents
    Bodies <- MCBodies
    MaxEvents = 2
INVARIANTS
    NothingBeforeAccepted
    TargetAsNamed
    RequestFieldsExact
    OutputAsFiltered
    PayloadShownFaithfully
