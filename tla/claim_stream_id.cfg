SPECIFICATION Spec
CONSTANTS
    MaxUint32 = 7
    MaxInt = 15
    MaxUint = 31
    MaxPort = 5
    DefaultPort = 4
    CommandLines <- NumberedLines
    Events <- MCEvents
    Bodies <- MCBodies
    MaxEvents = 1
INVARIANT
    StreamIDKept
