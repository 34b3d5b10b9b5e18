CONSTANTS
    Magic = 11
    Codes = {12}
    NotUtf8 = {13}
    ErrorCodes = {12}
    MaxFrameLen = 4
    MaxStringLen = 1
    Burst = 2
    PerSecond = 2
    Second = 3
    Outbox <- SmallOutbox
    MaxSent = 3
    Noise = {1, 2, 5, 11, 13}
    MaxNoise = 6
    MaxRead = 5
    MaxClock = 2
SPECIFICATION Spec
CHECK_DEADLOCK FALSE
INVARIANT DecodesExactly
INVARIANT HonestUnderstood
INVARIANT WindowBound
