CONSTANTS
    MaxCsiParams = 2
    MaxParam = 3
    MaxOscLen = 1
    MaxDcsLen = 0
    Base = 2
    MaxSeen = 4
    Alphabet <- SomeBytes
SPECIFICATION ParserSpec
INVARIANT CancelRecovers
INVARIANT CsiMeansItsBytes
