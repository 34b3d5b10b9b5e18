CONSTANTS
    PlainKeys <- TwoPlain
    Buttons <- Modified
    Repeatable <- TwoPlain
    TextMods <- TextCombos
    Layout <- UsLetters
    MaxHeldKeys = 3
    Capacity = 4
    BrokerMaxHeld = 3
    LatchEnabled = TRUE
    LinkFaults = TRUE
    HasTerminal = TRUE
SPECIFICATION Spec
INVARIANT NoStuckKey
INVARIANT InactiveHoldsNothing
INVARIANT RepeatOnlyHeld
INVARIANT TerminalKeyReadable
