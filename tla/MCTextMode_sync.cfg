CONSTANTS
    PlainKeys <- Plain
    Buttons <- ChordKeys
    Repeatable <- Plain
    TextMods <- NoText
    Layout <- Intl
    MaxHeldKeys = 3
    Capacity = 4
    BrokerMaxHeld = 3
    LatchEnabled = TRUE
    LinkFaults = FALSE
    HasTerminal = FALSE
SPECIFICATION TextSpec
CONSTRAINT NotRefused
INVARIANT KeyboardModeAccounted
INVARIANT BrokerAgrees
INVARIANT TypesWhatWasMeant
PROPERTY ChordNeverLatches
