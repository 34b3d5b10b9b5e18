CONSTANTS
    Keys = {"ctrl", "a"}
    Chord = {"ctrl"}
    Buttons = {"left", "right"}
    HasTouch = TRUE
    HasPane = FALSE
SPECIFICATION Spec
INVARIANT NoGhostHold
