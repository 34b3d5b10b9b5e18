CONSTANTS
    Rows <- View
    MinSamples = 2
    OptimizeEvery = 2
    Evidence = 250
    MaxDimension = 8
    Touches = {1, 2}
    Window <- Start
    Sizes <- Wider
    Places <- Corners
    Outputs <- Modes
    Points <- Spots
    Burst = 3
    Scenarios <- Cases
SPECIFICATION Spec
INVARIANTS LiftedReleases HitWithinLimits
PROPERTIES PlacedOnOutput Settles
