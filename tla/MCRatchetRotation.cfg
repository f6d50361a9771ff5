SPECIFICATION MCSpec
CONSTANTS
    alice = alice
    bob = bob
    None = None
    Parts = {"late"}
    Users <- Both
    TurnsSent <- Four
    TurnsReloads = 2
    FirstSpeakers <- OnlyAlice
    Slots = 1
    Rotation = 2
    MaxSkipGap = 5
    MaxSkipped = 5
    BundleMayFail = FALSE
    MaxSent <- FourAndOne
    Window = 0
    MaxReloads = 0
    MaxAgain = 0
INVARIANT
    EveryMessageRead
CHECK_DEADLOCK FALSE
