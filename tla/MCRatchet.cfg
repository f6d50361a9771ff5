SPECIFICATION MCSpec
CONSTANTS
    alice = alice
    bob = bob
    None = None
    Parts = {"turns", "late"}
    Users <- Both
    TurnsSent <- Four
    TurnsReloads = 2
    FirstSpeakers <- OnlyAlice
    Slots = 1
    Rotation = 10
    MaxSkipGap = 2
    MaxSkipped = 2
    BundleMayFail = FALSE
    MaxSent <- FiveFromAlice
    Window = 4
    MaxReloads = 1
    MaxAgain = 1
INVARIANTS
    
    ClientsAgree
    LateIsHarmless
CHECK_DEADLOCK FALSE
