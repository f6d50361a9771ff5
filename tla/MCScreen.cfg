SPECIFICATION MCSpec

CONSTANTS
    Pair = {a, b}
    Emojis = {h}
    LineRows = 2
    PageSize = 1
    MaxBreaks = 1
    Requests = {m}
    MarkRows = 3
    MaxWire = 1
    Flushes = {f, g}
    MaxAttempts = 1
    MaxReloads = 1
    Bubbles = {b1, b2}
    Capacity = 1
    MaxUrls = 3
    Profiles = {p1, p2}
    MaxEntries = 1
    MaxNotes = 2
    MaxTexts = 2
    MaxKeys = 2
    MaxFrames = 2
    MaxEndpoints = 2
    Relays = {r, s}
    Default = r
    Public = {s}
    Probes = {p, q}
    MaxFaults = 2
    MaxGenerations = 4
    MaxRestarts = 1
    MaxMounts = 2
    None = None
    PadBlock = 8
    LegacyPadBlock = 6
    MaxText = 5
    FilePadBlock = 12
    Bytes = {0, 1}
    MaxLen = 6
    Unread = Unread

SYMMETRY Symmetry

INVARIANTS
    RightChat
    
    NoPhantomMarks
    
    OpenedStays
    
    KeysAreTrusted
    
    ReadAsWritten

CHECK_DEADLOCK FALSE
