SPECIFICATION MCSpec

CONSTANTS
    Pair = {p, q}
    Records = {"identity", "sessions"}
    MaxFalls = 1
    PinLength = 2
    Submit = 2
    MaxTries = 2
    LockoutTime = 1
    MaxChecks = 2
    MaxMounts = 1
    MaxIds = 2
    Devices = {d}
    First = d
    Chats = {a}
    Calls = {s}
    MaxGens = 2
    MaxSteps = 2
    MaxSaves = 2
    FewGens = 1
    FewSteps = 1
    FewSaves = 1
    MaxSpks = 3
    MaxOpks = 2
    MaxLoads = 2
    MaxWipes = 1
    MaxSignIns = 3
    Homes = {u, v}
    Abroad = {v}
    Attempts = {a1, a2, a3}
    Codes = {c}
    Passkeys = {key}
    MaxChallenges = 2
    Clients = {c1, c2}
    Threshold = 3
    LockOutages = 1
    LockRestarts = 1
    FewTokens = 2
    None = None
    Tabs = {p, q}
    MaxTokens = 3
    MaxRestarts = 2
    MaxOutages = 2
    Nobody = Nobody

SYMMETRY Symmetry

INVARIANTS
    PinHolds
    IdentityKept
    
    PreKeysHold
    SessionIsOwn
    OneLiveToken
    SignInsHold

PROPERTY RevocationsLast

CHECK_DEADLOCK FALSE
