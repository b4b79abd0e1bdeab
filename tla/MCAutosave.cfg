SPECIFICATION AutosaveFairSpec
CONSTANTS
    a = a
    b1 = b1
    bad = bad
    p = p
    q = q
    Slots = {1, 2}
    Browsers = {p, q}
    Workspaces = {a, b1, bad}
    Storable = {a, b1}
    NoWorkspace = NoWorkspace
    Nobody = Nobody
    Starter = a
    LegacyCopy <- MCLegacyOne
    Upgraded <- MCUpgraded
    MaxEdits = 2
    MaxFaults = 1
CHECK_DEADLOCK FALSE
INVARIANTS
    AutosaveTypeOK
    KnownRevision
    SaveReplacesWhatItSaw
PROPERTIES
    StoreIsRegister
    EditIsSettled
