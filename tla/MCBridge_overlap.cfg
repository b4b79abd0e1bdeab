SPECIFICATION BridgeFairSpec
CONSTANTS
    k1 = k1
    Owner = {c1}
    Image = {i1}
    UserList = {u1}
    Checksum = {k1}
    Crc <- MCCrc
    Version = {v4}
    QualifiedVersion = v4
    CompareMaxAge = 0
    PreflightMaxAge = 0
    OverallDeadline = 0
    AuditMayFail = FALSE
    NoLock = NoLock
    NoRecord = NoRecord
    SockCount = 3
    SendCount = 2
    Verdict = {"match"}
    Polite = FALSE
PROPERTY LockIsReleased
