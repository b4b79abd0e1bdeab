SPECIFICATION SafetySpec
CONSTANTS
    k1 = k1
    Owner = {o1, o2}
    Image = {i1, i2}
    UserList = {u1}
    Checksum = {k1, k2}
    Crc <- MCCrc
    Version = {v4}
    QualifiedVersion = v4
    CompareMaxAge = 0
    PreflightMaxAge = 1
    OverallDeadline = 1
    AuditMayFail = TRUE
    NoLock = NoLock
    NoRecord = NoRecord
INVARIANTS
    TypeOK
    QualifiedTransfer
PROPERTIES
    LockHandover
    StopStaysLatched
