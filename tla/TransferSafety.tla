--------------------------- MODULE TransferSafety ---------------------------
(***************************************************************************)
(* The transfer safety coordinator of the bridge                           *)
(* (bridge/transfer-safety.mjs, class TransferSafetyCoordinator): one per  *)
(* bridge process, it keeps the lock that a live send needs, the last      *)
(* Compare and the last dry run of every client, and the latched stop.     *)
(*                                                                         *)
(* Every method runs to completion on the JavaScript thread, so a method   *)
(* is one action.  Timestamps are kept as ages: `now - at` is the only use *)
(* the code makes of a time, and an age past its limit stays past it, so   *)
(* ages stop one above the largest limit they are compared with.           *)
(***************************************************************************)
EXTENDS Integers

CONSTANTS
    Owner,            \* clients, each the random id of one WebSocket
    Image,            \* compiled controller images
    UserList,         \* lists of user payloads
    Checksum,         \* values of the 16-bit CRC of an image
    Crc,              \* the CRC of each image; two images may share one
    Version,          \* firmware versions a Compare can report
    QualifiedVersion, \* QUALIFIED_FIRMWARE_VERSION
    CompareMaxAge,    \* COMPARE_MAX_AGE_MS, in units of Advance
    PreflightMaxAge,  \* PREFLIGHT_MAX_AGE_MS
    OverallDeadline,  \* OVERALL_DEADLINE_MS
    AuditMayFail,     \* the audit file can become unwritable
    NoLock, NoRecord  \* null, undefined

ASSUME CrcAssumption == Crc \in [Image -> Checksum]
ASSUME VersionAssumption == QualifiedVersion \in Version
ASSUME AgeAssumption ==
    /\ CompareMaxAge \in Nat
    /\ PreflightMaxAge \in Nat
    /\ OverallDeadline \in Nat
ASSUME AuditAssumption == AuditMayFail \in BOOLEAN

VARIABLES
    active,           \* the lock, or NoLock
    comparisons,      \* the last Compare recorded for each owner
    preflights,       \* the last dry run each owner passed
    emergencyStopped, \* the stop latch
    auditOk           \* the last audit append reached the file

safetyVars == <<active, comparisons, preflights, emergencyStopped, auditOk>>

-----------------------------------------------------------------------------
(* Data *)

\* What a dry run binds: the hash of the image and of the length-prefixed
\* payloads, taken to be injective.
Binding == Image \X UserList

\* What a client sends with transferDryRun and sync.  `supported` stands for
\* the site type and firmware profile, which the session's constructor checks
\* and which no binding covers.
Request ==
    [image: Image, users: UserList, claimed: Checksum, supported: BOOLEAN]

BindingOf(req) == <<req.image, req.users>>

\* prepareTransferRequest throws unless both ends agree on the CRC.
Prepared(req) == req.claimed = Crc[req.image]

LockStates == {"transferring", "sending-user-profiles"}

Lock == [owner: Owner, binding: Binding \cup UserList,
         age: 0..OverallDeadline + 1, state: LockStates]

Comparison == [age: 0..CompareMaxAge + 1, localChecksum: Checksum,
               controllerChecksum: Checksum, state: {"match", "different"},
               version: Version]

Preflight == [age: 0..PreflightMaxAge + 1, binding: Binding]

TypeOK ==
    /\ active \in Lock \cup {NoLock}
    /\ comparisons \in [Owner -> Comparison \cup {NoRecord}]
    /\ preflights \in [Owner -> Preflight \cup {NoRecord}]
    /\ emergencyStopped \in BOOLEAN
    /\ auditOk \in BOOLEAN

ASSUME NullAssumption ==
    /\ NoLock \notin Lock
    /\ NoRecord \notin Comparison
    /\ NoRecord \notin Preflight

SafetyInit ==
    /\ active = NoLock
    /\ comparisons = [o \in Owner |-> NoRecord]
    /\ preflights = [o \in Owner |-> NoRecord]
    /\ emergencyStopped = FALSE
    /\ auditOk = TRUE

-----------------------------------------------------------------------------
(* The lock *)

\* An append to the audit file succeeds or fails; only the last one counts.
Appends == auditOk' \in BOOLEAN /\ (~AuditMayFail => auditOk')

Held == active # NoLock

\* checkDeadline: an expired lock is dropped and the stop latched.
Expired == Held /\ active.age > OverallDeadline

\* Faulty variants of CanAcquire, for the mutation checks: the lock is not
\* looked at, the stop is not looked at.
CanAcquireOverLock == ~emergencyStopped

CanAcquireOverStop == Held => Expired

\* acquire refuses while the stop is latched and while a live lock is held.
\* checkDeadline runs after the test of the stop: finding the lock expired it
\* latches the stop, and acquire goes on to grant the lock.
CanAcquire == ~emergencyStopped /\ (Held => Expired)

Acquire(o, b, st) ==
    /\ CanAcquire
    /\ active' = [owner |-> o, binding |-> b, age |-> 0, state |-> st]
    /\ emergencyStopped' = Expired
    /\ Appends

\* acquire followed by release within one call.
AcquireAndRelease ==
    /\ CanAcquire
    /\ active' = NoLock
    /\ emergencyStopped' = Expired
    /\ Appends

-----------------------------------------------------------------------------
(* Compare and dry run *)

RecordComparison(o, local, controller, st, version) ==
    /\ comparisons' = [comparisons EXCEPT ![o] =
           [age |-> 0, localChecksum |-> local,
            controllerChecksum |-> controller, state |-> st,
            version |-> version]]
    /\ Appends
    /\ UNCHANGED <<active, preflights, emergencyStopped>>

\* dryRun: the lock is taken and given back within the call.  An unsupported
\* profile makes the replay throw, and nothing is recorded.
DryRun(o, req) ==
    /\ Prepared(req)
    /\ AcquireAndRelease
    /\ preflights' = IF req.supported
                     THEN [preflights EXCEPT ![o] =
                              [age |-> 0, binding |-> BindingOf(req)]]
                     ELSE preflights
    /\ UNCHANGED comparisons

\* userProfileDryRun, also as the first step of a user-profile send that is
\* then refused the lock: only its audit entry is left.
UserProfileDryRun ==
    /\ Appends
    /\ UNCHANGED <<active, comparisons, preflights, emergencyStopped>>

-----------------------------------------------------------------------------
(* Live sends *)

ComparisonQualifies(o, req) ==
    LET c == comparisons[o] IN
    /\ c # NoRecord
    /\ c.age <= CompareMaxAge
    /\ c.localChecksum = Crc[req.image]
    /\ c.state = "match"
    /\ c.controllerChecksum = Crc[req.image]
    /\ c.version = QualifiedVersion

\* Faulty variant: any fresh dry run will do.
AnyPreflightQualifies(o, req) ==
    LET p == preflights[o] IN
    /\ p # NoRecord
    /\ p.age <= PreflightMaxAge

PreflightQualifies(o, req) ==
    LET p == preflights[o] IN
    /\ p # NoRecord
    /\ p.age <= PreflightMaxAge
    /\ p.binding = BindingOf(req)

CanBeginLive(o, req) ==
    /\ Prepared(req)
    /\ ComparisonQualifies(o, req)
    /\ PreflightQualifies(o, req)
    /\ auditOk
    /\ CanAcquire

BeginLive(o, req) ==
    /\ CanBeginLive(o, req)
    /\ Acquire(o, BindingOf(req), "transferring")
    /\ UNCHANGED <<comparisons, preflights>>

\* Faulty variant: nobody asks whose lock it is.
FinishLiveForAnyone(o) ==
    /\ Held
    /\ active' = NoLock
    /\ Appends
    /\ UNCHANGED <<comparisons, preflights, emergencyStopped>>

\* release for the owner of the lock, whatever kind of send holds it.
FinishLive(o) ==
    /\ Held /\ active.owner = o
    /\ active' = NoLock
    /\ Appends
    /\ UNCHANGED <<comparisons, preflights, emergencyStopped>>

\* Faulty variant: the lock stays in the state acquire gave it.
BeginLiveUserProfilesUnmarked(o, users) ==
    /\ Acquire(o, users, "preflight")
    /\ UNCHANGED <<comparisons, preflights>>

BeginLiveUserProfiles(o, users) ==
    /\ Acquire(o, users, "sending-user-profiles")
    /\ UNCHANGED <<comparisons, preflights>>

\* release without a look at who holds the lock.
FinishLiveUserProfiles(o) ==
    /\ active' = NoLock
    /\ Appends
    /\ UNCHANGED <<comparisons, preflights, emergencyStopped>>

-----------------------------------------------------------------------------
(* The stop latch and time *)

EmergencyStop ==
    /\ active' = NoLock
    /\ emergencyStopped' = TRUE
    /\ Appends
    /\ UNCHANGED <<comparisons, preflights>>

ResetEmergencyStop ==
    /\ emergencyStopped' = FALSE
    /\ Appends
    /\ UNCHANGED <<active, comparisons, preflights>>

Older(r, limit) ==
    [r EXCEPT !.age = IF r.age > limit THEN r.age ELSE r.age + 1]

\* One unit of time passes for every timestamp at once.
Advance ==
    /\ active' = IF Held THEN Older(active, OverallDeadline) ELSE NoLock
    /\ comparisons' = [o \in Owner |->
           IF comparisons[o] = NoRecord THEN NoRecord
           ELSE Older(comparisons[o], CompareMaxAge)]
    /\ preflights' = [o \in Owner |->
           IF preflights[o] = NoRecord THEN NoRecord
           ELSE Older(preflights[o], PreflightMaxAge)]
    /\ UNCHANGED <<emergencyStopped, auditOk>>

-----------------------------------------------------------------------------
(* The coordinator called in any order by any owner; the order in which the
   bridge calls it is in module Bridge. *)

SafetyNext ==
    \/ \E o \in Owner :
          \/ \E local, controller \in Checksum, st \in {"match", "different"},
                version \in Version :
                RecordComparison(o, local, controller, st, version)
          \/ \E req \in Request : DryRun(o, req) \/ BeginLive(o, req)
          \/ \E users \in UserList : BeginLiveUserProfiles(o, users)
          \/ FinishLive(o)
          \/ FinishLiveUserProfiles(o)
    \/ UserProfileDryRun
    \/ EmergencyStop
    \/ ResetEmergencyStop
    \/ Advance

SafetySpec == SafetyInit /\ [][SafetyNext]_safetyVars

-----------------------------------------------------------------------------
(* Properties *)

\* A transfer that holds the lock sends exactly what its owner dry-ran, and
\* that dry run was still fresh when the lock was taken: no dry run can
\* replace it while the lock is held, and no other client's dry run, other
\* image or other payloads under the same checksum can stand in for it.
QualifiedTransfer ==
    Held /\ active.state = "transferring" =>
        LET p == preflights[active.owner] IN
        /\ p # NoRecord
        /\ p.binding = active.binding
        /\ p.age <= active.age + PreflightMaxAge

\* The lock changes hands without having been released only when its holder
\* ran past the overall deadline, and the stop is then latched.
LockHandover ==
    [][ \/ ~Held
        \/ active' = NoLock
        \/ active'.owner = active.owner /\ active'.age >= active.age
        \/ active.age > OverallDeadline /\ emergencyStopped' ]_safetyVars

\* While the stop is latched no send can start: whatever is called, the lock
\* is the one that was held when the stop latched, or gone.
StopStaysLatched ==
    [][ emergencyStopped =>
          \/ active' = NoLock
          \/ /\ Held
             /\ active'.owner = active.owner
             /\ active'.binding = active.binding
             /\ active'.age >= active.age ]_safetyVars

\* What the README (line 279) and the test of the deadline say of the latch:
\* no live send holds the lock while the stop is latched.
StopExcludesLock == ~(emergencyStopped /\ Held)
=============================================================================
