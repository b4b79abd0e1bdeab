--------------------------- MODULE Bridge_proofs ---------------------------
(***************************************************************************)
(* Proofs about the transfer safety coordinator, for any clients, images,  *)
(* checksum function and age limits, and about the bridge process that has *)
(* it, for any number of browsers, controller sockets and live sends.      *)
(*                                                                         *)
(* Callbacks are grouped by what they do to sends, sockets and the lock    *)
(* (the rows), and each part of the invariant is shown row by row.         *)
(* LockHasSend and KeepsSafety hold for any browsers; what concerns the    *)
(* sockets of a send and its hold on the lock holds for browsers that wait *)
(* for one send to end before they start the next, as the page does.       *)
(***************************************************************************)
EXTENDS Bridge, TLAPS

-----------------------------------------------------------------------------
(* Transfer safety: lemmas on the operators *)

\* A record one unit older keeps every other field, and its age stays between
\* the old age and one above the limit.
LEMMA OlderLock ==
    ASSUME NEW l \in Lock
    PROVE  /\ Older(l, OverallDeadline) \in Lock
           /\ Older(l, OverallDeadline).owner = l.owner
           /\ Older(l, OverallDeadline).binding = l.binding
           /\ Older(l, OverallDeadline).state = l.state
           /\ Older(l, OverallDeadline).age =
                 IF l.age > OverallDeadline THEN l.age ELSE l.age + 1
BY AgeAssumption DEF Older, Lock

LEMMA OlderComparison ==
    ASSUME NEW c \in Comparison
    PROVE  Older(c, CompareMaxAge) \in Comparison
BY AgeAssumption DEF Older, Comparison

LEMMA OlderPreflight ==
    ASSUME NEW p \in Preflight
    PROVE  /\ Older(p, PreflightMaxAge) \in Preflight
           /\ Older(p, PreflightMaxAge).binding = p.binding
           /\ Older(p, PreflightMaxAge).age =
                 IF p.age > PreflightMaxAge THEN p.age ELSE p.age + 1
BY AgeAssumption DEF Older, Preflight

\* Taking the lock installs a well-typed lock of age 0.
LEMMA AcquireTyped ==
    ASSUME NEW o \in Owner, NEW b \in Binding \cup UserList,
           NEW st \in LockStates, Acquire(o, b, st)
    PROVE  /\ active' \in Lock
           /\ active' = [owner |-> o, binding |-> b, age |-> 0, state |-> st]
           /\ emergencyStopped' \in BOOLEAN
           /\ auditOk' \in BOOLEAN
<1>1. [owner |-> o, binding |-> b, age |-> 0, state |-> st] \in Lock
  BY AgeAssumption DEF Lock
<1>2. Expired \in BOOLEAN
  BY DEF Expired, Held
<1> QED
  BY <1>1, <1>2 DEF Acquire, Appends

-----------------------------------------------------------------------------
(* Type correctness *)

LEMMA TypeStep == TypeOK /\ [SafetyNext]_safetyVars => TypeOK'
<1> SUFFICES ASSUME TypeOK, [SafetyNext]_safetyVars PROVE TypeOK'
  OBVIOUS
<1> USE DEF TypeOK
<1>1. ASSUME NEW o \in Owner, NEW local \in Checksum,
             NEW controller \in Checksum, NEW st \in {"match", "different"},
             NEW version \in Version,
             RecordComparison(o, local, controller, st, version)
      PROVE TypeOK'
  <2>1. [age |-> 0, localChecksum |-> local, controllerChecksum |-> controller,
         state |-> st, version |-> version] \in Comparison
    BY AgeAssumption DEF Comparison
  <2> QED
    BY <1>1, <2>1 DEF RecordComparison, Appends
<1>2. ASSUME NEW o \in Owner, NEW req \in Request, DryRun(o, req)
      PROVE TypeOK'
  <2>1. [age |-> 0, binding |-> BindingOf(req)] \in Preflight
    BY AgeAssumption DEF Preflight, BindingOf, Binding, Request
  <2>2. Expired \in BOOLEAN
    BY DEF Expired, Held
  <2> QED
    BY <1>2, <2>1, <2>2 DEF DryRun, AcquireAndRelease, Appends
<1>3. ASSUME NEW o \in Owner, NEW req \in Request, BeginLive(o, req)
      PROVE TypeOK'
  <2>1. BindingOf(req) \in Binding \cup UserList
    BY DEF BindingOf, Binding, Request
  <2> QED
    BY <1>3, <2>1, AcquireTyped DEF BeginLive, LockStates
<1>4. ASSUME NEW o \in Owner, NEW users \in UserList,
             BeginLiveUserProfiles(o, users)
      PROVE TypeOK'
  BY <1>4, AcquireTyped DEF BeginLiveUserProfiles, LockStates
<1>5. ASSUME NEW o \in Owner, FinishLive(o) PROVE TypeOK'
  BY <1>5 DEF FinishLive, Appends
<1>6. ASSUME NEW o \in Owner, FinishLiveUserProfiles(o) PROVE TypeOK'
  BY <1>6 DEF FinishLiveUserProfiles, Appends
<1>7. CASE EmergencyStop
  BY <1>7 DEF EmergencyStop, Appends
<1>8. CASE ResetEmergencyStop
  BY <1>8 DEF ResetEmergencyStop, Appends
<1>9. CASE Advance
  <2>1. active' \in Lock \cup {NoLock}
    BY <1>9, OlderLock DEF Advance, Held
  <2>2. comparisons' \in [Owner -> Comparison \cup {NoRecord}]
    BY <1>9, OlderComparison DEF Advance
  <2>3. preflights' \in [Owner -> Preflight \cup {NoRecord}]
    BY <1>9, OlderPreflight DEF Advance
  <2> QED
    BY <1>9, <2>1, <2>2, <2>3 DEF Advance
<1>10. CASE UserProfileDryRun
  BY <1>10 DEF UserProfileDryRun, Appends
<1>11. CASE UNCHANGED safetyVars
  BY <1>11 DEF safetyVars
<1> QED
  BY <1>1, <1>2, <1>3, <1>4, <1>5, <1>6, <1>7, <1>8, <1>9, <1>10, <1>11
     DEF SafetyNext

\* Every state the coordinator reaches is well typed, whatever is called.
THEOREM SafetyTypeOK == SafetySpec => []TypeOK
<1>1. SafetyInit => TypeOK
  BY DEF SafetyInit, TypeOK
<1> QED
  BY <1>1, TypeStep, PTL DEF SafetySpec

-----------------------------------------------------------------------------
(* The lock only ever covers a transfer its owner dry-ran *)

LEMMA QualifiedStep ==
    TypeOK /\ QualifiedTransfer /\ [SafetyNext]_safetyVars => QualifiedTransfer'
<1> SUFFICES ASSUME TypeOK, QualifiedTransfer, [SafetyNext]_safetyVars
             PROVE QualifiedTransfer'
  OBVIOUS
<1>1. ASSUME NEW o \in Owner, NEW local \in Checksum,
             NEW controller \in Checksum, NEW st \in {"match", "different"},
             NEW version \in Version,
             RecordComparison(o, local, controller, st, version)
      PROVE QualifiedTransfer'
  BY <1>1 DEF RecordComparison, QualifiedTransfer, Held
<1>2. ASSUME NEW o \in Owner, NEW req \in Request, DryRun(o, req)
      PROVE QualifiedTransfer'
  BY <1>2 DEF DryRun, AcquireAndRelease, QualifiedTransfer, Held
<1>3. ASSUME NEW o \in Owner, NEW req \in Request, BeginLive(o, req)
      PROVE QualifiedTransfer'
  <2>1. /\ active' = [owner |-> o, binding |-> BindingOf(req), age |-> 0,
                      state |-> "transferring"]
        /\ preflights' = preflights
    BY <1>3 DEF BeginLive, Acquire
  <2>2. /\ preflights[o] # NoRecord
        /\ preflights[o].age <= PreflightMaxAge
        /\ preflights[o].binding = BindingOf(req)
    BY <1>3 DEF BeginLive, CanBeginLive, PreflightQualifies
  <2> QED
    BY <2>1, <2>2, AgeAssumption DEF QualifiedTransfer
<1>4. ASSUME NEW o \in Owner, NEW users \in UserList,
             BeginLiveUserProfiles(o, users)
      PROVE QualifiedTransfer'
  <2>1. active'.state = "sending-user-profiles"
    BY <1>4 DEF BeginLiveUserProfiles, Acquire
  <2> QED
    BY <2>1 DEF QualifiedTransfer
<1>5. ASSUME NEW o \in Owner, FinishLive(o) \/ FinishLiveUserProfiles(o)
      PROVE QualifiedTransfer'
  BY <1>5 DEF FinishLive, FinishLiveUserProfiles, QualifiedTransfer, Held
<1>6. CASE EmergencyStop
  BY <1>6 DEF EmergencyStop, QualifiedTransfer, Held
<1>7. CASE ResetEmergencyStop
  BY <1>7 DEF ResetEmergencyStop, QualifiedTransfer, Held
<1>8. CASE Advance
  <2> SUFFICES ASSUME Held', active'.state = "transferring"
               PROVE  /\ preflights'[active'.owner] # NoRecord
                      /\ preflights'[active'.owner].binding = active'.binding
                      /\ preflights'[active'.owner].age
                            <= active'.age + PreflightMaxAge
    BY DEF QualifiedTransfer
  <2>1. /\ Held /\ active \in Lock
        /\ active' = Older(active, OverallDeadline)
    BY <1>8 DEF Advance, Held, TypeOK
  <2>2. /\ active'.owner = active.owner
        /\ active'.binding = active.binding
        /\ active.state = "transferring"
        /\ active'.age = IF active.age > OverallDeadline THEN active.age
                         ELSE active.age + 1
    BY <2>1, OlderLock
  <2> DEFINE p == preflights[active.owner]
  <2>3. /\ p # NoRecord /\ p.binding = active.binding
        /\ p.age <= active.age + PreflightMaxAge
    BY <2>1, <2>2 DEF QualifiedTransfer
  <2>4. active.owner \in Owner /\ active.age \in 0..OverallDeadline + 1
    BY <2>1 DEF Lock
  <2>5. p \in Preflight
    BY <2>3, <2>4 DEF TypeOK
  <2>6. preflights'[active.owner] = Older(p, PreflightMaxAge)
    BY <1>8, <2>3, <2>4 DEF Advance
  <2>7. /\ Older(p, PreflightMaxAge) \in Preflight
        /\ Older(p, PreflightMaxAge).binding = p.binding
        /\ Older(p, PreflightMaxAge).age =
              IF p.age > PreflightMaxAge THEN p.age ELSE p.age + 1
    BY <2>5, OlderPreflight
  <2>8. p.age \in 0..PreflightMaxAge + 1
    BY <2>5 DEF Preflight
  <2>9. Older(p, PreflightMaxAge).age <= active'.age + PreflightMaxAge
    BY <2>2, <2>3, <2>4, <2>7, <2>8, AgeAssumption
  <2>10. Older(p, PreflightMaxAge) # NoRecord
    BY <2>7, NullAssumption
  <2> QED
    BY <2>2, <2>3, <2>6, <2>7, <2>9, <2>10
<1>9. CASE UserProfileDryRun
  BY <1>9 DEF UserProfileDryRun, QualifiedTransfer, Held
<1>10. CASE UNCHANGED safetyVars
  BY <1>10 DEF safetyVars, QualifiedTransfer, Held
<1> QED
  BY <1>1, <1>2, <1>3, <1>4, <1>5, <1>6, <1>7, <1>8, <1>9, <1>10
     DEF SafetyNext

\* A transfer that holds the lock is always one its owner dry-ran, bit for
\* bit, no longer than PreflightMaxAge before the lock was taken.
THEOREM SafetyQualifiedTransfer == SafetySpec => []QualifiedTransfer
<1>1. SafetyInit => TypeOK /\ QualifiedTransfer
  BY DEF SafetyInit, TypeOK, QualifiedTransfer, Held
<1> QED
  BY <1>1, TypeStep, QualifiedStep, PTL DEF SafetySpec

-----------------------------------------------------------------------------
(* How the lock moves *)

\* The ages of a held lock before and after a unit of time.
LEMMA AdvanceLock ==
    ASSUME TypeOK, Advance
    PROVE  \/ active' = NoLock
           \/ /\ Held
              /\ active'.owner = active.owner
              /\ active'.binding = active.binding
              /\ active'.age >= active.age
<1>1. CASE ~Held
  BY <1>1 DEF Advance
<1>2. CASE Held
  <2>1. active \in Lock /\ active' = Older(active, OverallDeadline)
    BY <1>2 DEF Advance, TypeOK, Held
  <2>2. active.age \in 0..OverallDeadline + 1
    BY <2>1 DEF Lock
  <2> QED
    BY <1>2, <2>1, <2>2, OlderLock, AgeAssumption
<1> QED
  BY <1>1, <1>2

LEMMA UnchangedLock ==
    ASSUME TypeOK, active' = active
    PROVE  \/ active' = NoLock
           \/ /\ Held
              /\ active'.owner = active.owner
              /\ active'.binding = active.binding
              /\ active'.age >= active.age
<1>1. active # NoLock => active.age \in 0..OverallDeadline + 1
  BY DEF TypeOK, Lock
<1> QED
  BY <1>1, AgeAssumption DEF Held

\* The three ways a step of the coordinator can treat the lock.
LEMMA LockStep ==
    ASSUME TypeOK, SafetyNext
    PROVE  \/ CanAcquire /\ emergencyStopped' = Expired
           \/ active' = NoLock
           \/ /\ Held
              /\ active'.owner = active.owner
              /\ active'.binding = active.binding
              /\ active'.age >= active.age
<1>1. ASSUME NEW o \in Owner, NEW req \in Request,
             DryRun(o, req) \/ BeginLive(o, req)
      PROVE CanAcquire /\ emergencyStopped' = Expired
  BY <1>1 DEF DryRun, BeginLive, AcquireAndRelease, Acquire
<1>2. ASSUME NEW o \in Owner, NEW users \in UserList,
             BeginLiveUserProfiles(o, users)
      PROVE CanAcquire /\ emergencyStopped' = Expired
  BY <1>2 DEF BeginLiveUserProfiles, Acquire
<1>3. ASSUME NEW o \in Owner, FinishLive(o) \/ FinishLiveUserProfiles(o)
      PROVE active' = NoLock
  BY <1>3 DEF FinishLive, FinishLiveUserProfiles
<1>4. ASSUME EmergencyStop PROVE active' = NoLock
  BY <1>4 DEF EmergencyStop
<1>5. ASSUME NEW o \in Owner, NEW local \in Checksum,
             NEW controller \in Checksum, NEW st \in {"match", "different"},
             NEW version \in Version,
             RecordComparison(o, local, controller, st, version)
      PROVE active' = active
  BY <1>5 DEF RecordComparison
<1>6. ASSUME ResetEmergencyStop \/ UserProfileDryRun
      PROVE active' = active
  BY <1>6 DEF ResetEmergencyStop, UserProfileDryRun
<1> QED
  BY <1>1, <1>2, <1>3, <1>4, <1>5, <1>6, AdvanceLock, UnchangedLock
     DEF SafetyNext

\* The lock never passes from one holder to the next without a release,
\* except past the deadline, and then with the stop latched.
THEOREM SafetyLockHandover == SafetySpec => LockHandover
<1>1. TypeOK /\ [SafetyNext]_safetyVars =>
        [ \/ ~Held
          \/ active' = NoLock
          \/ active'.owner = active.owner /\ active'.age >= active.age
          \/ active.age > OverallDeadline /\ emergencyStopped' ]_safetyVars
  BY LockStep DEF CanAcquire, Expired, Held
<1>2. SafetyInit => TypeOK
  BY DEF SafetyInit, TypeOK
<1> QED
  BY <1>1, <1>2, TypeStep, PTL DEF SafetySpec, LockHandover

\* Once the stop is latched no send starts until it is reset.
THEOREM SafetyStopStaysLatched == SafetySpec => StopStaysLatched
<1>1. TypeOK /\ [SafetyNext]_safetyVars =>
        [ emergencyStopped =>
            \/ active' = NoLock
            \/ /\ Held
               /\ active'.owner = active.owner
               /\ active'.binding = active.binding
               /\ active'.age >= active.age ]_safetyVars
  BY LockStep DEF CanAcquire
<1>2. SafetyInit => TypeOK
  BY DEF SafetyInit, TypeOK
<1> QED
  BY <1>1, <1>2, TypeStep, PTL DEF SafetySpec, StopStaysLatched

-----------------------------------------------------------------------------
(* Sends and sockets *)

LEMMA RunningTyped ==
    ASSUME BridgeTypeOK, NEW s \in Sends, Running(s)
    PROVE  /\ send[s] \in Send
           /\ send[s].client \in Owner
           /\ send[s].kind \in {"config", "profiles"}
           /\ s \in 0..SendCount /\ s # 0
<1>1. send[s] \in Send
  BY DEF BridgeTypeOK, Running
<1> QED BY <1>1, BridgeAssumption DEF Send, Sends

\* Starting a runner makes its send run.
LEMMA SendIsRun ==
    ASSUME NEW r \in Send PROVE r # NoSend
<1>1. r.stage # "done"
  BY DEF Send
<1> QED BY <1>1 DEF NoSend

\* What is left of a socket that may have been destroyed.
Loses(S, k) ==
    /\ S[k].xfer = sock[k].xfer
    /\ S[k].prof = sock[k].prof
    /\ S[k].verify = sock[k].verify
    /\ S[k].phase = sock[k].phase \/ (Live(k) /\ S[k].phase = "closing")

Alive(S, k) == S[k].phase \in {"connecting", "up"}

\* Destroying sockets changes their phase and nothing that hangs on them.
LEMMA DestroyedSockets ==
    ASSUME BridgeTypeOK, NEW C
    PROVE  /\ Destroyed(C) \in [Socks -> Socket]
           /\ \A k \in Socks : Loses(Destroyed(C), k)
           /\ \A k \in Socks, c \in C :
                 current[c] = k => ~Alive(Destroyed(C), k)
<1>1. sock \in [Socks -> Socket]
  BY DEF BridgeTypeOK
<1>2. ASSUME NEW k \in Socks
      PROVE  /\ Destroyed(C)[k] \in Socket
             /\ Loses(Destroyed(C), k)
             /\ \A c \in C : current[c] = k => ~Alive(Destroyed(C), k)
  <2>1. CASE Live(k) /\ \E c \in C : current[c] = k
    <3>1. Destroyed(C)[k] = [sock[k] EXCEPT !.phase = "closing"]
      BY <2>1 DEF Destroyed
    <3> QED BY <1>1, <2>1, <3>1 DEF Socket, Loses, Alive
  <2>2. CASE ~(Live(k) /\ \E c \in C : current[c] = k)
    <3>1. Destroyed(C)[k] = sock[k]
      BY <2>2 DEF Destroyed
    <3> QED BY <1>1, <2>2, <3>1 DEF Loses, Alive, Live
  <2> QED BY <2>1, <2>2
<1>3. Destroyed(C) = [k \in Socks |-> Destroyed(C)[k]]
  BY DEF Destroyed
<1> QED BY <1>2, <1>3

LEMMA FreshSocket ==
    ASSUME NEW r \in 0..SendCount
    PROVE  /\ NewSocket(r) \in Socket /\ ClosedSocket \in Socket
           /\ NewSocket(r).phase = "connecting" /\ NewSocket(r).xfer = r
           /\ NewSocket(r).prof = 0
           /\ ClosedSocket.phase = "closed" /\ ClosedSocket.xfer = 0
           /\ ClosedSocket.prof = 0
<1>1. 0 \in 0..SendCount
  BY BridgeAssumption
<1>2. /\ NewSocket(r) \in Socket /\ NewSocket(0) \in Socket
      /\ NewSocket(r).phase = "connecting" /\ NewSocket(r).xfer = r
      /\ NewSocket(r).prof = 0
  BY <1>1 DEF NewSocket, Socket
<1>3. /\ ClosedSocket \in Socket /\ ClosedSocket.phase = "closed"
      /\ ClosedSocket.xfer = 0 /\ ClosedSocket.prof = 0
  BY <1>1 DEF NewSocket, ClosedSocket, Socket
<1> QED BY <1>2, <1>3

-----------------------------------------------------------------------------
(* What the maps and the sockets name *)

RunsAs(s, kind) == Running(s) /\ send[s].kind = kind

RunsFor(s, kind, c) == RunsAs(s, kind) /\ send[s].client = c

MapsFit(c) ==
    /\ xferOf[c] # 0 => RunsFor(xferOf[c], "config", c)
    /\ profOf[c] # 0 => RunsFor(profOf[c], "profiles", c)

SocketFits(k) ==
    /\ sock[k].xfer # 0 => RunsAs(sock[k].xfer, "config")
    /\ sock[k].prof # 0 => RunsAs(sock[k].prof, "profiles")

\* Only sends that run are in a map or on a socket, each in the place of its
\* kind, and only a configuration redials.
Entered ==
    /\ \A c \in Owner : MapsFit(c)
    /\ \A k \in Socks : SocketFits(k)
    /\ \A s \in Sends : Running(s) /\ send[s].timer => send[s].kind = "config"

\* The names in the maps and on the sockets are those of sends.
LEMMA NamesTyped ==
    ASSUME BridgeTypeOK
    PROVE  /\ \A c \in Owner : xferOf[c] \in Sends \cup {0}
           /\ \A c \in Owner : profOf[c] \in Sends \cup {0}
           /\ \A k \in Socks : sock[k].xfer \in Sends \cup {0}
           /\ \A k \in Socks : sock[k].prof \in Sends \cup {0}
<1>1. 0..SendCount = Sends \cup {0}
  BY BridgeAssumption DEF Sends
<1> QED BY <1>1 DEF BridgeTypeOK, Socket

-----------------------------------------------------------------------------
(* The bridge calls the coordinator as its specification allows *)

\* The result callbacks, taken together, are one release or none.
LEMMA GiveBackIsSafety ==
    ASSUME BridgeTypeOK, NEW E,
           \A s \in E : s \in Sends /\ Running(s), GiveBack(E)
    PROVE  [SafetyNext]_safetyVars
<1>1. \A s \in E : send[s].client \in Owner
  BY RunningTyped
<1> QED BY <1>1 DEF GiveBack, SafetyNext

\* So every callback of the bridge is one operation of the coordinator.
LEMMA SafetyStep ==
    ASSUME BridgeTypeOK, Entered, [BridgeNext]_allVars
    PROVE  [SafetyNext]_safetyVars
<1>1. ASSUME NEW c \in Owner,
             Connect(c) \/ Verify(c) \/ UserProfileDryRunMessage(c)
      PROVE  [SafetyNext]_safetyVars
  BY <1>1 DEF Connect, Verify, UserProfileDryRunMessage, SafetyNext
<1>2. ASSUME NEW c \in Owner, NEW req \in Request,
             DryRunMessage(c, req) \/ Sync(c, req) \/ SyncUnsupported(c, req)
      PROVE  [SafetyNext]_safetyVars
  <2>1. CASE SyncUnsupported(c, req)
    <3>1. DryRun(c, req)
      BY <2>1 DEF SyncUnsupported, CanBeginLive, DryRun
    <3> QED BY <3>1 DEF SafetyNext
  <2> QED BY <1>2, <2>1 DEF DryRunMessage, Sync, SafetyNext
<1>3. ASSUME NEW c \in Owner, NEW users \in UserList,
             SendUserProfiles(c, users)
      PROVE  [SafetyNext]_safetyVars
  BY <1>3 DEF SendUserProfiles, SafetyNext
<1>4. ASSUME NEW c \in Owner,
             SyncRefused(c) \/ UserProfilesRefused(c) \/ StopMessage(c)
               \/ ResetMessage(c)
      PROVE  [SafetyNext]_safetyVars
  BY <1>4 DEF SyncRefused, UserProfilesRefused, StopMessage, ResetMessage,
              SafetyNext
<1>5. ASSUME NEW c \in Owner, CancelTransfer(c) PROVE [SafetyNext]_safetyVars
  <2>1. /\ GiveBack({xferOf[c]}) /\ Running(xferOf[c]) /\ xferOf[c] \in Sends
    BY <1>5, NamesTyped
       DEF CancelTransfer, Fails, Finish, FinishOver, Entered, MapsFit, RunsFor, RunsAs
  <2> QED BY <2>1, GiveBackIsSafety
<1>6. ASSUME NEW c \in Owner, BrowserCloses(c) PROVE [SafetyNext]_safetyVars
  <2>1. GiveBack({xferOf[c], profOf[c]} \ {0})
    BY <1>6 DEF BrowserCloses, Finish, FinishOver
  <2>2. \A s \in {xferOf[c], profOf[c]} \ {0} : s \in Sends /\ Running(s)
    BY NamesTyped DEF Entered, MapsFit, RunsFor, RunsAs
  <2> QED BY <2>1, <2>2, GiveBackIsSafety
<1>7. ASSUME NEW k \in Socks, SocketOpens(k) \/ SocketFails(k)
      PROVE  [SafetyNext]_safetyVars
  BY <1>7 DEF SocketOpens, SocketFails
<1>8. ASSUME NEW k \in Socks, SocketCloses(k)
      PROVE  [SafetyNext]_safetyVars
  <2>1. PICK E \in SUBSET {sock[k].prof, sock[k].xfer} : GiveBack(E \ {0})
    BY <1>8 DEF SocketCloses, ClosesFatally, FinishOver
  <2>2. \A s \in E \ {0} : s \in Sends /\ Running(s)
    BY NamesTyped DEF Entered, SocketFits, RunsAs
  <2> QED BY <2>1, <2>2, GiveBackIsSafety
<1>9. ASSUME NEW k \in Socks, CompareEnds(k)
      PROVE  [SafetyNext]_safetyVars
  BY <1>9, BridgeAssumption DEF CompareEnds, SafetyNext
<1>10. ASSUME NEW s \in Sends, WritesLast(s) \/ Redial(s)
       PROVE  [SafetyNext]_safetyVars
  BY <1>10 DEF WritesLast, Redial
<1>11. ASSUME NEW s \in Sends, SendEnds(s) PROVE [SafetyNext]_safetyVars
  <2>1. GiveBack({s}) /\ Running(s)
    BY <1>11 DEF SendEnds, Fails, Finish, FinishOver
  <2> QED BY <2>1, GiveBackIsSafety
<1>12. CASE TimePasses
  BY <1>12 DEF TimePasses, SafetyNext
<1>13. CASE UNCHANGED allVars
  BY <1>13 DEF allVars
<1> QED
  BY <1>1, <1>2, <1>3, <1>4, <1>5, <1>6, <1>7, <1>8, <1>9, <1>10, <1>11,
     <1>12, <1>13 DEF BridgeNext

-----------------------------------------------------------------------------
(* Type correctness *)

BridgeVarsTyped ==
    /\ open \subseteq Owner
    /\ current \in [Owner -> 0..SockCount]
    /\ sock \in [Socks -> Socket]
    /\ send \in [Sends -> Send \cup {NoSend}]
    /\ xferOf \in [Owner -> 0..SendCount]
    /\ profOf \in [Owner -> 0..SendCount]

\* finish(), connectController and the start of a runner keep the types.
LEMMA FinishTyped ==
    ASSUME BridgeTypeOK, NEW E, NEW S \in [Socks -> Socket],
           NEW T \in [Sends -> Send \cup {NoSend}], FinishOver(E, S, T)
    PROVE  /\ sock' \in [Socks -> Socket]
           /\ send' \in [Sends -> Send \cup {NoSend}]
           /\ xferOf' \in [Owner -> 0..SendCount]
           /\ profOf' \in [Owner -> 0..SendCount]
<1>1. 0 \in 0..SendCount
  BY BridgeAssumption
<1>2. ASSUME NEW k \in Socks
      PROVE  [S[k] EXCEPT !.xfer = IF @ \in E THEN 0 ELSE @,
                          !.prof = IF @ \in E THEN 0 ELSE @] \in Socket
  BY <1>1 DEF Socket
<1>3. sock' \in [Socks -> Socket]
  BY <1>2 DEF FinishOver
<1>4. send' \in [Sends -> Send \cup {NoSend}]
  BY DEF FinishOver
<1>5. xferOf \in [Owner -> 0..SendCount] /\ profOf \in [Owner -> 0..SendCount]
  BY DEF BridgeTypeOK
<1>6. xferOf' \in [Owner -> 0..SendCount] /\ profOf' \in [Owner -> 0..SendCount]
  BY <1>1, <1>5 DEF FinishOver
<1> QED BY <1>3, <1>4, <1>6

LEMMA DialTyped ==
    ASSUME BridgeTypeOK, NEW c \in Owner, NEW r \in 0..SendCount, Dial(c, r)
    PROVE  /\ current' \in [Owner -> 0..SockCount]
           /\ sock' \in [Socks -> Socket]
<1>1. Socks \subseteq 0..SockCount
  BY BridgeAssumption DEF Socks
<1> QED BY <1>1, FreshSocket, DestroyedSockets DEF Dial, BridgeTypeOK

LEMMA StartTyped ==
    ASSUME BridgeTypeOK, NEW c \in Owner, NEW kind \in {"config", "profiles"},
           StartRunner(c, kind)
    PROVE  BridgeVarsTyped'
<1>1. PICK s \in Sends :
        /\ send' = [send EXCEPT ![s] =
              [kind |-> kind, client |-> c, stage |-> "writing",
               linked |-> TRUE, timer |-> FALSE]]
        /\ IF kind = "config"
           THEN /\ xferOf' = [xferOf EXCEPT ![c] = s]
                /\ sock' = [sock EXCEPT ![current[c]].xfer = s]
                /\ UNCHANGED profOf
           ELSE /\ profOf' = [profOf EXCEPT ![c] = s]
                /\ sock' = [sock EXCEPT ![current[c]].prof = s]
                /\ UNCHANGED xferOf
        /\ UNCHANGED <<open, current>>
  BY DEF StartRunner
<1>2. s \in 0..SendCount
  BY BridgeAssumption DEF Sends
<1>3. [kind |-> kind, client |-> c, stage |-> "writing", linked |-> TRUE,
       timer |-> FALSE] \in Send
  BY DEF Send
<1>4. send' \in [Sends -> Send \cup {NoSend}]
  BY <1>1, <1>3 DEF BridgeTypeOK
<1>5. sock' \in [Socks -> Socket]
  <2>1. sock \in [Socks -> Socket]
    BY DEF BridgeTypeOK
  <2>2. \A k \in Socks : /\ [sock[k] EXCEPT !.xfer = s] \in Socket
                         /\ [sock[k] EXCEPT !.prof = s] \in Socket
    BY <1>2, <2>1 DEF Socket
  <2> QED BY <1>1, <2>1, <2>2
<1>6. /\ xferOf' \in [Owner -> 0..SendCount]
      /\ profOf' \in [Owner -> 0..SendCount]
  BY <1>1, <1>2 DEF BridgeTypeOK
<1> QED BY <1>1, <1>4, <1>5, <1>6 DEF BridgeTypeOK, BridgeVarsTyped

\* Every callback keeps the types of the bridge's own state.
LEMMA BridgeVarsStep ==
    ASSUME BridgeTypeOK, Entered, [BridgeNext]_allVars PROVE BridgeVarsTyped'
<1>1. BridgeVarsTyped
  BY DEF BridgeTypeOK, BridgeVarsTyped
<1>2. 0 \in 0..SockCount /\ 0 \in 0..SendCount
  BY BridgeAssumption
<1>3. sock \in [Socks -> Socket]
  BY DEF BridgeTypeOK
<1>4. CASE UNCHANGED bridgeVars
  BY <1>1, <1>4 DEF bridgeVars, BridgeVarsTyped
<1>5. ASSUME NEW c \in Owner,
             \/ UserProfileDryRunMessage(c) \/ SyncRefused(c)
             \/ UserProfilesRefused(c) \/ ResetMessage(c)
             \/ \E req \in Request :
                   DryRunMessage(c, req) \/ SyncUnsupported(c, req)
      PROVE  UNCHANGED bridgeVars
  BY <1>5 DEF UserProfileDryRunMessage, SyncRefused, UserProfilesRefused,
              ResetMessage, DryRunMessage, SyncUnsupported, bridgeVars
<1>6. ASSUME NEW c \in Owner, Connect(c) PROVE BridgeVarsTyped'
  BY <1>1, <1>2, <1>6, DialTyped, DestroyedSockets DEF Connect, BridgeVarsTyped
<1>7. ASSUME NEW c \in Owner, Verify(c) PROVE BridgeVarsTyped'
  <2>1. \A k \in Socks : [sock[k] EXCEPT !.verify = TRUE] \in Socket
    BY <1>3 DEF Socket
  <2>2. sock' \in [Socks -> Socket]
    BY <1>3, <1>7, <2>1 DEF Verify
  <2> QED BY <1>1, <1>7, <2>2 DEF Verify, BridgeVarsTyped
<1>8. ASSUME NEW c \in Owner,
             \/ \E req \in Request : Sync(c, req)
             \/ \E users \in UserList : SendUserProfiles(c, users)
      PROVE  BridgeVarsTyped'
  BY <1>8, StartTyped DEF Sync, SendUserProfiles
<1>9. ASSUME NEW c \in Owner, CancelTransfer(c) PROVE BridgeVarsTyped'
  BY <1>1, <1>9, FinishTyped, DestroyedSockets
     DEF CancelTransfer, Fails, Finish, BridgeVarsTyped
<1>10. ASSUME NEW c \in Owner, StopMessage(c) PROVE BridgeVarsTyped'
  BY <1>1, <1>10, DestroyedSockets DEF StopMessage, BridgeVarsTyped
<1>11. ASSUME NEW c \in Owner, BrowserCloses(c) PROVE BridgeVarsTyped'
  <2>1. FinishOver({xferOf[c], profOf[c]} \ {0}, Destroyed({c}), send)
    BY <1>11 DEF BrowserCloses, Finish
  <2>2. /\ sock' \in [Socks -> Socket]
        /\ send' \in [Sends -> Send \cup {NoSend}]
        /\ xferOf' \in [Owner -> 0..SendCount]
        /\ profOf' \in [Owner -> 0..SendCount]
    BY <2>1, FinishTyped, DestroyedSockets DEF BridgeTypeOK
  <2>3. open' \subseteq Owner /\ current' \in [Owner -> 0..SockCount]
    BY <1>1, <1>2, <1>11 DEF BrowserCloses, BridgeVarsTyped
  <2> QED BY <2>2, <2>3 DEF BridgeVarsTyped
<1>12. ASSUME NEW k \in Socks, SocketOpens(k) PROVE BridgeVarsTyped'
  <2>1. \A j \in Socks : [sock[j] EXCEPT !.phase = "up"] \in Socket
    BY <1>3 DEF Socket
  <2>2. sock' \in [Socks -> Socket]
    BY <1>3, <1>12, <2>1 DEF SocketOpens
  <2>3. send' \in [Sends -> Send \cup {NoSend}]
    <3>1. CASE send' = send
      BY <1>1, <3>1 DEF BridgeVarsTyped
    <3>2. CASE /\ sock[k].xfer # 0
               /\ send' = [send EXCEPT ![sock[k].xfer].linked = TRUE]
      <4>1. sock[k].xfer \in Sends /\ send[sock[k].xfer] \in Send
        BY <3>2, NamesTyped, RunningTyped DEF Entered, SocketFits, RunsAs
      <4>2. [send[sock[k].xfer] EXCEPT !.linked = TRUE] \in Send
        BY <4>1 DEF Send
      <4> QED BY <1>1, <3>2, <4>1, <4>2 DEF BridgeVarsTyped
    <3> QED BY <1>12, <3>1, <3>2 DEF SocketOpens
  <2> QED BY <1>1, <1>12, <2>2, <2>3 DEF SocketOpens, BridgeVarsTyped
<1>13. ASSUME NEW k \in Socks, SocketFails(k) PROVE BridgeVarsTyped'
  <2>1. \A j \in Socks : [sock[j] EXCEPT !.phase = "closing"] \in Socket
    BY <1>3 DEF Socket
  <2>2. sock' \in [Socks -> Socket]
    BY <1>3, <1>13, <2>1 DEF SocketFails
  <2> QED BY <1>1, <1>13, <2>2 DEF SocketFails, BridgeVarsTyped
<1>14. ASSUME NEW k \in Socks, SocketCloses(k) PROVE BridgeVarsTyped'
  <2> DEFINE s == sock[k].xfer
             T == [send EXCEPT ![s].linked = FALSE, ![s].timer = TRUE]
  <2>1. PICK E, C : \/ FinishOver(E, [Destroyed(C) EXCEPT ![k] = ClosedSocket], send)
                    \/ /\ s # 0
                       /\ FinishOver(E, [Destroyed(C) EXCEPT ![k] = ClosedSocket], T)
    BY <1>14 DEF SocketCloses, ClosesFatally
  <2>2. [Destroyed(C) EXCEPT ![k] = ClosedSocket] \in [Socks -> Socket]
    BY <1>2, DestroyedSockets, FreshSocket
  <2>3. s # 0 => T \in [Sends -> Send \cup {NoSend}]
    <3>1. HAVE s # 0
    <3>2. s \in Sends /\ send[s] \in Send
      BY <3>1, NamesTyped, RunningTyped DEF Entered, SocketFits, RunsAs
    <3>3. \A r \in Send : /\ [r EXCEPT !.linked = FALSE] \in Send
                          /\ [r EXCEPT !.timer = TRUE] \in Send
      BY DEF Send
    <3> QED BY <1>1, <3>2, <3>3 DEF BridgeVarsTyped
  <2> HIDE DEF T
  <2>4. /\ sock' \in [Socks -> Socket]
        /\ send' \in [Sends -> Send \cup {NoSend}]
        /\ xferOf' \in [Owner -> 0..SendCount]
        /\ profOf' \in [Owner -> 0..SendCount]
    BY <1>1, <2>1, <2>2, <2>3, FinishTyped DEF BridgeVarsTyped
  <2>5. /\ UNCHANGED open
        /\ current' = [c \in Owner |-> IF current[c] = k THEN 0 ELSE current[c]]
    BY <1>14 DEF SocketCloses, ClosesFatally
  <2> QED BY <1>1, <1>2, <2>4, <2>5 DEF BridgeVarsTyped
<1>15. ASSUME NEW k \in Socks, CompareEnds(k) PROVE BridgeVarsTyped'
  <2>1. \A j \in Socks : [sock[j] EXCEPT !.verify = FALSE] \in Socket
    BY <1>3 DEF Socket
  <2>2. sock' \in [Socks -> Socket]
    BY <1>3, <1>15, <2>1 DEF CompareEnds
  <2> QED BY <1>1, <1>15, <2>2 DEF CompareEnds, BridgeVarsTyped
<1>16. ASSUME NEW s \in Sends, WritesLast(s) PROVE BridgeVarsTyped'
  <2>1. send[s] \in Send
    BY <1>16, RunningTyped DEF WritesLast
  <2>2. PICK stage \in {"resetWait", "listening"} :
          send' = [send EXCEPT ![s].stage = stage]
    BY <1>16 DEF WritesLast
  <2>3. [send[s] EXCEPT !.stage = stage] \in Send
    BY <2>1 DEF Send
  <2>4. send' \in [Sends -> Send \cup {NoSend}]
    BY <1>1, <2>2, <2>3 DEF BridgeVarsTyped
  <2> QED BY <1>1, <1>16, <2>4 DEF WritesLast, BridgeVarsTyped
<1>17. ASSUME NEW s \in Sends, SendEnds(s) PROVE BridgeVarsTyped'
  <2>1. \/ FinishOver({s}, sock, send)
        \/ FinishOver({s}, Destroyed({send[s].client}), send)
    BY <1>17 DEF SendEnds, Fails, Finish
  <2>2. /\ sock' \in [Socks -> Socket]
        /\ send' \in [Sends -> Send \cup {NoSend}]
        /\ xferOf' \in [Owner -> 0..SendCount]
        /\ profOf' \in [Owner -> 0..SendCount]
    BY <1>1, <2>1, FinishTyped, DestroyedSockets DEF BridgeVarsTyped
  <2> QED BY <1>1, <1>17, <2>2 DEF SendEnds, BridgeVarsTyped
<1>18. ASSUME NEW s \in Sends, Redial(s) PROVE BridgeVarsTyped'
  <2>1. /\ send[s] \in Send /\ send[s].client \in Owner /\ s \in 0..SendCount
    BY <1>18, RunningTyped DEF Redial
  <2>2. [send[s] EXCEPT !.timer = FALSE] \in Send
    BY <2>1 DEF Send
  <2>3. send' \in [Sends -> Send \cup {NoSend}]
    BY <1>1, <1>18, <2>2 DEF Redial, BridgeVarsTyped
  <2>4. current' \in [Owner -> 0..SockCount] /\ sock' \in [Socks -> Socket]
    BY <1>1, <1>18, <2>1, DialTyped DEF Redial, BridgeVarsTyped
  <2> QED BY <1>1, <1>18, <2>3, <2>4 DEF Redial, BridgeVarsTyped
<1>19. CASE TimePasses
  BY <1>4, <1>19 DEF TimePasses
<1>20. CASE UNCHANGED allVars
  BY <1>4, <1>20 DEF allVars
<1> QED
  BY <1>4, <1>5, <1>6, <1>7, <1>8, <1>9, <1>10, <1>11, <1>12, <1>13, <1>14,
     <1>15, <1>16, <1>17, <1>18, <1>19, <1>20 DEF BridgeNext

LEMMA BridgeTypeStep ==
    ASSUME BridgeTypeOK, Entered, [BridgeNext]_allVars PROVE BridgeTypeOK'
<1>1. TypeOK'
  BY SafetyStep, TypeStep DEF BridgeTypeOK
<1> QED BY <1>1, BridgeVarsStep DEF BridgeTypeOK, BridgeVarsTyped

-----------------------------------------------------------------------------
(* The callbacks, by what they do to sends, sockets and the lock *)

\* A send that goes on: it does not write again, and only a configuration
\* gets a timer.
SendKept(s) ==
    /\ Running(s)' <=> Running(s)
    /\ Running(s) =>
          /\ send'[s].kind = send[s].kind /\ send'[s].client = send[s].client
          /\ send'[s].stage = "writing" => send[s].stage = "writing"
          /\ send'[s].timer => send[s].timer \/ send[s].kind = "config"

\* What may happen to the lock while the sends in E end: it stays, or it goes
\* for one of the reasons there are to let it go.
LockKept(E) ==
    /\ Held /\ Held'
    /\ active'.owner = active.owner
    /\ \A s \in E : active.owner # send[s].client
    /\ \/ active'.age = active.age
       \/ \A s \in Sends : Running(s) => send[s].kind = "config"

LockGone(E) ==
    /\ ~Held'
    /\ \/ ~Held
       \/ Expired /\ emergencyStopped'
       \/ Polite /\ RunningOf(active.owner) = {}
       \/ ~Polite
       \/ \E s \in E : send[s].kind = "profiles" \/ active.owner = send[s].client
       \/ emergencyStopped' /\ \A k \in Socks : sock'[k].phase # "up"

\* The sends in E end, the closing sockets in K are closed, the browsers in D
\* leave; sockets may be destroyed.
EndRow(E, K, D) ==
    /\ E \subseteq Sends /\ \A s \in E : Running(s)
    /\ \A s \in E : ~Running(s)'
    /\ \A s \in Sends \ E : SendKept(s)
    /\ K \subseteq Socks /\ D \subseteq Owner /\ open' = open \ D
    /\ \A c \in Owner :
          /\ current'[c] = IF c \in D \/ current[c] \in K THEN 0 ELSE current[c]
          /\ xferOf'[c] = IF \E s \in E : RunsFor(s, "config", c)
                          THEN 0 ELSE xferOf[c]
          /\ profOf'[c] = IF \E s \in E : RunsFor(s, "profiles", c)
                          THEN 0 ELSE profOf[c]
    /\ \A c \in D :
          /\ {xferOf[c], profOf[c]} \ {0} \subseteq E
          /\ current[c] # 0 => ~Alive(sock', current[c])
    /\ \A k \in Socks \ K :
          /\ sock'[k].xfer = IF sock[k].xfer \in E THEN 0 ELSE sock[k].xfer
          /\ sock'[k].prof = IF sock[k].prof \in E THEN 0 ELSE sock[k].prof
          /\ \/ sock'[k].phase = sock[k].phase
             \/ Live(k) /\ sock'[k].phase = "closing"
    /\ \A k \in K :
          /\ sock[k].phase = "closing" /\ sock'[k].phase = "closed"
          /\ sock'[k].xfer = 0 /\ sock'[k].prof = 0
          /\ sock[k].prof # 0 => sock[k].prof \in E
          /\ sock[k].xfer # 0 /\ send[sock[k].xfer].stage = "writing" =>
                sock[k].xfer \in E
    /\ LockKept(E) \/ LockGone(E)

\* A connection is made.
UpRow(k) ==
    /\ Settled /\ sock[k].phase = "connecting" /\ sock'[k].phase = "up"
    /\ \A j \in Socks : /\ sock'[j].xfer = sock[j].xfer
                        /\ sock'[j].prof = sock[j].prof
                        /\ j # k => sock'[j].phase = sock[j].phase
    /\ \A s \in Sends : SendKept(s)
    /\ UNCHANGED <<safetyVars, open, current, xferOf, profOf>>

\* A browser, or its send r, dials.
DialRow(c, k, r) ==
    /\ r = 0 => c \in open
    /\ r # 0 => r \in Sends /\ RunsFor(r, "config", c)
    /\ sock[k].phase = "closed" /\ sock'[k].phase = "connecting"
    /\ sock'[k].xfer = r /\ sock'[k].prof = 0
    /\ \A j \in Socks : j # k =>
          /\ sock'[j].xfer = sock[j].xfer /\ sock'[j].prof = sock[j].prof
          /\ \/ sock'[j].phase = sock[j].phase /\ current[c] # j
             \/ sock'[j].phase = sock[j].phase /\ ~Live(j)
             \/ Live(j) /\ sock'[j].phase = "closing"
    /\ current' = [current EXCEPT ![c] = k]
    /\ \A s \in Sends : SendKept(s)
    /\ UNCHANGED <<safetyVars, open, xferOf, profOf>>

\* A send starts on the socket k of its browser.
StartRow(c, s, kind, k) ==
    /\ c \in open /\ (Polite => RunningOf(c) = {})
    /\ ~Running(s)
    /\ send'[s] \in Send
    /\ send'[s].kind = kind /\ send'[s].client = c /\ ~send'[s].timer
    /\ \A t \in Sends : t # s => send'[t] = send[t]
    /\ k = current[c] /\ sock[k].phase = "up"
    /\ \A j \in Socks :
          /\ sock'[j].phase = sock[j].phase
          /\ sock'[j].xfer = IF j = k /\ kind = "config" THEN s ELSE sock[j].xfer
          /\ sock'[j].prof = IF j = k /\ kind = "profiles" THEN s ELSE sock[j].prof
    /\ \A d \in Owner :
          /\ xferOf'[d] = IF d = c /\ kind = "config" THEN s ELSE xferOf[d]
          /\ profOf'[d] = IF d = c /\ kind = "profiles" THEN s ELSE profOf[d]
    /\ UNCHANGED <<open, current>>
    /\ CanAcquire /\ emergencyStopped' = Expired
    /\ Held' /\ active'.owner = c /\ active'.age = 0

Rows ==
    \/ \E E \in SUBSET Sends, K \in SUBSET Socks, D \in SUBSET Owner :
          EndRow(E, K, D)
    \/ \E k \in Socks : UpRow(k)
    \/ \E c \in Owner, k \in Socks, r \in Sends \cup {0} : DialRow(c, k, r)
    \/ \E c \in Owner, s \in Sends, kind \in {"config", "profiles"}, k \in Socks :
          StartRow(c, s, kind, k)

\* A callback that ends no send and closes no socket.
LEMMA QuietRow ==
    ASSUME BridgeTypeOK,
           \A s \in Sends : SendKept(s),
           \A k \in Socks : Loses(sock', k),
           UNCHANGED <<open, current, xferOf, profOf>>,
           LockKept({}) \/ LockGone({})
    PROVE  Rows
<1>1. {} \in SUBSET Sends /\ {} \in SUBSET Socks /\ {} \in SUBSET Owner
  OBVIOUS
<1>2. EndRow({}, {}, {})
  BY DEF EndRow, Loses
<1> QED BY <1>1, <1>2 DEF Rows

LEMMA LockUnchanged ==
    ASSUME active' = active PROVE LockKept({}) \/ LockGone({})
BY DEF LockKept, LockGone, Held

LEMMA SendUnchanged ==
    ASSUME NEW s \in Sends, send'[s] = send[s] PROVE SendKept(s)
BY DEF SendKept, Running

LEMMA SocketUnchanged ==
    ASSUME sock' = sock PROVE \A k \in Socks : Loses(sock', k)
BY DEF Loses

\* A send one of whose marks is set goes on.
LEMMA SendMarked ==
    ASSUME BridgeTypeOK, NEW s \in Sends, Running(s), send'[s] \in Send,
           send'[s].kind = send[s].kind, send'[s].client = send[s].client,
           send'[s].stage = "writing" => send[s].stage = "writing",
           send'[s].timer => send[s].timer \/ send[s].kind = "config"
    PROVE  SendKept(s)
BY SendIsRun DEF SendKept, Running

\* The lock after the result callbacks of the sends that end.
LEMMA GiveBackLock ==
    ASSUME NEW E, E \subseteq Sends, GiveBack(E) PROVE LockKept(E) \/ LockGone(E)
<1>1. CASE active' = NoLock
  <2>1. CASE \E s \in E : send[s].kind = "profiles"
    BY <1>1, <2>1 DEF LockGone, Held
  <2>2. CASE \E s \in E : FinishLive(send[s].client)
    BY <1>1, <2>2 DEF LockGone, Held, FinishLive
  <2>3. CASE UNCHANGED safetyVars
    BY <1>1, <2>3 DEF LockGone, Held, safetyVars
  <2> QED BY <2>1, <2>2, <2>3 DEF GiveBack
<1>2. CASE active' # NoLock
  <2>1. /\ UNCHANGED safetyVars
        /\ \A s \in E : ~(Held /\ active.owner = send[s].client)
    BY <1>2 DEF GiveBack, FinishLive, FinishLiveUserProfiles
  <2> QED BY <1>2, <2>1 DEF LockKept, Held, safetyVars
<1> QED BY <1>1, <1>2

\* finish() of the sends in E, field by field.
Finished(E, S, T) ==
    /\ \A s \in E : ~Running(s)'
    /\ \A s \in Sends \ E : send'[s] = T[s]
    /\ \A c \in Owner :
          /\ xferOf'[c] = IF \E s \in E : RunsFor(s, "config", c)
                          THEN 0 ELSE xferOf[c]
          /\ profOf'[c] = IF \E s \in E : RunsFor(s, "profiles", c)
                          THEN 0 ELSE profOf[c]
    /\ \A k \in Socks :
          /\ sock'[k].phase = S[k].phase
          /\ sock'[k].xfer = IF S[k].xfer \in E THEN 0 ELSE S[k].xfer
          /\ sock'[k].prof = IF S[k].prof \in E THEN 0 ELSE S[k].prof
    /\ LockKept(E) \/ LockGone(E)

LEMMA FinishFields ==
    ASSUME NEW E \in SUBSET Sends, \A s \in E : Running(s),
           NEW S \in [Socks -> Socket], NEW T,
           FinishOver(E, S, T)
    PROVE  Finished(E, S, T)
<1>1. \A s \in E : ~Running(s)'
  BY DEF FinishOver, Running
<1>2. \A s \in Sends \ E : send'[s] = T[s]
  BY DEF FinishOver
<1>3. \A c \in Owner :
        /\ xferOf'[c] = IF \E s \in E : RunsFor(s, "config", c)
                        THEN 0 ELSE xferOf[c]
        /\ profOf'[c] = IF \E s \in E : RunsFor(s, "profiles", c)
                        THEN 0 ELSE profOf[c]
  BY DEF FinishOver, RunsFor, RunsAs
<1>4. ASSUME NEW k \in Socks
      PROVE  /\ sock'[k].phase = S[k].phase
             /\ sock'[k].xfer = IF S[k].xfer \in E THEN 0 ELSE S[k].xfer
             /\ sock'[k].prof = IF S[k].prof \in E THEN 0 ELSE S[k].prof
  <2>1. sock'[k] = [S[k] EXCEPT !.xfer = IF @ \in E THEN 0 ELSE @,
                                !.prof = IF @ \in E THEN 0 ELSE @]
    BY DEF FinishOver
  <2> QED BY <2>1 DEF Socket
<1>5. LockKept(E) \/ LockGone(E)
  BY GiveBackLock DEF FinishOver
<1> QED BY <1>1, <1>2, <1>3, <1>4, <1>5 DEF Finished

\* What remains to be said of such a callback.
LEMMA FinishEndRow ==
    ASSUME BridgeTypeOK,
           NEW E \in SUBSET Sends, \A s \in E : Running(s),
           NEW S \in [Socks -> Socket], NEW D \in SUBSET Owner,
           FinishOver(E, S, send),
           \A k \in Socks : Loses(S, k),
           open' = open \ D,
           \A c \in Owner : current'[c] = IF c \in D THEN 0 ELSE current[c],
           \A c \in D : /\ {xferOf[c], profOf[c]} \ {0} \subseteq E
                        /\ current[c] # 0 => ~Alive(S, current[c])
    PROVE  Rows
<1>1. Finished(E, S, send)
  BY FinishFields
<1>2. {} \in SUBSET Socks
  OBVIOUS
<1>3. \A c \in D : current[c] # 0 => ~Alive(sock', current[c])
  <2>1. \A c \in D : current[c] # 0 => current[c] \in Socks
    BY BridgeAssumption DEF BridgeTypeOK, Socks
  <2> QED BY <1>1, <2>1 DEF Alive, Finished
<1>4. \A s \in Sends \ E : SendKept(s)
  BY <1>1, SendUnchanged DEF Finished
<1>5. EndRow(E, {}, D)
  BY <1>1, <1>3, <1>4 DEF EndRow, Finished, Loses
<1> QED BY <1>2, <1>5 DEF Rows

-----------------------------------------------------------------------------
(* Every callback is one of the rows *)

\* No socket is alive that no browser uses.
Used == \A k \in Socks : Live(k) => \E c \in Owner : current[c] = k

LEMMA StillRows ==
    ASSUME BridgeTypeOK, UNCHANGED bridgeVars, LockKept({}) \/ LockGone({})
    PROVE  Rows
<1>1. \A s \in Sends : SendKept(s)
  BY SendUnchanged DEF bridgeVars
<1> QED BY <1>1, QuietRow, SocketUnchanged DEF bridgeVars

\* Messages that only the coordinator answers.
LEMMA SafetyOnlyRows ==
    ASSUME BridgeTypeOK, NEW c \in Owner,
           \/ UserProfileDryRunMessage(c) \/ SyncRefused(c)
           \/ UserProfilesRefused(c) \/ ResetMessage(c)
           \/ \E req \in Request :
                 DryRunMessage(c, req) \/ SyncUnsupported(c, req)
    PROVE  Rows
<1>1. UNCHANGED bridgeVars
  BY DEF UserProfileDryRunMessage, SyncRefused, UserProfilesRefused,
         ResetMessage, DryRunMessage, SyncUnsupported, bridgeVars
<1>2. LockKept({}) \/ LockGone({})
  <2>1. CASE UserProfileDryRunMessage(c) \/ ResetMessage(c)
    BY <2>1, LockUnchanged DEF UserProfileDryRunMessage, UserProfileDryRun,
                               ResetMessage, ResetEmergencyStop
  <2>2. CASE SyncRefused(c) \/ UserProfilesRefused(c)
    BY <2>2 DEF SyncRefused, UserProfilesRefused, FinishLive, MayStart,
                FinishLiveUserProfiles, LockGone, Held
  <2>3. CASE \E req \in Request :
                DryRunMessage(c, req) \/ SyncUnsupported(c, req)
    <3>1. AcquireAndRelease
      BY <2>3 DEF DryRunMessage, DryRun, SyncUnsupported
    <3> QED BY <3>1 DEF AcquireAndRelease, CanAcquire, LockGone, Held
  <2> QED BY <2>1, <2>2, <2>3
<1> QED BY <1>1, <1>2, StillRows

\* A minute passes while configurations run.
LEMMA TimeRows ==
    ASSUME BridgeTypeOK, TimePasses PROVE Rows
<1>1. LockKept({}) \/ LockGone({})
  <2>1. CASE Held
    <3>1. active \in Lock /\ active' = Older(active, OverallDeadline)
      BY <2>1 DEF TimePasses, Advance, BridgeTypeOK, TypeOK, Held
    <3>2. Held' /\ active'.owner = active.owner
      BY <3>1, OlderLock, NullAssumption DEF Held
    <3> QED BY <2>1, <3>2 DEF TimePasses, LockKept
  <2>2. CASE ~Held
    BY <2>2 DEF TimePasses, Advance, LockGone, Held
  <2> QED BY <2>1, <2>2
<1> QED BY <1>1, StillRows DEF TimePasses

\* A dial destroys the socket it replaces.
LEMMA DialRows ==
    ASSUME BridgeTypeOK, NEW c \in Owner, NEW r \in Sends \cup {0}, Dial(c, r),
           r = 0 => c \in open, r # 0 => RunsFor(r, "config", c),
           \A s \in Sends : SendKept(s),
           UNCHANGED <<safetyVars, open, xferOf, profOf>>
    PROVE  Rows
<1>1. PICK k \in Socks :
        /\ sock[k].phase = "closed"
        /\ sock' = [Destroyed({c}) EXCEPT ![k] = NewSocket(r)]
        /\ current' = [current EXCEPT ![c] = k]
  BY DEF Dial
<1>2. r \in 0..SendCount
  BY BridgeAssumption DEF Sends
<1>3. /\ sock'[k] = NewSocket(r)
      /\ \A j \in Socks : j # k => sock'[j] = Destroyed({c})[j]
  BY <1>1, DestroyedSockets
<1>4. DialRow(c, k, r)
  <2>1. ASSUME NEW j \in Socks, j # k
        PROVE  /\ sock'[j].xfer = sock[j].xfer /\ sock'[j].prof = sock[j].prof
               /\ \/ sock'[j].phase = sock[j].phase /\ current[c] # j
                  \/ sock'[j].phase = sock[j].phase /\ ~Live(j)
                  \/ Live(j) /\ sock'[j].phase = "closing"
    <3>1. Loses(Destroyed({c}), j)
      BY DestroyedSockets
    <3>2. current[c] = j => ~Alive(Destroyed({c}), j)
      BY DestroyedSockets
    <3> QED BY <1>3, <2>1, <3>1, <3>2 DEF Loses, Alive, Live
  <2> QED BY ZenonT(40), <1>1, <1>2, <1>3, <2>1, FreshSocket DEF DialRow
<1> QED BY <1>4 DEF Rows

\* A send starts with the lock, on the socket of its browser.
LEMMA StartRows ==
    ASSUME BridgeTypeOK, NEW c \in Owner, NEW kind \in {"config", "profiles"},
           MayStart(c), SocketReady(c), StartRunner(c, kind), CanAcquire,
           emergencyStopped' = Expired,
           Held' /\ active'.owner = c /\ active'.age = 0
    PROVE  Rows
<1>1. PICK s \in Sends :
        /\ ~Running(s)
        /\ send' = [send EXCEPT ![s] =
              [kind |-> kind, client |-> c, stage |-> "writing",
               linked |-> TRUE, timer |-> FALSE]]
        /\ IF kind = "config"
           THEN /\ xferOf' = [xferOf EXCEPT ![c] = s]
                /\ sock' = [sock EXCEPT ![current[c]].xfer = s]
                /\ UNCHANGED profOf
           ELSE /\ profOf' = [profOf EXCEPT ![c] = s]
                /\ sock' = [sock EXCEPT ![current[c]].prof = s]
                /\ UNCHANGED xferOf
        /\ UNCHANGED <<open, current>>
  BY DEF StartRunner
<1>2. PICK k \in Socks : k = current[c]
  BY BridgeAssumption DEF SocketReady, BridgeTypeOK, Socks
<1>3. /\ send'[s] \in Send /\ ~send'[s].timer
      /\ send'[s].kind = kind /\ send'[s].client = c
      /\ \A t \in Sends : t # s => send'[t] = send[t]
  BY <1>1 DEF BridgeTypeOK, Send
<1>4. ASSUME NEW j \in Socks
      PROVE  /\ sock'[j].phase = sock[j].phase
             /\ sock'[j].xfer = IF j = k /\ kind = "config" THEN s ELSE sock[j].xfer
             /\ sock'[j].prof = IF j = k /\ kind = "profiles" THEN s ELSE sock[j].prof
  <2>1. sock \in [Socks -> Socket]
    BY DEF BridgeTypeOK
  <2>2. CASE kind = "config"
    <3>1. sock' = [sock EXCEPT ![k].xfer = s]
      BY <1>1, <1>2, <2>2
    <3> QED BY <2>1, <2>2, <3>1 DEF Socket
  <2>3. CASE kind = "profiles"
    <3>1. sock' = [sock EXCEPT ![k].prof = s]
      BY <1>1, <1>2, <2>3
    <3> QED BY <2>1, <2>3, <3>1 DEF Socket
  <2> QED BY <2>2, <2>3
<1>5. \A d \in Owner :
        /\ xferOf'[d] = IF d = c /\ kind = "config" THEN s ELSE xferOf[d]
        /\ profOf'[d] = IF d = c /\ kind = "profiles" THEN s ELSE profOf[d]
  BY <1>1 DEF BridgeTypeOK
<1>6. StartRow(c, s, kind, k)
  BY <1>1, <1>2, <1>3, <1>4, <1>5 DEF StartRow, MayStart, SocketReady
<1> QED BY <1>6 DEF Rows

\* The other messages of a browser.
LEMMA MessageRows ==
    ASSUME BridgeTypeOK, BridgeTypeOK', Entered, Used, NEW c \in Owner,
           \/ Connect(c) \/ Verify(c) \/ CancelTransfer(c) \/ StopMessage(c)
           \/ BrowserCloses(c)
           \/ \E req \in Request : Sync(c, req)
           \/ \E users \in UserList : SendUserProfiles(c, users)
    PROVE  Rows
<1>1. ASSUME UNCHANGED send PROVE \A s \in Sends : SendKept(s)
  BY <1>1, SendUnchanged
<1>2. CASE Connect(c)
  <2>1. CASE Dial(c, 0)
    BY <1>1, <1>2, <2>1, DialRows DEF Connect
  <2>2. CASE sock' = Destroyed({c}) /\ UNCHANGED current
    BY <1>1, <1>2, <2>2, DestroyedSockets, QuietRow, LockUnchanged
       DEF Connect, safetyVars
  <2> QED BY <1>2, <2>1, <2>2 DEF Connect
<1>3. CASE Verify(c)
  <2>1. \A k \in Socks : /\ sock'[k].xfer = sock[k].xfer
                         /\ sock'[k].prof = sock[k].prof
                         /\ sock'[k].phase = sock[k].phase
    BY <1>3 DEF Verify, BridgeTypeOK, Socket
  <2>2. {} \in SUBSET Sends /\ {} \in SUBSET Socks /\ {} \in SUBSET Owner
    OBVIOUS
  <2>3. EndRow({}, {}, {})
    BY <1>1, <1>3, <2>1, LockUnchanged DEF Verify, EndRow, safetyVars
  <2> QED BY <2>2, <2>3 DEF Rows
<1>4. CASE CancelTransfer(c)
  <2> DEFINE s == xferOf[c]
  <2>1. s \in Sends /\ Running(s)
    BY <1>4, NamesTyped DEF CancelTransfer, Entered, MapsFit, RunsFor, RunsAs
  <2>2. /\ FinishOver({s}, Destroyed({send[s].client}), send)
        /\ UNCHANGED <<open, current>>
    BY <1>4 DEF CancelTransfer, Fails, Finish
  <2>3. {s} \in SUBSET Sends /\ {} \in SUBSET Owner
    BY <2>1
  <2>4. /\ Destroyed({send[s].client}) \in [Socks -> Socket]
        /\ \A k \in Socks : Loses(Destroyed({send[s].client}), k)
    BY DestroyedSockets
  <2> HIDE DEF s
  <2> QED BY <2>1, <2>2, <2>3, <2>4, FinishEndRow
<1>5. CASE StopMessage(c)
  <2>1. \A k \in Socks : Loses(sock', k) /\ ~Alive(sock', k)
    <3>1. ASSUME NEW k \in Socks PROVE ~Alive(sock', k)
      <4>1. CASE Live(k)
        BY <1>5, <4>1, DestroyedSockets DEF Used, StopMessage
      <4>2. CASE ~Live(k)
        BY <1>5, <4>2, DestroyedSockets DEF StopMessage, Loses, Live, Alive
      <4> QED BY <4>1, <4>2
    <3> QED BY <1>5, <3>1, DestroyedSockets DEF StopMessage
  <2>2. LockGone({})
    BY <1>5, <2>1 DEF StopMessage, EmergencyStop, LockGone, Held, Alive
  <2> QED BY <1>1, <1>5, <2>1, <2>2, QuietRow DEF StopMessage
<1>6. CASE BrowserCloses(c)
  <2> DEFINE E == {xferOf[c], profOf[c]} \ {0}
  <2>1. E \in SUBSET Sends /\ {c} \in SUBSET Owner /\ \A s \in E : Running(s)
    BY NamesTyped DEF Entered, MapsFit, RunsFor, RunsAs
  <2>2. /\ FinishOver(E, Destroyed({c}), send)
        /\ open' = open \ {c}
        /\ current' = [current EXCEPT ![c] = 0]
    BY <1>6 DEF BrowserCloses, Finish
  <2>3. \A d \in Owner :
          current'[d] = IF d \in {c} THEN 0 ELSE current[d]
    BY <2>2 DEF BridgeTypeOK
  <2>4. \A d \in {c} : /\ {xferOf[d], profOf[d]} \ {0} \subseteq E
                       /\ current[d] # 0 => ~Alive(Destroyed({c}), current[d])
    <3>1. current[c] # 0 => current[c] \in Socks
      BY BridgeAssumption DEF BridgeTypeOK, Socks
    <3> QED BY <3>1, DestroyedSockets
  <2>5. /\ Destroyed({c}) \in [Socks -> Socket]
        /\ \A k \in Socks : Loses(Destroyed({c}), k)
    BY DestroyedSockets
  <2> HIDE DEF E
  <2> QED BY <2>1, <2>2, <2>3, <2>4, <2>5, FinishEndRow
<1>7. ASSUME NEW req \in Request, Sync(c, req) PROVE Rows
  <2>1. /\ Acquire(c, BindingOf(req), "transferring")
        /\ MayStart(c) /\ SocketReady(c) /\ StartRunner(c, "config")
    BY <1>7 DEF Sync, BeginLive
  <2>2. BindingOf(req) \in Binding \cup UserList /\ "transferring" \in LockStates
    BY DEF BindingOf, Binding, Request, LockStates
  <2>3. active' \in Lock /\ active'.owner = c /\ active'.age = 0
    BY <2>1, <2>2, AcquireTyped
  <2>4. Held' /\ CanAcquire /\ emergencyStopped' = Expired
    BY <2>1, <2>3, NullAssumption DEF Held, Acquire
  <2> QED BY <2>1, <2>3, <2>4, StartRows
<1>8. ASSUME NEW users \in UserList, SendUserProfiles(c, users) PROVE Rows
  <2>1. /\ Acquire(c, users, "sending-user-profiles")
        /\ MayStart(c) /\ SocketReady(c) /\ StartRunner(c, "profiles")
    BY <1>8 DEF SendUserProfiles, BeginLiveUserProfiles
  <2>2. users \in Binding \cup UserList /\ "sending-user-profiles" \in LockStates
    BY DEF LockStates
  <2>3. active' \in Lock /\ active'.owner = c /\ active'.age = 0
    BY <2>1, <2>2, AcquireTyped
  <2>4. Held' /\ CanAcquire /\ emergencyStopped' = Expired
    BY <2>1, <2>3, NullAssumption DEF Held, Acquire
  <2> QED BY <2>1, <2>3, <2>4, StartRows
<1> QED BY <1>2, <1>3, <1>4, <1>5, <1>6, <1>7, <1>8

\* The events of the controller sockets.
LEMMA SocketRows ==
    ASSUME BridgeTypeOK, BridgeTypeOK', Entered, NEW k \in Socks,
           SocketOpens(k) \/ SocketFails(k) \/ SocketCloses(k) \/ CompareEnds(k)
    PROVE  Rows
<1>1. ASSUME UNCHANGED send PROVE \A s \in Sends : SendKept(s)
  BY <1>1, SendUnchanged
<1>2. CASE SocketOpens(k)
  <2>1. ASSUME NEW s \in Sends PROVE SendKept(s)
    <3>1. CASE send'[s] = send[s]
      BY <3>1, SendUnchanged
    <3>2. CASE send'[s] # send[s]
      <4>1. s = sock[k].xfer /\ send' = [send EXCEPT ![s].linked = TRUE]
        BY <1>2, <3>2 DEF SocketOpens, BridgeTypeOK
      <4>2. Running(s) /\ s # 0
        BY <4>1, BridgeAssumption DEF Entered, SocketFits, RunsAs, Sends
      <4>3. send[s] \in Send
        BY <4>2, RunningTyped
      <4>4. send'[s] = [send[s] EXCEPT !.linked = TRUE]
        BY <4>1 DEF BridgeTypeOK
      <4>5. [send[s] EXCEPT !.linked = TRUE] \in Send
        BY <4>3 DEF Send
      <4> QED BY <4>2, <4>3, <4>4, <4>5, SendMarked DEF Send
    <3> QED BY <3>1, <3>2
  <2>2. \A j \in Socks : /\ sock'[j].xfer = sock[j].xfer
                         /\ sock'[j].prof = sock[j].prof
                         /\ j # k => sock'[j].phase = sock[j].phase
    BY <1>2 DEF SocketOpens, BridgeTypeOK, Socket
  <2>3. sock'[k].phase = "up"
    BY <1>2 DEF SocketOpens, BridgeTypeOK, Socket
  <2>4. UpRow(k)
    BY <1>2, <2>1, <2>2, <2>3 DEF SocketOpens, UpRow
  <2> QED BY <2>4 DEF Rows
<1>3. CASE SocketFails(k)
  <2>1. \A j \in Socks : Loses(sock', j)
    BY <1>3 DEF SocketFails, BridgeTypeOK, Socket, Loses
  <2> QED BY <1>1, <1>3, <2>1, QuietRow, LockUnchanged DEF SocketFails, safetyVars
<1>4. CASE SocketCloses(k)
  <2> DEFINE s == sock[k].xfer
             fails == s # 0 /\ send[s].stage = "writing"
             waits == s # 0 /\ send[s].stage # "writing"
             E == ({sock[k].prof} \cup (IF fails THEN {s} ELSE {})) \ {0}
             C == IF fails THEN {send[s].client} ELSE {}
             S == [Destroyed(C) EXCEPT ![k] = ClosedSocket]
             T == IF waits
                  THEN [send EXCEPT ![s].linked = FALSE, ![s].timer = TRUE]
                  ELSE send
  <2>1. /\ sock[k].phase = "closing"
        /\ FinishOver(E, S, T)
        /\ current' = [c \in Owner |-> IF current[c] = k THEN 0 ELSE current[c]]
        /\ UNCHANGED open
    BY <1>4 DEF SocketCloses, ClosesFatally
  <2>2. E \in SUBSET Sends /\ \A e \in E : Running(e)
    BY NamesTyped DEF Entered, SocketFits, RunsAs
  <2>3. /\ sock[k].prof # 0 => sock[k].prof \in E
        /\ sock[k].xfer # 0 /\ send[sock[k].xfer].stage = "writing" =>
              sock[k].xfer \in E
    OBVIOUS
  <2>4. /\ S \in [Socks -> Socket] /\ S[k] = ClosedSocket
        /\ \A j \in Socks \ {k} : Loses(S, j)
    <3>1. /\ Destroyed(C) \in [Socks -> Socket]
          /\ \A j \in Socks : Loses(Destroyed(C), j)
      BY DestroyedSockets
    <3>2. ClosedSocket \in Socket
      BY FreshSocket, BridgeAssumption
    <3> HIDE DEF C
    <3> QED BY <3>1, <3>2 DEF Loses
  <2>5. \A j \in Sends : T[j] # send[j] => Running(j) /\ send[j].kind = "config"
    BY DEF Entered, SocketFits, RunsAs, BridgeTypeOK
  <2>6. \A j \in Sends :
          T[j] # send[j] =>
            T[j] = [send[j] EXCEPT !.linked = FALSE, !.timer = TRUE]
    BY DEF BridgeTypeOK
  <2> HIDE DEF E, S, T
  <2>7. Finished(E, S, T)
    BY <2>1, <2>2, <2>4, FinishFields
  <2>8. ASSUME NEW j \in Sends \ E PROVE SendKept(j)
    <3>1. send'[j] = T[j]
      BY <2>7 DEF Finished
    <3>2. CASE T[j] # send[j]
      <4>1. send[j] \in Send /\ Running(j) /\ send[j].kind = "config"
        BY <2>5, <3>2, RunningTyped
      <4>2. send'[j] = [send[j] EXCEPT !.linked = FALSE, !.timer = TRUE]
        BY <2>6, <3>1, <3>2
      <4>3. /\ send'[j].kind = send[j].kind /\ send'[j].client = send[j].client
            /\ send'[j].stage = send[j].stage /\ send'[j] \in Send
        BY <4>1, <4>2 DEF Send
      <4> QED BY <4>1, <4>3, SendMarked
    <3> QED BY <3>1, <3>2, SendUnchanged
  <2>9. EndRow(E, {k}, {})
    <3>1. \A c \in Owner :
            current'[c] = IF c \in {} \/ current[c] \in {k} THEN 0 ELSE current[c]
      BY <2>1
    <3>2. \A j \in {k} :
            /\ sock'[j].phase = "closed" /\ sock'[j].xfer = 0 /\ sock'[j].prof = 0
      BY <2>4, <2>7, FreshSocket, BridgeAssumption DEF Finished
    <3>3. \A j \in Socks \ {k} :
            /\ sock'[j].xfer = IF sock[j].xfer \in E THEN 0 ELSE sock[j].xfer
            /\ sock'[j].prof = IF sock[j].prof \in E THEN 0 ELSE sock[j].prof
            /\ \/ sock'[j].phase = sock[j].phase
               \/ Live(j) /\ sock'[j].phase = "closing"
      BY <2>4, <2>7 DEF Finished, Loses
    <3>4. \A j \in {k} :
            /\ sock[j].phase = "closing"
            /\ sock[j].prof # 0 => sock[j].prof \in E
            /\ sock[j].xfer # 0 /\ send[sock[j].xfer].stage = "writing" =>
                  sock[j].xfer \in E
      BY <2>1, <2>3
    <3> QED BY <2>1, <2>2, <2>7, <2>8, <3>1, <3>2, <3>3, <3>4
            DEF EndRow, Finished
  <2>10. {k} \in SUBSET Socks /\ {} \in SUBSET Owner
    OBVIOUS
  <2> QED BY <2>2, <2>9, <2>10 DEF Rows
<1>5. CASE CompareEnds(k)
  <2>1. \A j \in Socks : Loses(sock', j) \/ ( /\ sock'[j].xfer = sock[j].xfer
                         /\ sock'[j].prof = sock[j].prof
                         /\ sock'[j].phase = sock[j].phase)
    BY <1>5 DEF CompareEnds, BridgeTypeOK, Socket
  <2>2. active' = active
    BY <1>5 DEF CompareEnds, RecordComparison, safetyVars
  <2>3. {} \in SUBSET Sends /\ {} \in SUBSET Socks /\ {} \in SUBSET Owner
    OBVIOUS
  <2>4. EndRow({}, {}, {})
    BY <1>1, <1>5, <2>1, <2>2, LockUnchanged DEF CompareEnds, EndRow, Loses
  <2> QED BY <2>3, <2>4 DEF Rows
<1> QED BY <1>2, <1>3, <1>4, <1>5

\* The runners' timers.
LEMMA TimerRows ==
    ASSUME BridgeTypeOK, BridgeTypeOK', Entered, NEW s \in Sends,
           WritesLast(s) \/ SendEnds(s) \/ Redial(s)
    PROVE  Rows
<1>1. Running(s) /\ send[s] \in Send /\ send[s].client \in Owner
  BY RunningTyped DEF WritesLast, SendEnds, Redial
<1>2. CASE WritesLast(s)
  <2>1. PICK stage \in {"resetWait", "listening"} :
          send' = [send EXCEPT ![s].stage = stage]
    BY <1>2 DEF WritesLast
  <2>2. send'[s] = [send[s] EXCEPT !.stage = stage]
    BY <2>1 DEF BridgeTypeOK
  <2>3. /\ send'[s].kind = send[s].kind /\ send'[s].client = send[s].client
        /\ send'[s].stage # "writing" /\ send'[s].timer = send[s].timer
        /\ send'[s] \in Send
    BY <1>1, <2>2 DEF Send
  <2>4. SendKept(s)
    BY <1>1, <2>3, SendMarked
  <2>5. \A t \in Sends : t # s => send'[t] = send[t]
    BY <2>1 DEF BridgeTypeOK
  <2>6. \A t \in Sends : SendKept(t)
    BY <2>4, <2>5, SendUnchanged
  <2> QED BY <1>2, <2>6, QuietRow, LockUnchanged, SocketUnchanged
          DEF WritesLast, safetyVars
<1>3. CASE SendEnds(s)
  <2>1. PICK S \in {sock, Destroyed({send[s].client})} :
          FinishOver({s}, S, send)
    BY <1>3 DEF SendEnds, Fails, Finish
  <2>2. S \in [Socks -> Socket] /\ \A k \in Socks : Loses(S, k)
    <3>1. CASE S = sock
      BY <3>1 DEF BridgeTypeOK, Loses
    <3>2. CASE S = Destroyed({send[s].client})
      BY <3>2, DestroyedSockets
    <3> QED BY <3>1, <3>2
  <2>3. {s} \in SUBSET Sends /\ {} \in SUBSET Owner
        /\ \A e \in {s} : Running(e)
    BY <1>1
  <2>4. UNCHANGED <<open, current>>
    BY <1>3 DEF SendEnds
  <2> QED BY <2>1, <2>2, <2>3, <2>4, FinishEndRow
<1>4. CASE Redial(s)
  <2>1. send' = [send EXCEPT ![s].timer = FALSE] /\ send[s].timer
    BY <1>4 DEF Redial
  <2>2. send'[s] = [send[s] EXCEPT !.timer = FALSE]
    BY <2>1 DEF BridgeTypeOK
  <2>3. /\ send'[s].kind = send[s].kind /\ send'[s].client = send[s].client
        /\ send'[s].stage = send[s].stage /\ ~send'[s].timer
        /\ send'[s] \in Send
    BY <1>1, <2>2 DEF Send
  <2>4. SendKept(s)
    BY <1>1, <2>3, SendMarked
  <2>5. \A t \in Sends : t # s => send'[t] = send[t]
    BY <2>1 DEF BridgeTypeOK
  <2>6. \A t \in Sends : SendKept(t)
    BY <2>4, <2>5, SendUnchanged
  <2>7. RunsFor(s, "config", send[s].client) /\ s # 0
    BY <1>1, <2>1, RunningTyped DEF Entered, MapsFit, RunsFor, RunsAs
  <2>8. CASE UNCHANGED <<current, sock>>
    BY <1>4, <2>6, <2>8, QuietRow, LockUnchanged, SocketUnchanged
       DEF Redial, safetyVars
  <2>9. CASE Dial(send[s].client, s)
    BY <1>1, <1>4, <2>6, <2>7, <2>9, DialRows DEF Redial
  <2> QED BY <1>4, <2>8, <2>9 DEF Redial
<1> QED BY <1>2, <1>3, <1>4

\* No callback does anything else.
LEMMA RowCases ==
    ASSUME BridgeTypeOK, Entered, Used, [BridgeNext]_allVars
    PROVE  Rows
<1>1. BridgeTypeOK'
  BY BridgeTypeStep
<1>2. CASE UNCHANGED allVars
  BY <1>2, StillRows, LockUnchanged DEF allVars, safetyVars
<1> QED
  BY <1>1, <1>2, SafetyOnlyRows, MessageRows, SocketRows, TimerRows, TimeRows
     DEF BridgeNext

-----------------------------------------------------------------------------
(* The lock has a send, whatever the browsers do *)

\* A send that ends leaves the maps and the sockets.
LEMMA EnteredStep ==
    ASSUME BridgeTypeOK, BridgeTypeOK', Entered, Rows PROVE Entered'
<1> DEFINE Goes(s) == /\ Running(s)' /\ send'[s].kind = send[s].kind
                      /\ send'[s].client = send[s].client
<1>1. ASSUME NEW E \in SUBSET Sends, NEW K \in SUBSET Socks,
             NEW D \in SUBSET Owner, EndRow(E, K, D)
      PROVE  Entered'
  <2>1. \A s \in Sends : s \notin E /\ Running(s) => Goes(s)
    BY <1>1 DEF EndRow, SendKept
  <2> HIDE DEF Goes
  <2>2. ASSUME NEW c \in Owner PROVE MapsFit(c)'
    <3>1. ASSUME xferOf'[c] # 0 PROVE RunsFor(xferOf[c], "config", c)'
      <4>1. xferOf'[c] = xferOf[c] /\ ~(\E s \in E : RunsFor(s, "config", c))
        BY <1>1, <3>1 DEF EndRow
      <4>2. RunsFor(xferOf[c], "config", c) /\ xferOf[c] \in Sends
        BY <3>1, <4>1, NamesTyped DEF Entered, MapsFit
      <4>3. Goes(xferOf[c])
        BY <2>1, <4>1, <4>2 DEF RunsFor, RunsAs
      <4> QED BY <4>1, <4>2, <4>3 DEF RunsFor, RunsAs, Goes, Running
    <3>2. ASSUME profOf'[c] # 0 PROVE RunsFor(profOf[c], "profiles", c)'
      <4>1. profOf'[c] = profOf[c] /\ ~(\E s \in E : RunsFor(s, "profiles", c))
        BY <1>1, <3>2 DEF EndRow
      <4>2. RunsFor(profOf[c], "profiles", c) /\ profOf[c] \in Sends
        BY <3>2, <4>1, NamesTyped DEF Entered, MapsFit
      <4>3. Goes(profOf[c])
        BY <2>1, <4>1, <4>2 DEF RunsFor, RunsAs
      <4> QED BY <4>1, <4>2, <4>3 DEF RunsFor, RunsAs, Goes, Running
    <3> QED BY <3>1, <3>2 DEF MapsFit
  <2>3. ASSUME NEW k \in Socks PROVE SocketFits(k)'
    <3>1. ASSUME sock'[k].xfer # 0
          PROVE  RunsAs(sock[k].xfer, "config")'
      <4>1. sock'[k].xfer = sock[k].xfer /\ sock[k].xfer \notin E
        BY <1>1, <3>1 DEF EndRow
      <4>2. RunsAs(sock[k].xfer, "config") /\ sock[k].xfer \in Sends
        BY <3>1, <4>1, NamesTyped DEF Entered, SocketFits
      <4>3. Goes(sock[k].xfer)
        BY <2>1, <4>1, <4>2 DEF RunsAs
      <4> QED BY <4>1, <4>2, <4>3 DEF RunsAs, Goes, Running
    <3>2. ASSUME sock'[k].prof # 0
          PROVE  RunsAs(sock[k].prof, "profiles")'
      <4>1. sock'[k].prof = sock[k].prof /\ sock[k].prof \notin E
        BY <1>1, <3>2 DEF EndRow
      <4>2. RunsAs(sock[k].prof, "profiles") /\ sock[k].prof \in Sends
        BY <3>2, <4>1, NamesTyped DEF Entered, SocketFits
      <4>3. Goes(sock[k].prof)
        BY <2>1, <4>1, <4>2 DEF RunsAs
      <4> QED BY <4>1, <4>2, <4>3 DEF RunsAs, Goes, Running
    <3> QED BY <3>1, <3>2 DEF SocketFits
  <2>4. ASSUME NEW s \in Sends, Running(s)', send'[s].timer
        PROVE  send'[s].kind = "config"
    <3>1. s \notin E /\ SendKept(s)
      BY <1>1, <2>4 DEF EndRow
    <3> QED BY <2>4, <3>1 DEF SendKept, Entered
  <2> QED BY <2>2, <2>3, <2>4 DEF Entered
<1>2. ASSUME \A s \in Sends : SendKept(s), UNCHANGED <<xferOf, profOf>>,
             NEW k \in Socks, NEW r \in Sends \cup {0},
             sock'[k].xfer = r, sock'[k].prof \in {0, sock[k].prof},
             \A j \in Socks : j # k => /\ sock'[j].xfer = sock[j].xfer
                                       /\ sock'[j].prof = sock[j].prof,
             r # 0 => RunsAs(r, "config")
      PROVE  Entered'
  <2>1. \A s \in Sends : Running(s) => Goes(s)
    BY <1>2 DEF SendKept
  <2>2. ASSUME NEW c \in Owner PROVE MapsFit(c)'
    BY <1>2, <2>1, NamesTyped DEF Entered, MapsFit, RunsFor, RunsAs, Running
  <2>3. ASSUME NEW j \in Socks PROVE SocketFits(j)'
    <3>1. /\ sock'[j].xfer # 0 => /\ sock'[j].xfer \in Sends
                                  /\ RunsAs(sock'[j].xfer, "config")
          /\ sock'[j].prof # 0 => /\ sock'[j].prof \in Sends
                                  /\ RunsAs(sock'[j].prof, "profiles")
      BY <1>2, NamesTyped DEF Entered, SocketFits
    <3> QED BY <2>1, <3>1 DEF SocketFits, RunsAs, Running
  <2>4. \A s \in Sends : Running(s)' /\ send'[s].timer => send'[s].kind = "config"
    BY <1>2 DEF Entered, SendKept
  <2> QED BY <2>2, <2>3, <2>4 DEF Entered
<1>3. ASSUME NEW k \in Socks, UpRow(k) PROVE Entered'
  <2>1. sock[k].xfer \in Sends \cup {0}
    BY NamesTyped
  <2>2. sock[k].xfer # 0 => RunsAs(sock[k].xfer, "config")
    BY DEF Entered, SocketFits
  <2> QED BY <1>2, <1>3, <2>1, <2>2 DEF UpRow
<1>4. ASSUME NEW c \in Owner, NEW k \in Socks, NEW r \in Sends \cup {0},
             DialRow(c, k, r)
      PROVE  Entered'
  BY <1>2, <1>4 DEF DialRow, RunsFor, RunsAs
<1>5. ASSUME NEW c \in Owner, NEW s \in Sends,
             NEW kind \in {"config", "profiles"}, NEW k \in Socks,
             StartRow(c, s, kind, k)
      PROVE  Entered'
  <2>1. Running(s)' /\ ~Running(s) /\ send'[s].kind = kind /\ send'[s].client = c
        /\ ~send'[s].timer /\ \A t \in Sends : t # s => send'[t] = send[t]
    BY <1>5, SendIsRun DEF StartRow, Running
  <2>2. \A t \in Sends : Running(t) => Goes(t)
    BY <2>1 DEF Running
  <2>3. ASSUME NEW d \in Owner PROVE MapsFit(d)'
    <3>1. xferOf'[d] = xferOf[d] \/ (xferOf'[d] = s /\ d = c /\ kind = "config")
      BY <1>5 DEF StartRow
    <3>2. profOf'[d] = profOf[d] \/ (profOf'[d] = s /\ d = c /\ kind = "profiles")
      BY <1>5 DEF StartRow
    <3>3. xferOf'[d] # 0 => RunsFor(xferOf[d], "config", d)'
      BY <2>1, <2>2, <3>1, NamesTyped DEF Entered, MapsFit, RunsFor, RunsAs, Running
    <3>4. profOf'[d] # 0 => RunsFor(profOf[d], "profiles", d)'
      BY <2>1, <2>2, <3>2, NamesTyped DEF Entered, MapsFit, RunsFor, RunsAs, Running
    <3> QED BY <3>3, <3>4 DEF MapsFit
  <2>4. ASSUME NEW j \in Socks PROVE SocketFits(j)'
    <3>1. sock'[j].xfer = sock[j].xfer \/ (sock'[j].xfer = s /\ kind = "config")
      BY <1>5 DEF StartRow
    <3>2. sock'[j].prof = sock[j].prof \/ (sock'[j].prof = s /\ kind = "profiles")
      BY <1>5 DEF StartRow
    <3>3. sock'[j].xfer # 0 => RunsAs(sock[j].xfer, "config")'
      BY <2>1, <2>2, <3>1, NamesTyped DEF Entered, SocketFits, RunsAs, Running
    <3>4. sock'[j].prof # 0 => RunsAs(sock[j].prof, "profiles")'
      BY <2>1, <2>2, <3>2, NamesTyped DEF Entered, SocketFits, RunsAs, Running
    <3> QED BY <3>3, <3>4 DEF SocketFits
  <2>5. \A t \in Sends : Running(t)' /\ send'[t].timer => send'[t].kind = "config"
    BY <2>1 DEF Entered, Running
  <2> QED BY <2>3, <2>4, <2>5 DEF Entered
<1> QED BY <1>1, <1>3, <1>4, <1>5 DEF Rows

\* A socket that is no longer used is destroyed.
LEMMA UsedStep ==
    ASSUME BridgeTypeOK, BridgeTypeOK', Used, Rows PROVE Used'
<1>1. ASSUME NEW E \in SUBSET Sends, NEW K \in SUBSET Socks,
             NEW D \in SUBSET Owner, EndRow(E, K, D), NEW k \in Socks, Live(k)'
      PROVE  \E c \in Owner : current'[c] = k
  <2>1. k \notin K /\ Live(k)
    BY <1>1 DEF EndRow, Live
  <2>2. PICK c \in Owner : current[c] = k
    BY <2>1 DEF Used
  <2>3. c \notin D
    BY <1>1, <2>2, BridgeAssumption DEF EndRow, Live, Alive, Socks
  <2> QED BY <1>1, <2>1, <2>2, <2>3 DEF EndRow
<1>2. ASSUME NEW k \in Socks, UpRow(k) PROVE Used'
  BY <1>2 DEF UpRow, Used, Live
<1>3. ASSUME NEW c \in Owner, NEW k \in Socks, NEW r \in Sends \cup {0},
             DialRow(c, k, r), NEW j \in Socks, Live(j)'
      PROVE  \E d \in Owner : current'[d] = j
  <2>1. CASE j = k
    BY <1>3, <2>1 DEF DialRow, BridgeTypeOK
  <2>2. CASE j # k
    <3>1. Live(j) /\ current[c] # j
      BY <1>3, <2>2 DEF DialRow, Live
    <3>2. PICK d \in Owner : current[d] = j
      BY <3>1 DEF Used
    <3> QED BY <1>3, <3>1, <3>2 DEF DialRow, BridgeTypeOK
  <2> QED BY <2>1, <2>2
<1>4. ASSUME NEW c \in Owner, NEW s \in Sends,
             NEW kind \in {"config", "profiles"}, NEW k \in Socks,
             StartRow(c, s, kind, k)
      PROVE  Used'
  BY <1>4 DEF StartRow, Used, Live
<1> QED BY <1>1, <1>2, <1>3, <1>4 DEF Rows, Used

\* Every way out of a send gives back the lock of its browser.
LEMMA LockHasSendStep ==
    ASSUME BridgeTypeOK, BridgeTypeOK', Entered, LockHasSend, Rows
    PROVE  LockHasSend'
<1>1. ASSUME NEW E \in SUBSET Sends, NEW K \in SUBSET Socks,
             NEW D \in SUBSET Owner, EndRow(E, K, D), Held'
      PROVE  RunningOf(active.owner)' # {}
  <2>1. /\ Held /\ active'.owner = active.owner
        /\ \A s \in E : active.owner # send[s].client
    BY <1>1 DEF EndRow, LockKept, LockGone
  <2>2. PICK s \in Sends : Running(s) /\ send[s].client = active.owner
    BY <2>1 DEF LockHasSend, RunningOf
  <2>3. s \notin E /\ SendKept(s)
    BY <1>1, <2>1, <2>2 DEF EndRow
  <2>4. Running(s)' /\ send'[s].client = active'.owner
    BY <2>1, <2>2, <2>3 DEF SendKept
  <2> QED BY <2>4 DEF RunningOf
<1>2. ASSUME \A s \in Sends : SendKept(s), UNCHANGED safetyVars, Held'
      PROVE  RunningOf(active.owner)' # {}
  <2>1. Held /\ active' = active
    BY <1>2 DEF Held, safetyVars
  <2>2. PICK s \in Sends : Running(s) /\ send[s].client = active.owner
    BY <2>1 DEF LockHasSend, RunningOf
  <2>3. Running(s)' /\ send'[s].client = active'.owner
    BY <1>2, <2>1, <2>2 DEF SendKept
  <2> QED BY <2>3 DEF RunningOf
<1>3. ASSUME NEW k \in Socks, UpRow(k) PROVE LockHasSend'
  BY <1>2, <1>3 DEF UpRow, LockHasSend
<1>4. ASSUME NEW c \in Owner, NEW k \in Socks, NEW r \in Sends \cup {0},
             DialRow(c, k, r)
      PROVE  LockHasSend'
  BY <1>2, <1>4 DEF DialRow, LockHasSend
<1>5. ASSUME NEW c \in Owner, NEW s \in Sends,
             NEW kind \in {"config", "profiles"}, NEW k \in Socks,
             StartRow(c, s, kind, k)
      PROVE  LockHasSend'
  <2>1. Running(s)' /\ send'[s].client = active'.owner
    BY <1>5, SendIsRun DEF StartRow, Running
  <2> QED BY <2>1 DEF LockHasSend, RunningOf
<1> QED BY <1>1, <1>3, <1>4, <1>5 DEF Rows, LockHasSend

BridgeInv == BridgeTypeOK /\ Entered /\ Used /\ LockHasSend

LEMMA BridgeInvInit == BridgeInit => BridgeInv
<1> SUFFICES ASSUME BridgeInit PROVE BridgeInv
  OBVIOUS
<1>1. 0 \in 0..SendCount /\ 0 \in 0..SockCount
  BY BridgeAssumption
<1>2. ClosedSocket \in Socket /\ ClosedSocket.phase = "closed"
      /\ ClosedSocket.xfer = 0 /\ ClosedSocket.prof = 0
  BY <1>1, FreshSocket
<1>3. TypeOK /\ ~Held
  BY DEF BridgeInit, SafetyInit, TypeOK, Held
<1>4. BridgeTypeOK
  BY <1>1, <1>2, <1>3 DEF BridgeInit, BridgeTypeOK
<1>5. Entered /\ Used
  BY <1>2 DEF BridgeInit, Entered, MapsFit, SocketFits, Used, Running, Live
<1> QED BY <1>3, <1>4, <1>5 DEF BridgeInv, LockHasSend

LEMMA BridgeInvStep ==
    ASSUME BridgeInv, [BridgeNext]_allVars PROVE BridgeInv'
<1>1. BridgeTypeOK' /\ Rows
  BY BridgeTypeStep, RowCases DEF BridgeInv
<1> QED
  BY <1>1, EnteredStep, UsedStep, LockHasSendStep DEF BridgeInv

\* Whatever the browsers send, and however sends, sockets and timers
\* interleave: a held lock is the lock of a send that is running
\* (bridge/server.mjs, the result callbacks and the catch of every message).
THEOREM BridgeLockHasSend == BridgeSpec => []LockHasSend
<1>1. BridgeInv => LockHasSend
  BY DEF BridgeInv
<1> QED BY <1>1, BridgeInvInit, BridgeInvStep, PTL DEF BridgeSpec

\* The bridge calls the coordinator only in ways its specification allows, so
\* everything proved of the coordinator holds in the bridge.
THEOREM BridgeKeepsSafety == BridgeSpec => KeepsSafety
<1>1. BridgeInit => SafetyInit
  BY DEF BridgeInit
<1>2. BridgeInv /\ [BridgeNext]_allVars => [SafetyNext]_safetyVars
  BY SafetyStep DEF BridgeInv
<1> QED
  BY <1>1, <1>2, BridgeInvInit, BridgeInvStep, PTL
     DEF BridgeSpec, KeepsSafety, SafetySpec

\* In the bridge, too, every configuration that holds the lock is one its
\* browser dry-ran, whichever callbacks came between (bridge/server.mjs, sync).
THEOREM BridgeQualifiedTransfer == BridgeSpec => []QualifiedTransfer
BY BridgeKeepsSafety, SafetyQualifiedTransfer, PTL DEF KeepsSafety

-----------------------------------------------------------------------------
(* Browsers that start one send at a time *)

\* A browser has one send, ...
Alone ==
    \A s, t \in Sends :
        Running(s) /\ Running(t) /\ send[s].client = send[t].client => s = t

\* ... is there as long as it runs, and its map has it.
Known ==
    \A s \in Sends : Running(s) =>
        /\ send[s].client \in open
        /\ send[s].kind = "config" => xferOf[send[s].client] = s
        /\ send[s].kind = "profiles" => profOf[send[s].client] = s

\* A socket is used by one browser, which has not left, and the sends on a
\* socket that is alive are sends of that browser.
UsedOpen ==
    \A c \in Owner :
        current[c] # 0 => c \in open /\ sock[current[c]].phase # "closed"

UsedOnce ==
    \A c, d \in Owner : current[c] # 0 /\ current[c] = current[d] => c = d

UsedBySend(k) ==
    /\ sock[k].xfer # 0 => current[send[sock[k].xfer].client] = k
    /\ sock[k].prof # 0 => current[send[sock[k].prof].client] = k

Wired == UsedOpen /\ UsedOnce /\ \A k \in Socks : Live(k) => UsedBySend(k)

\* A send that would be ended by the loss of its socket.
Depends(s) ==
    Running(s) /\ (send[s].stage = "writing" \/ send[s].kind = "profiles")

OnSocket(s, k) ==
    IF send[s].kind = "config" THEN sock[k].xfer = s ELSE sock[k].prof = s

\* Such a send is on the socket its browser uses, or on one whose close event
\* is about to end it.
Attached ==
    \A s \in Sends : Depends(s) =>
        \E k \in Socks :
            /\ OnSocket(s, k)
            /\ \/ sock[k].phase = "closing"
               \/ sock[k].phase = "up" /\ current[send[s].client] = k

\* User profiles, whose end gives back the lock whoever has it, have it
\* themselves; after an emergency stop nobody has, nor can anybody take it
\* before the close events are through.
ProfilesLocked ==
    \A s \in Sends : RunsAs(s, "profiles") =>
        \/ Held /\ active.owner = send[s].client /\ active.age = 0
        \/ ~Held /\ \A k \in Socks : sock[k].phase # "up"

\* A browser that waits for its send to end has that one only.
LEMMA KnownStep ==
    ASSUME Polite, BridgeTypeOK, BridgeTypeOK', Entered, Alone, Known, Rows
    PROVE  Alone' /\ Known'
<1>1. ASSUME NEW E \in SUBSET Sends, NEW K \in SUBSET Socks,
             NEW D \in SUBSET Owner, EndRow(E, K, D)
      PROVE  Alone' /\ Known'
  <2>1. ASSUME NEW s \in Sends, Running(s)'
        PROVE  /\ s \notin E /\ Running(s) /\ send'[s].kind = send[s].kind
               /\ send'[s].client = send[s].client
    BY <1>1, <2>1 DEF EndRow, SendKept
  <2>2. Alone'
    BY <2>1 DEF Alone
  <2>3. ASSUME NEW s \in Sends, Running(s)'
        PROVE  /\ send[s].client \in open'
               /\ send[s].kind = "config" => xferOf'[send[s].client] = s
               /\ send[s].kind = "profiles" => profOf'[send[s].client] = s
    <3>1. PICK c \in Owner : c = send[s].client
      BY <2>1, <2>3, RunningTyped
    <3>2. ~\E e \in E : send[e].client = c
      BY <1>1, <2>1, <2>3, <3>1 DEF EndRow, Alone
    <3>3. /\ xferOf'[c] = xferOf[c] /\ profOf'[c] = profOf[c]
      BY <1>1, <3>2 DEF EndRow, RunsFor
    <3>4. s \in {xferOf[c], profOf[c]} /\ s # 0
      BY <2>1, <2>3, <3>1, RunningTyped DEF Known
    <3>5. c \notin D
      BY <1>1, <2>1, <2>3, <3>4 DEF EndRow
    <3>6. c \in open'
      BY <1>1, <2>1, <2>3, <3>1, <3>5 DEF EndRow, Known
    <3> QED BY <2>1, <2>3, <3>1, <3>3, <3>6 DEF Known
  <2>4. Known'
    BY <2>1, <2>3 DEF Known
  <2> QED BY <2>2, <2>4
<1>2. ASSUME \A s \in Sends : SendKept(s), UNCHANGED <<open, xferOf, profOf>>
      PROVE  Alone' /\ Known'
  <2>1. \A s \in Sends : Running(s)' =>
          /\ Running(s) /\ send'[s].kind = send[s].kind
          /\ send'[s].client = send[s].client
    BY <1>2 DEF SendKept
  <2>2. Alone'
    BY <2>1 DEF Alone
  <2>3. Known'
    BY <1>2, <2>1 DEF Known
  <2> QED BY <2>2, <2>3
<1>3. ASSUME NEW k \in Socks, UpRow(k) PROVE Alone' /\ Known'
  BY <1>2, <1>3 DEF UpRow
<1>4. ASSUME NEW c \in Owner, NEW k \in Socks, NEW r \in Sends \cup {0},
             DialRow(c, k, r)
      PROVE  Alone' /\ Known'
  BY <1>2, <1>4 DEF DialRow
<1>5. ASSUME NEW c \in Owner, NEW s \in Sends,
             NEW kind \in {"config", "profiles"}, NEW k \in Socks,
             StartRow(c, s, kind, k)
      PROVE  Alone' /\ Known'
  <2>1. ASSUME NEW t \in Sends, Running(t)', t # s
        PROVE  /\ Running(t) /\ send'[t] = send[t] /\ send[t].client # c
               /\ send[t].client \in Owner
    <3>1. Running(t) /\ send'[t] = send[t]
      BY <1>5, <2>1 DEF StartRow, Running
    <3>2. send[t].client # c
      BY <1>5, <3>1 DEF StartRow, RunningOf
    <3> QED BY <3>1, <3>2, RunningTyped
  <2>2. send'[s].client = c /\ send'[s].kind = kind
    BY <1>5 DEF StartRow
  <2>3. Alone'
    BY <2>1, <2>2 DEF Alone
  <2>4. ASSUME NEW t \in Sends, Running(t)', t # s
        PROVE  /\ send'[t].client \in open'
               /\ send'[t].kind = "config" => xferOf'[send'[t].client] = t
               /\ send'[t].kind = "profiles" => profOf'[send'[t].client] = t
    BY <1>5, <2>1, <2>4 DEF StartRow, Known
  <2>5. /\ send'[s].client \in open'
        /\ send'[s].kind = "config" => xferOf'[send'[s].client] = s
        /\ send'[s].kind = "profiles" => profOf'[send'[s].client] = s
    BY <1>5, <2>2 DEF StartRow
  <2>6. Known'
    BY <2>4, <2>5 DEF Known
  <2> QED BY <2>3, <2>6
<1> QED BY <1>1, <1>3, <1>4, <1>5 DEF Rows

\* A socket is alive only under one browser, and under its sends.
LEMMA WiredStep ==
    ASSUME BridgeTypeOK, BridgeTypeOK', Entered, Known, Wired, Rows
    PROVE  Wired'
<1>0. \A c \in Owner : current[c] # 0 => current[c] \in Socks
  BY BridgeAssumption DEF BridgeTypeOK, Socks
<1>1. ASSUME NEW E \in SUBSET Sends, NEW K \in SUBSET Socks,
             NEW D \in SUBSET Owner, EndRow(E, K, D)
      PROVE  Wired'
  <2>1. ASSUME NEW c \in Owner, current'[c] # 0
        PROVE  c \notin D /\ current'[c] = current[c] /\ current[c] \notin K
    BY <1>1, <2>1 DEF EndRow
  <2>2. ASSUME NEW c \in Owner, current'[c] # 0
        PROVE  c \in open' /\ sock'[current'[c]].phase # "closed"
    <3>1. PICK k \in Socks : k = current[c] /\ k \notin K
      BY <1>0, <2>1, <2>2
    <3>2. c \in open /\ sock[k].phase # "closed"
      BY <2>1, <2>2, <3>1 DEF Wired, UsedOpen
    <3> QED BY <1>1, <2>1, <2>2, <3>1, <3>2 DEF EndRow
  <2>3. UsedOnce'
    BY <2>1 DEF Wired, UsedOnce
  <2>4. ASSUME NEW k \in Socks, Live(k)' PROVE UsedBySend(k)'
    <3>1. k \notin K /\ Live(k)
      BY <1>1, <2>4 DEF EndRow, Live
    <3>2. ASSUME NEW s \in Sends, Running(s), s \notin E,
                 current[send[s].client] = k
          PROVE  current'[send'[s].client] = k
      <4>1. PICK c \in Owner : c = send[s].client /\ send'[s].client = c
        BY <1>1, <3>2, RunningTyped DEF EndRow, SendKept
      <4>2. c \notin D
        BY <1>1, <2>4, <3>2, <4>1, BridgeAssumption DEF EndRow, Alive, Live, Socks
      <4> QED BY <1>1, <3>1, <3>2, <4>1, <4>2 DEF EndRow
    <3>3. ASSUME sock'[k].xfer # 0 PROVE current'[send'[sock'[k].xfer].client] = k
      <4>1. PICK s \in Sends : s = sock[k].xfer /\ s \notin E /\ sock'[k].xfer = s
        BY <1>1, <3>1, <3>3, NamesTyped DEF EndRow
      <4>2. Running(s) /\ current[send[s].client] = k
        BY <3>1, <4>1, <3>3 DEF Entered, SocketFits, RunsAs, Wired, UsedBySend
      <4> QED BY <3>2, <4>1, <4>2
    <3>4. ASSUME sock'[k].prof # 0 PROVE current'[send'[sock'[k].prof].client] = k
      <4>1. PICK s \in Sends : s = sock[k].prof /\ s \notin E /\ sock'[k].prof = s
        BY <1>1, <3>1, <3>4, NamesTyped DEF EndRow
      <4>2. Running(s) /\ current[send[s].client] = k
        BY <3>1, <4>1, <3>4 DEF Entered, SocketFits, RunsAs, Wired, UsedBySend
      <4> QED BY <3>2, <4>1, <4>2
    <3> QED BY <3>3, <3>4 DEF UsedBySend
  <2> QED BY <2>2, <2>3, <2>4 DEF Wired, UsedOpen
<1>2. ASSUME NEW k \in Socks, UpRow(k) PROVE Wired'
  <2>1. UsedOpen' /\ UsedOnce'
    BY <1>0, <1>2 DEF UpRow, Wired, UsedOpen, UsedOnce
  <2>2. ASSUME NEW j \in Socks, Live(j)' PROVE UsedBySend(j)'
    <3>1. Live(j)
      BY <1>2, <2>2 DEF UpRow, Live
    <3>2. /\ sock[j].xfer # 0 => sock[j].xfer \in Sends /\ Running(sock[j].xfer)
          /\ sock[j].prof # 0 => sock[j].prof \in Sends /\ Running(sock[j].prof)
      BY NamesTyped DEF Entered, SocketFits, RunsAs
    <3> QED BY <1>2, <3>1, <3>2 DEF UpRow, SendKept, Wired, UsedBySend
  <2> QED BY <2>1, <2>2 DEF Wired
<1>3. ASSUME NEW c \in Owner, NEW k \in Socks, NEW r \in Sends \cup {0},
             DialRow(c, k, r)
      PROVE  Wired'
  <2>1. /\ current'[c] = k
        /\ \A d \in Owner : d # c => current'[d] = current[d] /\ current[d] # k
    <3>1. k # 0 /\ sock[k].phase = "closed" /\ current' = [current EXCEPT ![c] = k]
      BY <1>3, BridgeAssumption DEF DialRow, Socks
    <3>2. \A d \in Owner : current[d] # k
      BY <3>1 DEF Wired, UsedOpen
    <3> QED BY <3>1, <3>2 DEF BridgeTypeOK
  <2>2. c \in open'
    BY <1>3 DEF DialRow, RunsFor, RunsAs, Known
  <2>3. \A j \in Socks :
          j # k /\ sock'[j].phase = "closed" => sock[j].phase = "closed"
    BY <1>3 DEF DialRow
  <2>4. UsedOpen'
    <3>1. ASSUME NEW d \in Owner, d # c, current[d] # 0
          PROVE  d \in open' /\ sock'[current[d]].phase # "closed"
      BY <1>0, <1>3, <2>1, <2>3, <3>1 DEF DialRow, Wired, UsedOpen
    <3> QED BY <1>3, <2>1, <2>2, <3>1 DEF DialRow, UsedOpen
  <2>5. UsedOnce'
    BY <2>1 DEF Wired, UsedOnce
  <2>6. ASSUME NEW j \in Socks, Live(j)' PROVE UsedBySend(j)'
    <3>1. CASE j = k
      BY <1>3, <2>1, <3>1 DEF DialRow, UsedBySend, RunsFor, RunsAs, SendKept
    <3>2. CASE j # k
      <4>1. Live(j) /\ current[c] # j
        BY <1>3, <2>6, <3>2 DEF DialRow, Live
      <4>2. /\ sock[j].xfer # 0 => sock[j].xfer \in Sends /\ Running(sock[j].xfer)
            /\ sock[j].prof # 0 => sock[j].prof \in Sends /\ Running(sock[j].prof)
        BY NamesTyped DEF Entered, SocketFits, RunsAs
      <4>3. ASSUME NEW s \in Sends, Running(s), current[send[s].client] = j
            PROVE  current'[send'[s].client] = j
        BY <1>3, <2>1, <4>1, <4>3, RunningTyped DEF DialRow, SendKept
      <4> QED BY <1>3, <3>2, <4>1, <4>2, <4>3 DEF DialRow, Wired, UsedBySend
    <3> QED BY <3>1, <3>2
  <2> QED BY <2>4, <2>5, <2>6 DEF Wired
<1>4. ASSUME NEW c \in Owner, NEW s \in Sends,
             NEW kind \in {"config", "profiles"}, NEW k \in Socks,
             StartRow(c, s, kind, k)
      PROVE  Wired'
  <2>1. UsedOpen' /\ UsedOnce'
    BY <1>0, <1>4 DEF StartRow, Wired, UsedOpen, UsedOnce
  <2>2. ASSUME NEW j \in Socks, Live(j)' PROVE UsedBySend(j)'
    <3>1. Live(j)
      BY <1>4, <2>2 DEF StartRow, Live
    <3>2. ASSUME NEW t, t \in Sends, Running(t), current[send[t].client] = j
          PROVE  current'[send'[t].client] = j
      BY <1>4, <3>2 DEF StartRow
    <3>3. /\ sock[j].xfer # 0 => sock[j].xfer \in Sends /\ Running(sock[j].xfer)
          /\ sock[j].prof # 0 => sock[j].prof \in Sends /\ Running(sock[j].prof)
      BY NamesTyped DEF Entered, SocketFits, RunsAs
    <3>4. /\ sock[j].xfer # 0 => current'[send'[sock[j].xfer].client] = j
          /\ sock[j].prof # 0 => current'[send'[sock[j].prof].client] = j
      BY <3>1, <3>2, <3>3 DEF Wired, UsedBySend
    <3>5. j = k => current'[send'[s].client] = j
      BY <1>4 DEF StartRow
    <3>6. /\ sock'[j].xfer = sock[j].xfer \/ (sock'[j].xfer = s /\ j = k)
          /\ sock'[j].prof = sock[j].prof \/ (sock'[j].prof = s /\ j = k)
      BY <1>4 DEF StartRow
    <3> QED BY <3>4, <3>5, <3>6 DEF UsedBySend
  <2> QED BY <2>1, <2>2 DEF Wired
<1> QED BY <1>1, <1>2, <1>3, <1>4 DEF Rows

\* A send keeps its socket, or a close event for it is on its way.
LEMMA AttachedStep ==
    ASSUME Polite, BridgeTypeOK, BridgeTypeOK', Entered, Known, Wired, Attached,
           Rows
    PROVE  Attached'
<1> DEFINE Holding(s, k) ==
             \/ sock[k].phase = "closing"
             \/ sock[k].phase = "up" /\ current[send[s].client] = k
<1>0. \A k \in Socks : k # 0
  BY BridgeAssumption DEF Socks
<1>1. ASSUME NEW E \in SUBSET Sends, NEW K \in SUBSET Socks,
             NEW D \in SUBSET Owner, EndRow(E, K, D),
             NEW s \in Sends, Depends(s)'
      PROVE  \E k \in Socks : OnSocket(s, k)' /\ Holding(s, k)'
  <2>1. /\ s \notin E /\ Running(s) /\ send'[s].kind = send[s].kind
        /\ send'[s].client = send[s].client
        /\ send'[s].stage = "writing" => send[s].stage = "writing"
    BY <1>1 DEF EndRow, SendKept, Depends
  <2>2. Depends(s)
    BY <1>1, <2>1 DEF Depends
  <2>3. PICK k \in Socks : OnSocket(s, k) /\ Holding(s, k)
    BY <2>2 DEF Attached
  <2>4. PICK c \in Owner : c = send[s].client
    BY <2>1, RunningTyped
  <2>5. c \notin D
    <3>1. s \in {xferOf[c], profOf[c]} \ {0}
      BY <2>1, <2>4, RunningTyped DEF Known
    <3> QED BY <1>1, <2>1, <3>1 DEF EndRow
  <2>6. k \notin K
    <3>1. s # 0
      BY <1>0, <2>1, RunningTyped
    <3>2. CASE send[s].kind = "config"
      BY <1>1, <2>1, <2>2, <2>3, <3>1, <3>2 DEF EndRow, OnSocket, Depends
    <3>3. CASE send[s].kind # "config"
      BY <1>1, <2>1, <2>2, <2>3, <3>1, <3>3 DEF EndRow, OnSocket, Depends
    <3> QED BY <3>2, <3>3
  <2>7. OnSocket(s, k)'
    BY <1>1, <2>1, <2>3, <2>6 DEF EndRow, OnSocket
  <2>8. Holding(s, k)'
    BY <1>0, <1>1, <2>1, <2>3, <2>4, <2>5, <2>6 DEF EndRow, Live
  <2> QED BY <2>7, <2>8
<1>2. ASSUME NEW k0 \in Socks, UpRow(k0), NEW s \in Sends, Depends(s)'
      PROVE  \E k \in Socks : OnSocket(s, k)' /\ Holding(s, k)'
  <2>1. /\ Running(s) /\ send'[s].kind = send[s].kind
        /\ send'[s].client = send[s].client /\ Depends(s)
    BY <1>2 DEF UpRow, SendKept, Depends
  <2>2. PICK k \in Socks : OnSocket(s, k) /\ Holding(s, k)
    BY <2>1 DEF Attached
  <2> QED BY <1>2, <2>1, <2>2 DEF UpRow, OnSocket
<1>3. ASSUME NEW c \in Owner, NEW k0 \in Socks, NEW r \in Sends \cup {0},
             DialRow(c, k0, r), NEW s \in Sends, Depends(s)'
      PROVE  \E k \in Socks : OnSocket(s, k)' /\ Holding(s, k)'
  <2>1. /\ Running(s) /\ send'[s].kind = send[s].kind
        /\ send'[s].client = send[s].client /\ Depends(s)
    BY <1>3 DEF DialRow, SendKept, Depends
  <2>2. PICK k \in Socks : OnSocket(s, k) /\ Holding(s, k)
    BY <2>1 DEF Attached
  <2>3. k # k0
    BY <1>3, <2>2 DEF DialRow
  <2>4. OnSocket(s, k)'
    BY <1>3, <2>1, <2>2, <2>3 DEF DialRow, OnSocket
  <2>5. Holding(s, k)'
    <3>1. PICK d \in Owner : d = send[s].client
      BY <2>1, RunningTyped
    <3>2. CASE d = c
      BY <1>3, <2>1, <2>2, <2>3, <3>1, <3>2 DEF DialRow, Live
    <3>3. CASE d # c
      <4>1. current'[d] = current[d]
        BY <1>3, <3>3 DEF DialRow, BridgeTypeOK
      <4> QED BY <1>3, <2>1, <2>2, <2>3, <3>1, <4>1 DEF DialRow
    <3> QED BY <3>2, <3>3
  <2> QED BY <2>4, <2>5
<1>4. ASSUME NEW c \in Owner, NEW s0 \in Sends,
             NEW kind \in {"config", "profiles"}, NEW k0 \in Socks,
             StartRow(c, s0, kind, k0), NEW s \in Sends, Depends(s)'
      PROVE  \E k \in Socks : OnSocket(s, k)' /\ Holding(s, k)'
  <2>1. CASE s = s0
    BY <1>4, <2>1 DEF StartRow, OnSocket
  <2>2. CASE s # s0
    <3>1. /\ send'[s] = send[s] /\ Depends(s) /\ Running(s)
      BY <1>4, <2>2 DEF StartRow, Depends, Running
    <3>2. PICK k \in Socks : OnSocket(s, k) /\ Holding(s, k)
      BY <3>1 DEF Attached
    <3>3. send[s].client # c /\ send[s].client \in Owner
      BY <1>4, <3>1, RunningTyped DEF StartRow, RunningOf
    <3>4. k # k0
      BY <1>0, <1>4, <3>2, <3>3 DEF StartRow, Wired, UsedOnce
    <3>5. OnSocket(s, k)'
      BY <1>4, <3>1, <3>2, <3>4 DEF StartRow, OnSocket
    <3> QED BY <1>4, <3>1, <3>2, <3>5 DEF StartRow
  <2> QED BY <2>1, <2>2
<1> QED BY <1>1, <1>2, <1>3, <1>4 DEF Rows, Attached

\* No time passes during a user-profile send, so its lock does not expire.
LEMMA ProfilesLockedStep ==
    ASSUME Polite, BridgeTypeOK, BridgeTypeOK', Entered, Alone, Attached,
           ProfilesLocked, Rows
    PROVE  ProfilesLocked'
<1> DEFINE Mine(s) == Held /\ active.owner = send[s].client /\ active.age = 0
           Nobody == ~Held /\ \A k \in Socks : sock[k].phase # "up"
<1>0. ASSUME NEW s \in Sends, Mine(s) PROVE ~Expired
  BY <1>0, AgeAssumption DEF Expired
<1>1. ASSUME NEW E \in SUBSET Sends, NEW K \in SUBSET Socks,
             NEW D \in SUBSET Owner, EndRow(E, K, D),
             NEW s \in Sends, RunsAs(s, "profiles")'
      PROVE  Mine(s)' \/ Nobody'
  <2>1. /\ s \notin E /\ RunsAs(s, "profiles")
        /\ send'[s].client = send[s].client
    BY <1>1 DEF EndRow, SendKept, RunsAs
  <2>2. \A k \in Socks : sock'[k].phase = "up" => sock[k].phase = "up"
    BY <1>1 DEF EndRow
  <2>3. CASE Nobody
    BY <1>1, <2>2, <2>3 DEF EndRow, LockKept, LockGone
  <2>4. CASE Mine(s)
    <3>1. CASE LockKept(E)
      BY <2>1, <2>4, <3>1 DEF LockKept, RunsAs
    <3>2. CASE LockGone(E)
      <4>1. RunningOf(active.owner) # {}
        BY <2>1, <2>4 DEF RunningOf, RunsAs
      <4>2. ASSUME NEW e \in E,
                   send[e].kind = "profiles" \/ active.owner = send[e].client
            PROVE  FALSE
        <5>1. Running(e) /\ e \in Sends
          BY <1>1 DEF EndRow
        <5>2. active.owner = send[e].client
          BY <2>4, <4>2, <5>1 DEF ProfilesLocked, RunsAs
        <5> QED BY <2>1, <2>4, <5>1, <5>2 DEF Alone, RunsAs
      <4>3. ~Held' /\ \A k \in Socks : sock'[k].phase # "up"
        BY <1>0, <2>4, <3>2, <4>1, <4>2 DEF LockGone
      <4> QED BY <4>3
    <3> QED BY <1>1, <3>1, <3>2 DEF EndRow
  <2> QED BY <2>1, <2>3, <2>4 DEF ProfilesLocked
<1>2. ASSUME NEW k0 \in Socks, UpRow(k0),
             NEW s \in Sends, RunsAs(s, "profiles")'
      PROVE  Mine(s)' \/ Nobody'
  <2>1. RunsAs(s, "profiles") /\ send'[s].client = send[s].client
        /\ active' = active
    BY <1>2 DEF UpRow, SendKept, RunsAs, safetyVars
  <2>2. ~Nobody
    <3>1. PICK k \in Socks : sock[k].phase \in {"closing", "up"}
      BY <2>1 DEF Attached, Depends, RunsAs
    <3> QED BY <1>2, <3>1 DEF UpRow, Settled
  <2>3. Mine(s)
    BY <2>1, <2>2 DEF ProfilesLocked
  <2> QED BY <2>1, <2>3 DEF Held
<1>3. ASSUME NEW c \in Owner, NEW k0 \in Socks, NEW r \in Sends \cup {0},
             DialRow(c, k0, r), NEW s \in Sends, RunsAs(s, "profiles")'
      PROVE  Mine(s)' \/ Nobody'
  <2>1. RunsAs(s, "profiles") /\ send'[s].client = send[s].client
        /\ active' = active
    BY <1>3 DEF DialRow, SendKept, RunsAs, safetyVars
  <2>2. \A k \in Socks : sock'[k].phase = "up" => sock[k].phase = "up"
    BY <1>3 DEF DialRow
  <2> QED BY <2>1, <2>2 DEF ProfilesLocked, Held
<1>4. ASSUME NEW c \in Owner, NEW s0 \in Sends,
             NEW kind \in {"config", "profiles"}, NEW k0 \in Socks,
             StartRow(c, s0, kind, k0), NEW s \in Sends, RunsAs(s, "profiles")'
      PROVE  Mine(s)' \/ Nobody'
  <2>1. CASE s = s0
    BY <1>4, <2>1 DEF StartRow
  <2>2. CASE s # s0
    <3>1. RunsAs(s, "profiles")
      BY <1>4, <2>2 DEF StartRow, RunsAs, Running
    <3>2. ~Nobody
      BY <1>4 DEF StartRow
    <3>3. ~Mine(s)
      BY <1>0, <1>4 DEF StartRow, CanAcquire
    <3> QED BY <3>1, <3>2, <3>3 DEF ProfilesLocked
  <2> QED BY <2>1, <2>2
<1> QED BY <1>1, <1>2, <1>3, <1>4 DEF Rows, ProfilesLocked

-----------------------------------------------------------------------------
(* What follows for them *)

PoliteInv ==
    BridgeInv /\ Alone /\ Known /\ Wired /\ Attached /\ ProfilesLocked

LEMMA PoliteInvInit == BridgeInit => PoliteInv
<1> SUFFICES ASSUME BridgeInit PROVE PoliteInv
  OBVIOUS
<1>1. \A s \in Sends : ~Running(s)
  BY DEF BridgeInit, Running
<1>2. Alone /\ Known /\ Attached /\ ProfilesLocked
  BY <1>1 DEF Alone, Known, Attached, Depends, ProfilesLocked, RunsAs
<1>3. 0 \in 0..SendCount
  BY BridgeAssumption
<1>4. Wired
  BY <1>3, FreshSocket
     DEF BridgeInit, Wired, UsedOpen, UsedOnce, Live
<1> QED BY <1>2, <1>4, BridgeInvInit DEF PoliteInv

LEMMA PoliteInvStep ==
    ASSUME Polite, PoliteInv, [BridgeNext]_allVars PROVE PoliteInv'
<1>1. BridgeInv' /\ BridgeTypeOK' /\ Rows
  BY BridgeInvStep, BridgeTypeStep, RowCases DEF PoliteInv, BridgeInv
<1> QED
  BY <1>1, KnownStep, WiredStep, AttachedStep, ProfilesLockedStep
     DEF PoliteInv, BridgeInv

\* Between two iterations of the event loop a send that still writes has the
\* controller socket its browser uses, and hears from it, however sockets are
\* lost, replaced and destroyed (bridge/server.mjs, the close handler and
\* connectController).
THEOREM BridgeSendOwnsSocket ==
    ASSUME Polite PROVE BridgeSpec => []SendOwnsSocket
<1>1. PoliteInv => SendOwnsSocket
  <2> SUFFICES ASSUME PoliteInv, Settled,
                      NEW s \in Sends, Running(s), send[s].stage = "writing"
               PROVE  LET k == current[send[s].client] IN
                      /\ k # 0 /\ sock[k].phase = "up"
                      /\ s \in {sock[k].xfer, sock[k].prof}
    BY DEF SendOwnsSocket
  <2>1. PICK k \in Socks :
          OnSocket(s, k) /\ sock[k].phase = "up" /\ current[send[s].client] = k
    BY DEF PoliteInv, Attached, Depends, Settled
  <2> QED BY <2>1, BridgeAssumption DEF OnSocket, Socks
<1> QED BY <1>1, PoliteInvInit, PoliteInvStep, PTL DEF BridgeSpec

\* A browser that has gone has no send, no controller socket and no lock
\* (bridge/server.mjs, the close event of a WebSocket).
THEOREM BridgeClosedBrowserHoldsNothing ==
    ASSUME Polite PROVE BridgeSpec => []ClosedBrowserHoldsNothing
<1>1. PoliteInv => ClosedBrowserHoldsNothing
  BY DEF PoliteInv, BridgeInv, LockHasSend, Known, Wired, UsedOpen, RunningOf,
         ClosedBrowserHoldsNothing
<1> QED BY <1>1, PoliteInvInit, PoliteInvStep, PTL DEF BridgeSpec

\* Each reason to let the lock go contradicts a send that runs under it.
LEMMA LockOutlivesStep ==
    ASSUME PoliteInv, PoliteInv', Rows, NEW s \in Sends,
           Running(s), Holds(s), Running(s)', ~emergencyStopped', Polite
    PROVE  Holds(s)'
<1>1. ASSUME NEW E \in SUBSET Sends, NEW K \in SUBSET Socks,
             NEW D \in SUBSET Owner, EndRow(E, K, D)
      PROVE  Holds(s)'
  <2>1. s \notin E /\ send'[s].client = send[s].client
    BY <1>1 DEF EndRow, SendKept
  <2>2. ~LockGone(E)
    <3>1. RunningOf(active.owner) # {}
      BY DEF RunningOf, Holds
    <3>2. ASSUME NEW e \in E,
                 send[e].kind = "profiles" \/ active.owner = send[e].client
          PROVE  FALSE
      <4>1. Running(e) /\ e \in Sends
        BY <1>1 DEF EndRow
      <4>2. active.owner = send[e].client
        BY <3>2, <4>1 DEF PoliteInv, ProfilesLocked, RunsAs, Holds
      <4> QED BY <2>1, <4>1, <4>2 DEF PoliteInv, Alone, Holds
    <3> QED BY <3>1, <3>2 DEF LockGone, Holds
  <2> QED BY <1>1, <2>1, <2>2 DEF EndRow, LockKept, Holds
<1>2. ASSUME NEW k \in Socks, UpRow(k) PROVE Holds(s)'
  BY <1>2 DEF UpRow, SendKept, Holds, Held, safetyVars
<1>3. ASSUME NEW c \in Owner, NEW k \in Socks, NEW r \in Sends \cup {0},
             DialRow(c, k, r)
      PROVE  Holds(s)'
  BY <1>3 DEF DialRow, SendKept, Holds, Held, safetyVars
<1>4. ASSUME NEW c \in Owner, NEW s0 \in Sends,
             NEW kind \in {"config", "profiles"}, NEW k \in Socks,
             StartRow(c, s0, kind, k)
      PROVE  FALSE
  BY <1>4 DEF StartRow, CanAcquire, Holds
<1> QED BY <1>1, <1>2, <1>3, <1>4 DEF Rows

\* As long as a send runs nobody else's message, timer or end takes the lock
\* from it; only the latched stop does (bridge/server.mjs, the result
\* callbacks; releases for user profiles do not look at the holder).
THEOREM BridgeLockOutlivesSend ==
    ASSUME Polite PROVE BridgeSpec => LockOutlivesSend
<1>1. PoliteInv /\ PoliteInv' /\ [BridgeNext]_allVars =>
        [ \A s \in Sends : Running(s) /\ Holds(s) /\ Running(s)' =>
              Holds(s)' \/ emergencyStopped' ]_allVars
  <2> SUFFICES ASSUME PoliteInv, PoliteInv', [BridgeNext]_allVars,
                      NEW s \in Sends, Running(s), Holds(s), Running(s)',
                      ~emergencyStopped'
               PROVE  Holds(s)'
    OBVIOUS
  <2>1. Rows
    BY RowCases DEF PoliteInv, BridgeInv
  <2> QED BY <2>1, LockOutlivesStep
<1> QED
  BY <1>1, PoliteInvInit, PoliteInvStep, PTL DEF BridgeSpec, LockOutlivesSend
=============================================================================
