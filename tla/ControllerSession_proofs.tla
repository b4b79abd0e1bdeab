---------------------- MODULE ControllerSession_proofs ----------------------
(***************************************************************************)
(* Proofs about Compare and the user-profile send on the bridge's          *)
(* controller sockets, however the controller, the browser and the sockets *)
(* behave: a Compare takes no more ticks than its waits allow and hears    *)
(* only its own live socket, whatever waits has something to wait for, and *)
(* a user-profile send is reported sent only after the whole transcript.   *)
(***************************************************************************)
EXTENDS ControllerSession, SequenceTheorems, TLAPS

Fields(v) ==
    /\ DOMAIN v = {"phase", "buffer", "ticks", "attempts", "age"}
    /\ v.ticks \in Nat /\ v.attempts \in Nat /\ v.age \in Nat

\* How far a session can have come: age counts the ticks of the attempts it
\* has made, then one, then those of the wait for the verdict.
Within(v) ==
    /\ Fields(v)
    /\ v.phase \in {"idle", "done"} => v.age = 0
    /\ v.phase = "handshake" =>
          /\ v.attempts \in 1..HandshakeAttempts
          /\ v.ticks < HandshakeTicks
          /\ v.age = HandshakeTicks * (v.attempts - 1) + v.ticks
    /\ v.phase = "sendVerify" => v.age <= HandshakeTicks * HandshakeAttempts
    /\ v.phase = "result" =>
          /\ v.ticks < ResultTicks
          /\ v.age <= HandshakeTicks * HandshakeAttempts + 1 + v.ticks
    /\ v.phase \in {"idle", "done", "handshake", "sendVerify", "result"}

\* The inductive invariant.
AllWithin ==
    /\ verify = [k \in Socks |-> verify[k]]
    /\ \A k \in Socks : Within(verify[k])

\* The arithmetic of the time bound.
LEMMA Products ==
    ASSUME NEW h \in Nat, NEW n \in Nat, NEW a \in 1..n
    PROVE  /\ h * (a - 1) + h = h * a
           /\ h * a <= h * n
           /\ h * (a - 1) \in Nat /\ h * n \in Nat
<1>1. h * (a - 1) + h = h * a
  BY SMT
<1>2. PICK d \in Nat : n = a + d
  <2>1. n - a \in Nat /\ n = a + (n - a)
    BY SMT
  <2> QED BY <2>1
<1>3. h * n = h * a + h * d /\ h * d \in Nat
  BY <1>2, SMT
<1>4. h * (a - 1) \in Nat
  BY SMT
<1> QED BY <1>1, <1>3, <1>4, SMT

LEMMA InitWithin == SessionInit => AllWithin
BY DEF SessionInit, VerifyInit, NewSession, AllWithin, Within, Fields

LEMMA OnlyOne ==
    ASSUME AllWithin, NEW k \in Socks, NEW v, Within(v),
           verify' = [verify EXCEPT ![k] = v]
    PROVE  AllWithin'
BY DEF AllWithin

LEMMA DoneWithin == Within(Done)
BY DEF Within, Fields, Done, NewSession

\* What Becomes makes of a session.
LEMMA Aged ==
    ASSUME NEW v, Fields(v)
    PROVE  Fields([v EXCEPT !.age = @ + 1])
BY DEF Fields

\* A tick of the handshake adds one to the age and to the ticks of the attempt.
LEMMA HandshakeWithin ==
    ASSUME AllWithin, NEW k \in Socks,
           \/ HandshakeAck(k) \/ HandshakeWaits(k)
           \/ HandshakeRetry(k) \/ HandshakeGivesUp(k)
    PROVE  AllWithin'
<1> DEFINE v == verify[k]
<1>1. Within(v) /\ Fields(v)
  BY DEF AllWithin, Within
<1>2. v.phase = "handshake"
  BY DEF HandshakeAck, HandshakeWaits, HandshakeRetry, HandshakeGivesUp,
         HandshakeOver
<1>3. /\ v.attempts \in 1..HandshakeAttempts /\ v.ticks < HandshakeTicks
      /\ v.age = HandshakeTicks * (v.attempts - 1) + v.ticks
  BY <1>1, <1>2 DEF Within
<1>4. HandshakeTicks \in Nat /\ HandshakeAttempts \in Nat
  BY VerifyAssumption
<1>5. /\ HandshakeTicks * (v.attempts - 1) + HandshakeTicks
            = HandshakeTicks * v.attempts
      /\ HandshakeTicks * v.attempts <= HandshakeTicks * HandshakeAttempts
      /\ HandshakeTicks * (v.attempts - 1) \in Nat
      /\ HandshakeTicks * HandshakeAttempts \in Nat
  BY <1>3, <1>4, Products
<1> HIDE DEF v
<1>a. CASE HandshakeAck(k)
  <2> DEFINE w == [v EXCEPT !.buffer = <<>>, !.phase = "sendVerify",
                            !.ticks = 0, !.age = @ + 1]
  <2>1. verify' = [verify EXCEPT ![k] = w]
    BY <1>a, <1>1 DEF HandshakeAck, Becomes, Fields, v
  <2>2. w.age <= HandshakeTicks * HandshakeAttempts
    BY <1>1, <1>3, <1>4, <1>5 DEF Fields
  <2>3. Within(w)
    BY <2>2, <1>1 DEF Within, Fields
  <2> QED BY <2>1, <2>3, OnlyOne
<1>b. CASE HandshakeWaits(k)
  <2> DEFINE w == [v EXCEPT !.buffer = <<>>, !.ticks = @ + 1, !.age = @ + 1]
  <2>1. verify' = [verify EXCEPT ![k] = w] /\ v.ticks + 1 < HandshakeTicks
    BY <1>b, <1>1 DEF HandshakeWaits, Becomes, Fields, v
  <2>2. Within(w)
    BY <2>1, <1>1, <1>2, <1>3, <1>4, <1>5 DEF Within, Fields
  <2> QED BY <2>1, <2>2, OnlyOne
<1>c. CASE HandshakeRetry(k)
  <2> DEFINE w == [v EXCEPT !.buffer = <<>>, !.ticks = 0,
                            !.attempts = @ + 1, !.age = @ + 1]
  <2>1. /\ verify' = [verify EXCEPT ![k] = w]
        /\ v.ticks + 1 >= HandshakeTicks /\ v.attempts < HandshakeAttempts
    BY <1>c, <1>1 DEF HandshakeRetry, HandshakeOver, Becomes, Fields, v
  <2>2. w.age = HandshakeTicks * v.attempts /\ w.attempts - 1 = v.attempts
    BY <2>1, <1>1, <1>3, <1>4, <1>5 DEF Fields
  <2>3. w.age = HandshakeTicks * (w.attempts - 1) + w.ticks
    BY <2>2, <1>1, <1>4 DEF Fields
  <2>4. w.attempts \in 1..HandshakeAttempts /\ w.ticks < HandshakeTicks
    BY <2>1, <1>1, <1>3, VerifyAssumption DEF Fields
  <2>5. Within(w)
    BY <2>3, <2>4, <1>1, <1>2 DEF Within, Fields
  <2> QED BY <2>1, <2>5, OnlyOne
<1>d. CASE HandshakeGivesUp(k)
  BY <1>d, DoneWithin, OnlyOne DEF HandshakeGivesUp
<1> QED BY <1>a, <1>b, <1>c, <1>d

\* A tick of the wait for the verdict adds one to both.
LEMMA ResultWithin ==
    ASSUME AllWithin, NEW k \in Socks,
           \/ SendVerifyTick(k) \/ ResultArrives(k) \/ ResultWaits(k)
           \/ ResultTimesOut(k)
    PROVE  AllWithin'
<1> DEFINE v == verify[k]
<1>1. Within(v) /\ Fields(v)
  BY DEF AllWithin, Within
<1>2. HandshakeTicks * HandshakeAttempts \in Nat
  BY VerifyAssumption, SMT
<1> HIDE DEF v
<1>a. CASE SendVerifyTick(k)
  <2> DEFINE w == [v EXCEPT !.phase = "result", !.ticks = 0, !.buffer = <<>>,
                            !.age = @ + 1]
  <2>1. verify' = [verify EXCEPT ![k] = w] /\ v.phase = "sendVerify"
    BY <1>a, <1>1 DEF SendVerifyTick, Becomes, Fields, v
  <2>2. w.age <= HandshakeTicks * HandshakeAttempts + 1 + w.ticks
    BY <2>1, <1>1, <1>2 DEF Within, Fields
  <2>3. Within(w)
    BY <2>2, <1>1, VerifyAssumption DEF Within, Fields
  <2> QED BY <2>1, <2>3, OnlyOne
<1>b. CASE ResultWaits(k)
  <2> DEFINE w == [v EXCEPT !.ticks = @ + 1, !.age = @ + 1]
  <2>1. /\ verify' = [verify EXCEPT ![k] = w]
        /\ v.phase = "result" /\ v.ticks + 1 < ResultTicks
    BY <1>b, <1>1 DEF ResultWaits, ResultMissing, Becomes, Fields, v
  <2>2. w.age <= HandshakeTicks * HandshakeAttempts + 1 + w.ticks
    BY <2>1, <1>1, <1>2 DEF Within, Fields
  <2>3. Within(w)
    BY <2>1, <2>2, <1>1 DEF Within, Fields
  <2> QED BY <2>1, <2>3, OnlyOne
<1>c. CASE ResultArrives(k) \/ ResultTimesOut(k)
  BY <1>c, DoneWithin, OnlyOne DEF ResultArrives, ResultTimesOut
<1> QED BY <1>a, <1>b, <1>c

LEMMA StepWithin == AllWithin /\ [SessionNext]_sessionVars => AllWithin'
<1> SUFFICES ASSUME AllWithin, [SessionNext]_sessionVars
             PROVE  AllWithin'
  OBVIOUS
<1>same. ASSUME UNCHANGED verify PROVE AllWithin'
  BY <1>same DEF AllWithin
<1>1. CASE Connect
  <2>1. Within(NewSession)
    BY DEF Within, Fields, NewSession
  <2> QED BY <1>1, <2>1, OnlyOne DEF Connect
<1>2. CASE Verify
  <2> DEFINE w == [NewSession EXCEPT !.phase = "handshake", !.attempts = 1]
  <2>1. HandshakeTicks * 0 = 0
    BY VerifyAssumption, SMT
  <2>2. /\ w.phase = "handshake" /\ w.attempts = 1 /\ w.ticks = 0
        /\ w.age = 0 /\ Fields(w)
    BY DEF NewSession, Fields
  <2>3. w.age = HandshakeTicks * (w.attempts - 1) + w.ticks
    BY <2>1, <2>2, SMT
  <2>4. Within(w)
    BY <2>2, <2>3, VerifyAssumption DEF Within
  <2>5. CASE \E k \in Socks : verify' = [verify EXCEPT ![k] = w]
    BY <2>4, <2>5, OnlyOne
  <2>6. CASE current \notin Socks
    <3>1. UNCHANGED verify \/ verify' = [verify EXCEPT ![current] = w]
      BY <1>2 DEF Verify, VerifyStarts
    <3> QED BY <3>1, <2>6, <1>same DEF AllWithin
  <2> QED BY <1>2, <2>5, <2>6, <1>same DEF Verify, VerifyStarts
<1>3. CASE \E k \in Socks : SocketCloses(k)
  BY <1>3, <1>same, DoneWithin, OnlyOne DEF SocketCloses, VerifyCancelled
<1>4. CASE \E k \in Socks : ComparisonTick(k)
  BY <1>4, HandshakeWithin, ResultWithin DEF ComparisonTick, VerifyTick
<1>5. CASE SocketReceives
  <2>1. CASE UNCHANGED verify
    BY <2>1, <1>same
  <2>2. CASE \E b : verify' = [verify EXCEPT ![current].buffer = b]
    <3>1. PICK b : verify' = [verify EXCEPT ![current].buffer = b]
      BY <2>2
    <3>2. CASE current \in Socks
      <4> DEFINE w == [verify[current] EXCEPT !.buffer = b]
      <4>1. Within(verify[current])
        BY <3>2 DEF AllWithin
      <4>2. Within(w)
        BY <4>1 DEF Within, Fields
      <4>3. verify' = [verify EXCEPT ![current] = w]
        BY <3>1
      <4> QED BY <3>2, <4>2, <4>3, OnlyOne
    <3>3. CASE current \notin Socks
      BY <3>1, <3>3, <1>same DEF AllWithin
    <3> QED BY <3>2, <3>3
  <2> QED BY <1>5, <2>1, <2>2 DEF SocketReceives, VerifyReceives
<1>6. CASE \/ SendUserProfiles \/ SendTick \/ ControllerAnswers
           \/ ControllerScans \/ UNCHANGED sessionVars
           \/ \E k \in Socks : SocketOpens(k) \/ SocketFails(k)
  BY <1>6, <1>same DEF SendUserProfiles, SendTick, ControllerAnswers,
     ControllerScans, SocketOpens, SocketFails, sessionVars, verifyVars
<1> QED BY <1>1, <1>2, <1>3, <1>4, <1>5, <1>6 DEF SessionNext

\* A Compare is over inside the ticks of all its waits, whatever comes or does
\* not come from the controller and whatever the browser does to its sockets.
THEOREM SessionCompareInTime == SessionSpec => []CompareInTime
<1>1. AllWithin => CompareInTime
  <2> SUFFICES ASSUME AllWithin, NEW k \in Socks
               PROVE  verify[k].age
                        < HandshakeTicks * HandshakeAttempts + 1 + ResultTicks
    BY DEF CompareInTime
  <2> DEFINE v == verify[k]
             m == HandshakeTicks * HandshakeAttempts
  <2>1. Within(v)
    BY DEF AllWithin
  <2>2. m \in Nat /\ ResultTicks \in Nat \ {0}
    BY VerifyAssumption, SMT
  <2>3. CASE v.phase = "handshake"
    <3>1. /\ v.attempts \in 1..HandshakeAttempts /\ v.ticks < HandshakeTicks
          /\ v.age = HandshakeTicks * (v.attempts - 1) + v.ticks
          /\ v.ticks \in Nat
      BY <2>1, <2>3 DEF Within, Fields
    <3>2. HandshakeTicks \in Nat /\ HandshakeAttempts \in Nat
      BY VerifyAssumption
    <3>3. /\ HandshakeTicks * (v.attempts - 1) + HandshakeTicks
                = HandshakeTicks * v.attempts
          /\ HandshakeTicks * v.attempts <= m
          /\ HandshakeTicks * (v.attempts - 1) \in Nat
      BY <3>1, <3>2, Products
    <3> HIDE DEF v, m
    <3>4. v.age < m
      BY <3>1, <3>2, <3>3, <2>2
    <3>5. v.age < m + 1 + ResultTicks
      <4>1. v.age \in Nat
        BY <2>1 DEF Within, Fields
      <4> QED BY <4>1, <3>4, <2>2
    <3> QED BY <3>5 DEF v, m
  <2>4. CASE v.phase # "handshake"
    <3> HIDE DEF m
    <3>1. v.age < m + 1 + ResultTicks
      BY <2>1, <2>2, <2>4 DEF Within, Fields, m
    <3> QED BY <3>1 DEF m
  <2> QED BY <2>3, <2>4
<1> QED BY <1>1, InitWithin, StepWithin, PTL DEF SessionSpec

-----------------------------------------------------------------------------
(* Who hears the controller *)

LinkOK ==
    /\ current \in Socks
    /\ phase \in [Socks -> {"dialing", "up", "closing", "closed"}]

\* The one socket whose bytes reach the browser, or one whose close event is
\* still to come.
Hears(k) == (k = current /\ phase[k] = "up") \/ phase[k] = "closing"

\* What a Compare has in its buffer came over a socket that is up or closing:
\* one that outlived its socket, or was started on a dead one, hears nothing.
HeardOverLiveSocket ==
    \A k \in Socks : Comparing(k) /\ verify[k].buffer # <<>> => Hears(k)

LEMMA InitLink == SessionInit => LinkOK
BY LinkAssumption DEF SessionInit, LinkInit, LinkOK, Socks

\* A socket that is heard goes on being heard, or its close event comes.
LEMMA LinkStep ==
    ASSUME LinkOK, [SessionNext]_sessionVars
    PROVE  /\ LinkOK'
           /\ \A k \in Socks : Hears(k) => Hears(k)' \/ SocketCloses(k)
<1> USE DEF LinkOK, Hears
<1>same. ASSUME UNCHANGED <<current, phase>>
         PROVE  /\ LinkOK'
                /\ \A k \in Socks : Hears(k) => Hears(k)'
  BY <1>same
<1>1. CASE Connect
  BY <1>1 DEF Connect, Dial, Destroyed, Live
<1>2. CASE \E k \in Socks : SocketOpens(k)
  BY <1>2 DEF SocketOpens, Opens, Settled
<1>3. CASE \E k \in Socks : SocketFails(k)
  BY <1>3 DEF SocketFails, Fails, Live
<1>4. CASE \E k \in Socks : SocketCloses(k)
  BY <1>4 DEF SocketCloses
<1>5. CASE \/ Verify \/ SendUserProfiles \/ SocketReceives \/ SendTick
           \/ ControllerAnswers \/ ControllerScans \/ UNCHANGED sessionVars
  <2>1. UNCHANGED <<current, phase>>
    BY <1>5 DEF Verify, VerifyStarts, Writes, SendUserProfiles, linkVars,
       SocketReceives, SendTick, RunnerTick, WindowCloses, Settles,
       ControllerAnswers, ControllerScans, sessionVars
  <2> QED BY <2>1, <1>same
<1>6. CASE \E k \in Socks : ComparisonTick(k)
  <2>1. UNCHANGED <<current, phase>>
    BY <1>6 DEF ComparisonTick, VerifyTick, HandshakeAck, HandshakeWaits,
       HandshakeRetry, HandshakeGivesUp, SendVerifyTick, ResultArrives,
       ResultWaits, ResultTimesOut, Writes, linkVars
  <2> QED BY <2>1, <1>same
<1> QED BY <1>1, <1>2, <1>3, <1>4, <1>5, <1>6 DEF SessionNext

\* The close event of a socket ends its Compare.
LEMMA ClosingEndsCompare ==
    ASSUME AllWithin, NEW k \in Socks, SocketCloses(k)
    PROVE  ~Comparing(k)'
BY DEF AllWithin, SocketCloses, VerifyCancelled, Comparing, Done, NewSession

LEMMA BecomesSays ==
    ASSUME AllWithin, NEW k \in Socks, NEW v, Fields(v), Becomes(k, v)
    PROVE  verify'[k].buffer = v.buffer /\ verify'[k].phase = v.phase
BY DEF AllWithin, Fields, Becomes

\* Where the buffer of a Compare comes from in a step.
LEMMA BufferStep ==
    ASSUME AllWithin, LinkOK, [SessionNext]_sessionVars, NEW k \in Socks,
           Comparing(k)', verify'[k].buffer # <<>>
    PROVE  \/ Comparing(k) /\ verify[k].buffer # <<>>
           \/ k = current /\ phase[k] = "up" /\ UNCHANGED <<current, phase>>
<1>0. \A j \in Socks : Fields(verify[j])
  BY DEF AllWithin, Within
<1> USE DEF AllWithin, Fields, Comparing
<1>same. ASSUME UNCHANGED verify
         PROVE  Comparing(k) /\ verify[k].buffer # <<>>
  BY <1>same
<1>1. CASE Connect
  BY <1>1 DEF Connect, NewSession
<1>2. CASE Verify
  BY <1>2 DEF Verify, VerifyStarts, NewSession
<1>3. CASE \E j \in Socks : SocketCloses(j)
  BY <1>3 DEF SocketCloses, VerifyCancelled, Done, NewSession
<1>4. ASSUME NEW j \in Socks, ComparisonTick(j)
      PROVE  Comparing(k) /\ verify[k].buffer # <<>>
  <2>1. CASE k # j
    <3>1. verify'[k] = verify[k]
      BY <1>4, <2>1 DEF ComparisonTick, VerifyTick, HandshakeAck,
         HandshakeWaits, HandshakeRetry, HandshakeGivesUp, SendVerifyTick,
         ResultArrives, ResultWaits, ResultTimesOut, Becomes
    <3> QED BY <3>1
  <2>2. CASE k = j
    <3>1. CASE \/ HandshakeAck(j) \/ HandshakeWaits(j) \/ HandshakeRetry(j)
               \/ SendVerifyTick(j)
      <4>1. verify'[j].buffer = <<>>
        <5>1. Fields(verify[j])
          BY <1>0
        <5>2. \E w : Fields(w) /\ w.buffer = <<>> /\ Becomes(j, w)
          <6> USE <5>1 DEF Fields
          <6>1. CASE HandshakeAck(j)
            <7> DEFINE w == [verify[j] EXCEPT !.buffer = <<>>,
                                !.phase = "sendVerify", !.ticks = 0]
            <7>1. Becomes(j, w)
              BY <6>1 DEF HandshakeAck
            <7>2. Fields(w) /\ w.buffer = <<>>
              OBVIOUS
            <7> HIDE DEF w, Fields
            <7> QED BY <7>1, <7>2
          <6>2. CASE HandshakeWaits(j)
            <7> DEFINE w == [verify[j] EXCEPT !.buffer = <<>>, !.ticks = @ + 1]
            <7>1. Becomes(j, w)
              BY <6>2 DEF HandshakeWaits
            <7>2. Fields(w) /\ w.buffer = <<>>
              OBVIOUS
            <7> HIDE DEF w, Fields
            <7> QED BY <7>1, <7>2
          <6>3. CASE HandshakeRetry(j)
            <7> DEFINE w == [verify[j] EXCEPT !.buffer = <<>>, !.ticks = 0,
                                              !.attempts = @ + 1]
            <7>1. Becomes(j, w)
              BY <6>3 DEF HandshakeRetry
            <7>2. Fields(w) /\ w.buffer = <<>>
              OBVIOUS
            <7> HIDE DEF w, Fields
            <7> QED BY <7>1, <7>2
          <6>4. CASE SendVerifyTick(j)
            BY <6>4 DEF SendVerifyTick
          <6> QED BY <3>1, <6>1, <6>2, <6>3, <6>4
        <5> QED BY <5>2, BecomesSays
      <4> QED BY <4>1, <2>2
    <3>2. CASE HandshakeGivesUp(j) \/ ResultArrives(j) \/ ResultTimesOut(j)
      <4>1. verify'[j].phase = "done"
        BY <3>2 DEF HandshakeGivesUp, ResultArrives, ResultTimesOut, Done,
           NewSession
      <4> QED BY <4>1, <2>2
    <3>3. CASE ResultWaits(j)
      <4>1. /\ verify'[j].buffer = verify[j].buffer
            /\ verify[j].phase = "result"
        BY <3>3, <1>0 DEF ResultWaits, ResultMissing, Becomes
      <4> QED BY <4>1, <2>2
    <3> QED BY <1>4, <3>1, <3>2, <3>3 DEF ComparisonTick, VerifyTick
  <2> QED BY <2>1, <2>2
<1>5. CASE SocketReceives
  <2>1. phase[current] = "up" /\ UNCHANGED <<current, phase>>
    BY <1>5 DEF SocketReceives
  <2>2. CASE k = current
    BY <2>1, <2>2
  <2>3. CASE k # current
    <3>1. verify'[k] = verify[k]
      BY <1>5, <2>3 DEF SocketReceives, VerifyReceives, LinkOK
    <3> QED BY <3>1
  <2> QED BY <2>2, <2>3
<1>6. CASE \/ SendUserProfiles \/ SendTick \/ ControllerAnswers
           \/ ControllerScans \/ UNCHANGED sessionVars
           \/ \E j \in Socks : SocketOpens(j) \/ SocketFails(j)
  BY <1>6, <1>same DEF SendUserProfiles, SendTick, ControllerAnswers,
     ControllerScans, SocketOpens, SocketFails, sessionVars, verifyVars
<1> QED BY <1>1, <1>2, <1>3, <1>4, <1>5, <1>6 DEF SessionNext

\* A Compare's bytes come over its own socket, while that is alive.
LEMMA HeardStep ==
    ASSUME AllWithin, LinkOK, HeardOverLiveSocket, [SessionNext]_sessionVars
    PROVE  HeardOverLiveSocket'
<1> SUFFICES ASSUME NEW k \in Socks, Comparing(k)', verify'[k].buffer # <<>>
             PROVE  Hears(k)'
  BY DEF HeardOverLiveSocket
<1>1. CASE Comparing(k) /\ verify[k].buffer # <<>>
  BY <1>1, LinkStep, ClosingEndsCompare DEF HeardOverLiveSocket
<1>2. CASE k = current /\ phase[k] = "up" /\ UNCHANGED <<current, phase>>
  BY <1>2 DEF Hears
<1> QED BY <1>1, <1>2, BufferStep

\* A step that gives a verdict found a whole reply in a settled session.
LEMMA VerdictStep ==
    ASSUME [SessionNext]_sessionVars, answer' # answer,
           answer' \in {"match", "different"}
    PROVE  Settled /\ \E k \in Socks : ResultArrives(k)
<1>1. ASSUME NEW k \in Socks, ComparisonTick(k)
      PROVE  Settled /\ ResultArrives(k)
  BY <1>1 DEF ComparisonTick, VerifyTick, HandshakeAck, HandshakeWaits,
     HandshakeRetry, HandshakeGivesUp, SendVerifyTick, ResultWaits,
     ResultTimesOut, Answers
<1>2. ~\E k \in Socks : SocketCloses(k) \/ SocketOpens(k) \/ SocketFails(k)
  BY DEF SocketCloses, VerifyCancelled, SocketOpens, SocketFails, verifyVars
<1>3. ~(Connect \/ Verify \/ SendUserProfiles \/ SocketReceives \/ SendTick)
  BY DEF Connect, Verify, Answers, SendUserProfiles, SocketReceives, SendTick,
     verifyVars
<1>4. ~(ControllerAnswers \/ ControllerScans \/ UNCHANGED sessionVars)
  BY DEF ControllerAnswers, ControllerScans, sessionVars, verifyVars
<1> QED BY <1>1, <1>2, <1>3, <1>4 DEF SessionNext

\* A match or a difference is only ever reported over a controller socket that
\* is up, and it is the browser's present one: Compares that a new connection
\* left behind, or that were started on a dead socket, end with an error.
THEOREM SessionVerdictOverLiveSocket == SessionSpec => VerdictOverLiveSocket
<1>1. SessionInit => AllWithin /\ LinkOK /\ HeardOverLiveSocket
  <2>1. SessionInit => HeardOverLiveSocket
    BY DEF SessionInit, VerifyInit, NewSession, HeardOverLiveSocket, Comparing
  <2> QED BY <2>1, InitWithin, InitLink
<1>2. AllWithin /\ LinkOK /\ HeardOverLiveSocket /\ [SessionNext]_sessionVars =>
        [ answer' # answer /\ answer' \in {"match", "different"} =>
            phase[current] = "up" ]_sessionVars
  <2> SUFFICES ASSUME LinkOK, HeardOverLiveSocket, [SessionNext]_sessionVars,
                      answer' # answer, answer' \in {"match", "different"}
               PROVE  phase[current] = "up"
    OBVIOUS
  <2>1. PICK k \in Socks : ResultArrives(k)
    BY VerdictStep
  <2>2. Settled
    BY VerdictStep
  <2>3. Comparing(k) /\ verify[k].buffer # <<>>
    <3>1. Len(verify[k].buffer) >= ReplyLength /\ ReplyLength \in Nat \ {0}
      BY <2>1, VerifyAssumption DEF ResultArrives
    <3>2. Len(<<>>) = 0
      OBVIOUS
    <3>3. verify[k].buffer # <<>>
      BY <3>1, <3>2
    <3> QED BY <2>1, <3>3 DEF ResultArrives, Comparing
  <2> QED BY <2>2, <2>3 DEF HeardOverLiveSocket, Hears, Settled
<1> QED
  BY <1>1, <1>2, StepWithin, LinkStep, HeardStep, PTL
     DEF SessionSpec, VerdictOverLiveSocket

-----------------------------------------------------------------------------
(* The browser is told *)

\* Nothing waits without a timer, a reply or an end to wait for.
LEMMA WaitsStep ==
    ASSUME AllWithin, LinkOK, WaitsForSomething, [SessionNext]_sessionVars
    PROVE  WaitsForSomething'
<1> SUFFICES ASSUME answer' = "waits"
             PROVE  \E k \in Socks : Comparing(k)'
  BY DEF WaitsForSomething
<1>0. \A k \in Socks : Fields(verify[k])
  BY DEF AllWithin, Within
<1> USE DEF Comparing
<1>same. ASSUME UNCHANGED verifyVars
         PROVE  \E k \in Socks : Comparing(k)'
  BY <1>same DEF verifyVars, WaitsForSomething
<1>1. CASE Connect
  BY <1>1 DEF Connect, WaitsForSomething, AllWithin
<1>2. CASE Verify
  <2>1. verify' = [verify EXCEPT ![current] =
            [NewSession EXCEPT !.phase = "handshake", !.attempts = 1]]
    BY <1>2 DEF Verify, Answers, VerifyStarts
  <2> QED BY <2>1 DEF AllWithin, LinkOK, NewSession
<1>3. ASSUME NEW k \in Socks, SocketCloses(k)
      PROVE  \E j \in Socks : Comparing(j)'
  BY <1>3 DEF SocketCloses, VerifyCancelled, WaitsForSomething
<1>4. ASSUME NEW k \in Socks, ComparisonTick(k)
      PROVE  \E j \in Socks : Comparing(j)'
  <2>1. CASE HandshakeAck(k) \/ HandshakeWaits(k) \/ HandshakeRetry(k)
    <3>1. verify'[k].phase \in {"sendVerify", "handshake"}
      BY ZenonT(40), <2>1, <1>0 DEF HandshakeAck, HandshakeWaits, HandshakeRetry,
         HandshakeOver, Becomes, AllWithin, Fields
    <3> QED BY <3>1
  <2>2. CASE SendVerifyTick(k) \/ ResultWaits(k)
    <3>1. verify'[k].phase = "result"
      BY ZenonT(40), <2>2, <1>0 DEF SendVerifyTick, ResultWaits, ResultMissing, Becomes,
         AllWithin, Fields
    <3> QED BY <3>1
  <2> QED
    BY <1>4, <2>1, <2>2 DEF ComparisonTick, VerifyTick, HandshakeGivesUp,
       ResultArrives, ResultTimesOut, Answers
<1>5. CASE SocketReceives
  <2>1. \A k \in Socks : verify'[k].phase = verify[k].phase
    <3>1. UNCHANGED verify \/ \E b : verify' = [verify EXCEPT ![current].buffer = b]
      BY <1>5 DEF SocketReceives, VerifyReceives
    <3> QED BY <3>1, <1>0 DEF AllWithin, Fields, LinkOK
  <2>2. answer = "waits"
    BY <1>5 DEF SocketReceives
  <2> QED BY <2>1, <2>2 DEF WaitsForSomething
<1>6. CASE \/ SendUserProfiles \/ SendTick \/ ControllerAnswers
           \/ ControllerScans \/ UNCHANGED sessionVars
           \/ \E j \in Socks : SocketOpens(j) \/ SocketFails(j)
  BY <1>6, <1>same DEF SendUserProfiles, SendTick, ControllerAnswers,
     ControllerScans, SocketOpens, SocketFails, sessionVars
<1> QED BY <1>1, <1>2, <1>3, <1>4, <1>5, <1>6 DEF SessionNext

\* While the browser has heard nothing of its Compare, one is running: no tick,
\* no new connection and no second Compare loses the answer.
THEOREM SessionWaitsForSomething == SessionSpec => []WaitsForSomething
<1>1. SessionInit => AllWithin /\ LinkOK /\ WaitsForSomething
  <2>1. SessionInit => WaitsForSomething
    BY DEF SessionInit, VerifyInit, WaitsForSomething
  <2> QED BY <2>1, InitWithin, InitLink
<1> QED BY <1>1, StepWithin, LinkStep, WaitsStep, PTL DEF SessionSpec

-----------------------------------------------------------------------------
(* What a user-profile send has written *)

\* The frames of a send that has written u profiles.
Sent(u) == <<Prepare>> \o [i \in 1..u |-> UserFrame(i - 1)]

\* The inductive invariant of the send: what it has written is an initial part
\* of the transcript, over the socket it began on, which it still has or which
\* has its close event to come.
SendOK ==
    /\ DOMAIN runner = DOMAIN NoRunner
    /\ runner.userIndex \in 0..UserCount
    /\ RunnerActive => /\ runner.sock \in Socks /\ Hears(runner.sock)
                       /\ ~runner.strayed /\ runner.outcome = "none"
    /\ Sending => IF runner.started THEN runner.frames = Sent(runner.userIndex)
                  ELSE runner.frames = <<>> /\ runner.userIndex = 0
    /\ Listening => runner.frames = Transcript
    /\ SentMeansTranscript

LEMMA FramesGrow ==
    ASSUME NEW u \in Nat
    PROVE  /\ Sent(u) \o <<UserFrame(u)>> = Sent(u + 1)
           /\ <<>> \o (<<Prepare>> \o <<UserFrame(0)>>) = Sent(1)
<1> DEFINE FrameSet == {Prepare} \cup {UserFrame(i) : i \in Nat}
<1>1. \A n \in Nat : /\ Sent(n) \in Seq(FrameSet) /\ Len(Sent(n)) = n + 1
                     /\ Sent(n)[1] = Prepare
                     /\ \A i \in 1..n : Sent(n)[i + 1] = UserFrame(i - 1)
  <2> TAKE n \in Nat
  <2> DEFINE f == [i \in 1..n |-> UserFrame(i - 1)]
  <2>1. f \in Seq(FrameSet) /\ Len(f) = n
    <3>1. \A i \in 1..n : UserFrame(i - 1) \in FrameSet
      OBVIOUS
    <3> HIDE DEF FrameSet
    <3> QED BY <3>1
  <2>2. <<Prepare>> \in Seq(FrameSet) /\ Len(<<Prepare>>) = 1
    OBVIOUS
  <2>3. \A i \in 1..n : f[i] = UserFrame(i - 1)
    OBVIOUS
  <2>4. Sent(n) = <<Prepare>> \o f
    BY DEF Sent
  <2> HIDE DEF f, FrameSet
  <2>5. /\ Sent(n) \in Seq(FrameSet) /\ Len(Sent(n)) = 1 + n
        /\ \A i \in 1..n + 1 : Sent(n)[i] = IF i <= 1 THEN <<Prepare>>[i]
                                            ELSE f[i - 1]
    BY <2>1, <2>2, <2>4, ConcatProperties
  <2> QED BY <2>3, <2>5
<1> HIDE DEF FrameSet
<1>2. ASSUME NEW a \in Seq(FrameSet), NEW n \in Nat, Len(a) = n + 1,
             a[1] = Prepare, \A i \in 1..n : a[i + 1] = UserFrame(i - 1)
      PROVE  a = Sent(n)
  <2>1. \A i \in 1..Len(a) : a[i] = Sent(n)[i]
    <3> TAKE i \in 1..Len(a)
    <3>1. CASE i = 1
      BY <3>1, <1>1, <1>2
    <3>2. CASE i # 1
      <4>1. i - 1 \in 1..n /\ (i - 1) + 1 = i
        BY <3>2, <1>2
      <4> QED BY <4>1, <1>1, <1>2
    <3> QED BY <3>1, <3>2
  <2> QED BY <2>1, <1>1, <1>2, SeqEqual
<1>3. <<UserFrame(u)>> \in Seq(FrameSet) /\ <<Prepare>> \in Seq(FrameSet)
  BY DEF FrameSet
<1>4. Sent(u) \o <<UserFrame(u)>> = Sent(u + 1)
  <2> DEFINE a == Sent(u) \o <<UserFrame(u)>>
  <2>1. /\ Sent(u) \in Seq(FrameSet) /\ Len(Sent(u)) = u + 1
        /\ Sent(u)[1] = Prepare
        /\ \A i \in 1..u : Sent(u)[i + 1] = UserFrame(i - 1)
    BY <1>1
  <2>2. Len(<<UserFrame(u)>>) = 1 /\ <<UserFrame(u)>>[1] = UserFrame(u)
    OBVIOUS
  <2>3. /\ a \in Seq(FrameSet)
        /\ Len(a) = Len(Sent(u)) + Len(<<UserFrame(u)>>)
        /\ \A i \in 1..Len(Sent(u)) + Len(<<UserFrame(u)>>) :
              a[i] = IF i <= Len(Sent(u)) THEN Sent(u)[i]
                     ELSE <<UserFrame(u)>>[i - Len(Sent(u))]
    BY <2>1, <1>3, ConcatProperties
  <2> HIDE DEF a
  <2>4. Len(a) = (u + 1) + 1 /\ a[1] = Prepare
    BY <2>1, <2>2, <2>3
  <2>5. \A i \in 1..u + 1 : a[i + 1] = UserFrame(i - 1)
    <3> TAKE i \in 1..u + 1
    <3>1. CASE i \in 1..u
      <4>1. a[i + 1] = Sent(u)[i + 1]
        BY <3>1, <2>1, <2>2, <2>3
      <4> QED BY <4>1, <3>1, <2>1
    <3>2. CASE i = u + 1
      <4>1. a[u + 2] = <<UserFrame(u)>>[1]
        <5>1. /\ u + 2 \in 1..Len(Sent(u)) + Len(<<UserFrame(u)>>)
              /\ ~(u + 2 <= Len(Sent(u))) /\ u + 2 - Len(Sent(u)) = 1
          BY <2>1, <2>2
        <5>2. a[u + 2] = <<UserFrame(u)>>[u + 2 - Len(Sent(u))]
          BY <2>3, <5>1
        <5> QED BY <5>1, <5>2
      <4> QED BY <4>1, <3>2, <2>2
    <3> QED BY <3>1, <3>2
  <2>6. a = Sent(u + 1)
    BY <2>3, <2>4, <2>5, <1>2
  <2> QED BY <2>6 DEF a
<1>5. <<>> \o (<<Prepare>> \o <<UserFrame(0)>>) = Sent(1)
  <2> DEFINE b == <<Prepare>> \o <<UserFrame(0)>>
  <2>1. <<UserFrame(0)>> \in Seq(FrameSet)
    BY DEF FrameSet
  <2>2. /\ b \in Seq(FrameSet) /\ Len(b) = 1 + 1
        /\ b[1] = Prepare /\ b[2] = UserFrame(0)
    BY <1>3, <2>1
  <2> HIDE DEF b
  <2>3. b = Sent(1)
    <3>1. \A i \in 1..1 : b[i + 1] = UserFrame(i - 1)
      BY <2>2
    <3> QED BY <2>2, <3>1, <1>2
  <2>4. <<>> \o b = b
    BY <2>2
  <2> QED BY <2>3, <2>4 DEF b
<1> QED BY <1>4, <1>5

\* The last user frame and the terminator complete the transcript.
LEMMA FramesEnd ==
    /\ Sent(UserCount) \o <<Terminator, Permanent>> = Transcript
    /\ UserCount = 0 =>
          <<>> \o (<<Prepare>> \o <<Terminator, Permanent>>) = Transcript
<1>1. Sent(UserCount) \o <<Terminator, Permanent>> = Transcript
  BY DEF Sent, Transcript
<1>2. ASSUME UserCount = 0
      PROVE  <<>> \o (<<Prepare>> \o <<Terminator, Permanent>>) = Transcript
  <2>1. [i \in 1..0 |-> UserFrame(i - 1)] = <<>>
    OBVIOUS
  <2>2. Transcript = (<<Prepare>> \o <<>>) \o <<Terminator, Permanent>>
    BY <1>2, <2>1 DEF Transcript
  <2> QED BY <2>2
<1> QED BY <1>1, <1>2

LEMMA FinishedStep ==
    ASSUME SendOK, NEW why, runner' = Finished(runner, why),
           why \notin SentOutcomes \/ Listening
    PROVE  SendOK'
<1>1. /\ DOMAIN runner' = DOMAIN NoRunner
      /\ runner'.phase = "stopped" /\ runner'.userIndex = 0
      /\ runner'.frames = runner.frames /\ runner'.strayed = runner.strayed
      /\ runner'.outcome = why
  BY DEF Finished, NoRunner
<1>2. ~RunnerActive' /\ ~Sending' /\ ~Listening'
  BY <1>1 DEF RunnerActive, Sending, Listening
<1>3. SentMeansTranscript'
  BY <1>1 DEF SendOK, SentMeansTranscript, RunnerActive
<1> QED BY <1>1, <1>2, <1>3, ProfileAssumption DEF SendOK

\* Each tick writes the next frame of the transcript, or none.
LEMMA SendTickStep ==
    ASSUME LinkOK, SendOK, SendTick
    PROVE  SendOK'
<1> USE DEF RunnerActive, Sending, Listening, SentMeansTranscript,
        SentOutcomes
<1>0. UNCHANGED <<current, phase>>
  BY DEF SendTick, RunnerTick, WindowCloses, Settles, Writes, linkVars
<1>f. ASSUME NEW why, runner' = Finished(runner, why),
             why \notin SentOutcomes \/ Listening
      PROVE  SendOK'
  BY <1>f, FinishedStep
<1>1. CASE WindowCloses \/ Settles
  BY <1>1, <1>f DEF WindowCloses, Settles
<1>2. CASE RunnerTick
  <2>1. CASE phase[current] # "up"
    BY <1>2, <2>1, <1>f DEF RunnerTick
  <2>2. CASE phase[current] = "up"
    <3> DEFINE complete == runner.userIndex >= UserCount
               frames == NextFrames(runner)
    <3>1. /\ Settled /\ Sending
          /\ runner' = [runner EXCEPT
                !.started = TRUE,
                !.userIndex = IF complete THEN @ ELSE @ + 1,
                !.frames = @ \o frames,
                !.strayed = @ \/ current # runner.sock,
                !.phase = IF complete THEN "listening" ELSE @]
      BY <1>2, <2>2 DEF RunnerTick
    <3>2. current = runner.sock /\ runner.sock \in Socks
      BY <3>1 DEF SendOK, Hears, Settled
    <3> HIDE DEF complete, frames
    <3>3. /\ DOMAIN runner' = DOMAIN NoRunner
          /\ runner'.started = TRUE /\ runner'.sock = runner.sock
          /\ runner'.userIndex = IF complete THEN runner.userIndex
                                 ELSE runner.userIndex + 1
          /\ runner'.frames = runner.frames \o frames
          /\ ~runner'.strayed
          /\ runner'.phase = IF complete THEN "listening" ELSE "sending"
          /\ runner'.outcome = "none"
      BY <3>1, <3>2 DEF SendOK, NoRunner
    <3>4. Hears(runner.sock)'
      BY <2>2, <3>2, <3>3, <1>0 DEF Hears
    <3>5. runner.userIndex \in Nat /\ UserCount \in Nat
      BY ProfileAssumption DEF SendOK
    <3>6. CASE complete
      <4>1. runner.userIndex = UserCount
        BY <3>5, <3>6 DEF SendOK, complete
      <4>2. frames = (IF runner.started THEN <<>> ELSE <<Prepare>>)
                        \o <<Terminator, Permanent>>
        BY <3>5, <4>1 DEF frames, NextFrames
      <4>3. CASE runner.started
        <5>1. runner.frames = Sent(UserCount)
          BY <3>1, <4>1, <4>3 DEF SendOK
        <5>2. <<>> \o <<Terminator, Permanent>> = <<Terminator, Permanent>>
          OBVIOUS
        <5>3. runner'.frames = Transcript
          BY <3>3, <4>2, <4>3, <5>1, <5>2, FramesEnd
        <5> QED BY <3>2, <3>3, <3>4, <3>6, <5>3 DEF SendOK
      <4>4. CASE ~runner.started
        <5>1. runner.frames = <<>> /\ UserCount = 0
          BY <3>1, <4>1, <4>4 DEF SendOK
        <5>2. runner'.frames = Transcript
          BY <3>3, <4>2, <4>4, <5>1, FramesEnd
        <5> QED BY <3>2, <3>3, <3>4, <3>6, <5>2 DEF SendOK
      <4> QED BY <4>3, <4>4
    <3>7. CASE ~complete
      <4>1. /\ runner.userIndex < UserCount
            /\ runner.userIndex + 1 \in 0..UserCount
        BY <3>5, <3>7 DEF complete
      <4>2. frames = (IF runner.started THEN <<>> ELSE <<Prepare>>)
                        \o <<UserFrame(runner.userIndex)>>
        BY <4>1 DEF frames, NextFrames
      <4>3. runner'.frames = Sent(runner.userIndex + 1)
        <5>1. CASE runner.started
          <6>1. runner.frames = Sent(runner.userIndex)
            BY <3>1, <5>1 DEF SendOK
          <6>2. <<>> \o <<UserFrame(runner.userIndex)>>
                  = <<UserFrame(runner.userIndex)>>
            OBVIOUS
          <6> QED BY <3>3, <3>5, <4>2, <5>1, <6>1, <6>2, FramesGrow
        <5>2. CASE ~runner.started
          <6>1. runner.frames = <<>> /\ runner.userIndex = 0
            BY <3>1, <5>2 DEF SendOK
          <6> QED BY <3>3, <4>2, <5>2, <6>1, FramesGrow
        <5> QED BY <5>1, <5>2
      <4> QED BY <3>2, <3>3, <3>4, <3>7, <4>1, <4>3 DEF SendOK
    <3> QED BY <3>6, <3>7
  <2> QED BY <2>1, <2>2
<1> QED BY <1>1, <1>2 DEF SendTick

LEMMA SendStep ==
    ASSUME LinkOK, SendOK, [SessionNext]_sessionVars
    PROVE  SendOK'
<1> USE DEF RunnerActive, Sending, Listening, SentMeansTranscript,
        SentOutcomes
<1>f. ASSUME NEW why, runner' = Finished(runner, why),
             why \notin SentOutcomes \/ Listening
      PROVE  SendOK'
  BY <1>f, FinishedStep
<1>c. ASSUME NEW k \in Socks, SocketCloses(k), RunnerActive, runner.sock = k
      PROVE  SendOK'
  BY <1>c, <1>f DEF SocketCloses, RunnerDisconnected
<1>same. ASSUME UNCHANGED runner PROVE SendOK'
  <2>1. CASE ~RunnerActive
    BY <1>same, <2>1 DEF SendOK
  <2>2. CASE RunnerActive
    <3>1. Hears(runner.sock)' \/ SocketCloses(runner.sock)
      BY <2>2, <1>same, LinkStep DEF SendOK
    <3>2. CASE SocketCloses(runner.sock)
      BY <2>2, <3>2, <1>c DEF SendOK
    <3>3. CASE Hears(runner.sock)'
      BY <1>same, <2>2, <3>3 DEF SendOK
    <3> QED BY <3>1, <3>2, <3>3
  <2> QED BY <2>1, <2>2
<1>1. CASE SendUserProfiles
  BY <1>1, ProfileAssumption DEF SendUserProfiles, RunnerStarts, NoRunner,
     SendOK, LinkOK, Hears, linkVars
<1>2. CASE SendTick
  BY <1>2, SendTickStep
<1>3. ASSUME NEW k \in Socks, SocketCloses(k) PROVE SendOK'
  BY <1>3, <1>c, <1>same DEF SocketCloses, RunnerDisconnected
<1>4. CASE SocketReceives
  <2>1. CASE UNCHANGED runner
    BY <2>1, <1>same
  <2>2. CASE RunnerReceives
    BY <1>4, <2>2 DEF SocketReceives, RunnerReceives, SendOK, NoRunner, Hears
  <2> QED BY <1>4, <2>1, <2>2 DEF SocketReceives
<1>5. CASE \/ Connect \/ Verify \/ ControllerAnswers \/ ControllerScans
           \/ UNCHANGED sessionVars
           \/ \E k \in Socks :
                 SocketOpens(k) \/ SocketFails(k) \/ ComparisonTick(k)
  BY <1>5, <1>same DEF Connect, Verify, ControllerAnswers, ControllerScans,
     sessionVars, SocketOpens, SocketFails, ComparisonTick
<1> QED BY <1>1, <1>2, <1>3, <1>4, <1>5 DEF SessionNext

\* A send that is reported as sent wrote the whole transcript, once and in
\* order, to one connection, for any number of profiles and sockets.
THEOREM SessionSentMeansTranscript == SessionSpec => []SentMeansTranscript
<1>1. SessionInit => LinkOK /\ SendOK
  <2>1. SessionInit => SendOK
    BY ProfileAssumption DEF SessionInit, RunnerInit, NoRunner, SendOK,
       RunnerActive, Sending, Listening, SentMeansTranscript, SentOutcomes
  <2> QED BY <2>1, InitLink
<1>2. SendOK => SentMeansTranscript
  BY DEF SendOK
<1> QED BY <1>1, <1>2, LinkStep, SendStep, PTL DEF SessionSpec

=============================================================================
