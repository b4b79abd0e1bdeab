---------------------------- MODULE VerifySession ----------------------------
(***************************************************************************)
(* Compare (bridge/verify-session.mjs): fc until the controller            *)
(* acknowledges, f5 for the verdict, fe to leave, or f8 when it never      *)
(* answered.  There is one session to a socket, with a timer of its own;   *)
(* what it writes goes to the socket its browser has by then.              *)
(***************************************************************************)
EXTENDS ControllerLink, FiniteSetsExt

CONSTANTS
    HandshakeTicks,     \* 31 in the code
    HandshakeAttempts,  \* 6
    ResultTicks,        \* 101
    ReplyLength         \* 10

ASSUME VerifyAssumption ==
    /\ HandshakeTicks \in Nat \ {0} /\ HandshakeAttempts \in Nat \ {0}
    /\ ResultTicks \in Nat \ {0} /\ ReplyLength \in Nat \ {0}

VARIABLES
    verify,   \* the session of each socket
    answer    \* what the browser has heard since it last asked: "waits" is
              \* nothing yet, "cut" the same with a Compare cancelled (history)

verifyVars == <<verify, answer>>

\* age is history: the ticks since the start.
Session == [phase: {"idle", "handshake", "sendVerify", "result", "done"},
            buffer: Seq(Cell), ticks: Nat, attempts: Nat, age: Nat]

NewSession == [phase |-> "idle", buffer |-> <<>>,
               ticks |-> 0, attempts |-> 0, age |-> 0]

\* The other fields are dead until start() sets them.
Done == [NewSession EXCEPT !.phase = "done"]

VerifyInit ==
    /\ verify = [k \in Socks |-> NewSession]
    /\ answer = "none"

Comparing(k) == verify[k].phase \notin {"idle", "done"}

\* How many known records a buffer starts with; an abnormal one is unknown.
KnownRecords(b) ==
    Max({n \in 0..Len(b) \div 2 : \A i \in 1..n : b[2 * i - 1] = "f2"})

\* start()
VerifyStarts(k) ==
    /\ verify' = [verify EXCEPT ![k] =
          [NewSession EXCEPT !.phase = "handshake", !.attempts = 1]]
    /\ Writes("fc")

\* receive(): what is left behind the known records waits for the tick.
VerifyReceives(k, data) ==
    LET b == verify[k].buffer \o data IN
    verify' = [verify EXCEPT ![k].buffer =
                  SubSeq(b, 2 * KnownRecords(b) + 1, Len(b))]

\* finish(): the browser is told, whichever Compare it asked for.
Answers(found) == answer' = found

Becomes(k, v) == verify' = [verify EXCEPT ![k] = [v EXCEPT !.age = @ + 1]]

Acknowledged(v) == v.buffer # <<>> /\ v.buffer[1] = "06"

\* A tick of the handshake: whatever has come is dropped, and the first cell of
\* it decides.
HandshakeAck(k) ==
    LET v == verify[k] IN
    /\ v.phase = "handshake" /\ Acknowledged(v)
    /\ Becomes(k, [v EXCEPT !.buffer = <<>>, !.phase = "sendVerify",
                            !.ticks = 0])
    /\ UNCHANGED <<linkVars, answer>>

HandshakeWaits(k) ==
    LET v == verify[k] IN
    /\ v.phase = "handshake" /\ ~Acknowledged(v)
    /\ v.ticks + 1 < HandshakeTicks
    /\ Becomes(k, [v EXCEPT !.buffer = <<>>, !.ticks = @ + 1])
    /\ UNCHANGED <<linkVars, answer>>

HandshakeOver(k) ==
    /\ verify[k].phase = "handshake" /\ ~Acknowledged(verify[k])
    /\ verify[k].ticks + 1 >= HandshakeTicks

\* Faulty variant: the attempt is not counted.
HandshakeRetryUncounted(k) ==
    /\ HandshakeOver(k) /\ verify[k].attempts < HandshakeAttempts
    /\ Becomes(k, [verify[k] EXCEPT !.buffer = <<>>, !.ticks = 0])
    /\ Writes("fc")
    /\ UNCHANGED answer

HandshakeRetry(k) ==
    /\ HandshakeOver(k) /\ verify[k].attempts < HandshakeAttempts
    /\ Becomes(k, [verify[k] EXCEPT !.buffer = <<>>, !.ticks = 0,
                                    !.attempts = @ + 1])
    /\ Writes("fc")
    /\ UNCHANGED answer

HandshakeGivesUp(k) ==
    /\ HandshakeOver(k) /\ verify[k].attempts >= HandshakeAttempts
    /\ verify' = [verify EXCEPT ![k] = Done]
    /\ Writes("f8")
    /\ Answers("error")

\* The tick after the acknowledgement asks for the verdict.
SendVerifyTick(k) ==
    /\ verify[k].phase = "sendVerify"
    /\ Becomes(k, [verify[k] EXCEPT !.phase = "result", !.ticks = 0,
                                    !.buffer = <<>>])
    /\ Writes("f5")
    /\ UNCHANGED answer

\* A whole reply: its first cell is the verdict, what came behind it is lost.
ResultArrives(k) ==
    LET v == verify[k] IN
    /\ v.phase = "result" /\ Len(v.buffer) >= ReplyLength
    /\ verify' = [verify EXCEPT ![k] = Done]
    /\ Writes("fe")
    /\ Answers(IF v.buffer[1] = "06" THEN "match" ELSE "different")

ResultMissing(k) ==
    verify[k].phase = "result" /\ Len(verify[k].buffer) < ReplyLength

ResultWaits(k) ==
    /\ ResultMissing(k) /\ verify[k].ticks + 1 < ResultTicks
    /\ Becomes(k, [verify[k] EXCEPT !.ticks = @ + 1])
    /\ UNCHANGED <<linkVars, answer>>

\* Faulty variant: the end of the wait is not reported.
ResultTimesOutSilently(k) ==
    /\ ResultMissing(k) /\ verify[k].ticks + 1 >= ResultTicks
    /\ verify' = [verify EXCEPT ![k] = Done]
    /\ Writes("fe")
    /\ UNCHANGED answer

ResultTimesOut(k) ==
    /\ ResultMissing(k) /\ verify[k].ticks + 1 >= ResultTicks
    /\ verify' = [verify EXCEPT ![k] = Done]
    /\ Writes("fe")
    /\ Answers("error")

VerifyTick(k) ==
    \/ HandshakeAck(k) \/ HandshakeWaits(k)
    \/ HandshakeRetry(k) \/ HandshakeGivesUp(k)
    \/ SendVerifyTick(k)
    \/ ResultArrives(k) \/ ResultWaits(k) \/ ResultTimesOut(k)

\* cancel(): nobody is told.
VerifyCancelled(k) ==
    /\ verify' = IF Comparing(k) THEN [verify EXCEPT ![k] = Done] ELSE verify
    /\ answer' = IF Comparing(k) /\ answer = "waits" THEN "cut" ELSE answer

-----------------------------------------------------------------------------
(* Properties *)

\* However its attempts and waits add up, a Compare is over within the ticks
\* of all of them: 288 of 100 ms, inside the 30 s the user-profile recovery
\* of the page gives it (app/user-profile-recovery.ts:49).
CompareInTime ==
    \A k \in Socks :
        verify[k].age < HandshakeTicks * HandshakeAttempts + 1 + ResultTicks
=============================================================================
