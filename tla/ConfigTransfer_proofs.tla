----------------------- MODULE ConfigTransfer_proofs -----------------------
(***************************************************************************)
(* Proofs about a configuration transfer, for images of any number of      *)
(* blocks, any number of users and any waits and retries: its types, that  *)
(* it implements TransferLifecycle, that no commit frame goes before the   *)
(* whole image, how many replies may come late, and that a completed       *)
(* transfer was made permanent.                                            *)
(*                                                                         *)
(* The proofs do not go through the code of a tick each time: the table    *)
(* TickRow says once what a transition of the session writes and to which  *)
(* state it leads, and every invariant is shown over its rows.             *)
(*                                                                         *)
(* The argument for CompletedMeansPermanent counts: a frame is answered by *)
(* one byte at most, so after the last block no more than SurplusReplies   *)
(* bytes and frames are still to come. When those are too few for a post-  *)
(* image reply, the buffer that is taken for it reaches the first byte of  *)
(* the real one, what is left of that is zeros, and the first ACK behind   *)
(* it answers the query.                                                   *)
(***************************************************************************)
EXTENDS ConfigTransfer, SequenceTheorems, FiniteSetTheorems, TLAPS

-----------------------------------------------------------------------------
(* The inductive invariant *)

\* What has come from the controller and was not yet looked at, in order.
Stream == replyBuffer \o fromCtl

Late == {"user-transfer", "final-status", "completed"}

\* Type correctness with what its proof needs.
Typed ==
    /\ TypeOK
    /\ session.state \in {"created", "compile", "handshake"} =>
          session.settle = 0
    /\ session.state = "settle" => session.settle < SettleTicks
    /\ \A j \in 1..Len(toCtl) : toCtl[j][1] = "block" => toCtl[j][2] \in Blocks
    /\ ctl.verified => ctl.stored = Blocks
    /\ ctl.permanent => ctl.stored = Blocks

\* The link that the session has, state by state.
Linked ==
    /\ session.state = "created" =>
          /\ outcome = "none" /\ connected /\ ~reconnecting
          /\ link # "opening"
    /\ outcome = "none" => session.state \notin SessionTerminal
    /\ outcome = "completed" => session.state = "completed"
    /\ Active /\ session.state # "final-status" =>
          link \in {"up", "lost"} /\ ~reconnecting
    /\ Active /\ link \in {"up", "lost"} => connected
    /\ outcome = "none" /\ session.state # "final-status" =>
          session.finalStatusCount = 0

\* Frames that are answered by a byte.
ByteAnswered == {"setup", "prepare", "block"}

OnlyByteAnswered == \A j \in 1..Len(toCtl) : toCtl[j][1] \in ByteAnswered

\* How the retries of a state are bounded, while a block is still to be sent.
RetriesIn ==
    outcome = "none" =>
        /\ session.state \in {"created", "compile", "settle", "block-gap"} =>
              session.retry = 0
        /\ session.state = "handshake" => session.retry <= MaxConnectionRetries
        /\ session.state = "block-ack" => session.retry <= MaxBlockRetries
        /\ session.state \in {"created", "compile", "handshake", "settle"} =>
              session.blockIndex = 0

Sent ==
    1 + MaxConnectionRetries + session.blockIndex * MaxBlockRetries

AtCreated ==
    session.state = "created" =>
        /\ replyBuffer = <<>> /\ toCtl = <<>>
        /\ \A i \in 1..Len(fromCtl) : fromCtl[i] = "STATUS"
        /\ ctl.mode = "normal"

\* The controller scans until it takes the setup frame, so the status records
\* of that scan come before every answer.
Handshake(bound) ==
    /\ OnlyByteAnswered
    /\ Len(toCtl) <= bound
    /\ \A i \in 1..Len(Stream) :
          i + bound <= Len(Stream) + Len(toCtl) => Stream[i] = "STATUS"
    /\ ctl.mode # "resetting"
    /\ link = "up" /\ ctl.mode = "normal" =>
          /\ \A i \in 1..Len(Stream) : Stream[i] = "STATUS"
          /\ toCtl # <<>> /\ toCtl[1][1] = "setup"

AtHandshake ==
    Active =>
        /\ session.state = "compile" => Handshake(1)
        /\ session.state = "handshake" => Handshake(2 + session.retry)

\* From the ACK of the handshake on the controller does not scan.
NoScan == ctl.mode # "resetting" /\ (link = "up" => ctl.mode = "transfer")

Counted(bound) == OnlyByteAnswered /\ NoScan
                  /\ Len(Stream) + Len(toCtl) <= bound

AtBlocks ==
    Active =>
        /\ session.state = "settle" => Counted(1 + MaxConnectionRetries)
        /\ session.state = "block-gap" => Counted(Sent)
        /\ session.state = "block-ack" => Counted(Sent + session.retry + 1)
        /\ session.state = "post-image" => Counted(SurplusReplies)

\* When the commit frame is about to be written, fewer answers to the frames
\* before it can still come than make up a post-image reply.
FewReplies ==
    Active /\ session.state = "post-image" =>
        Len(Stream) + Len(toCtl) < StatusLength

\* The commit frame is still on its way, or what has come behind the first
\* StatusLength bytes is the rest of its reply.
StatusFrames ==
    \/ /\ toCtl # <<>> /\ toCtl[Len(toCtl)] = F("commit")
       /\ \A j \in 1..Len(toCtl) - 1 : toCtl[j][1] \in ByteAnswered
       /\ Len(Stream) + Len(toCtl) - 1 < StatusLength
    \/ /\ toCtl = <<>>
       /\ \A i \in 1..Len(Stream) : i > StatusLength => Stream[i] = "ZERO"

AtStatus ==
    Active /\ session.state = "post-image-status" => NoScan /\ StatusFrames

\* No ACK before the controller has answered the query, and then only the one
\* of that answer.
QueryFrames ==
    \/ /\ toCtl = <<F("query")>>
       /\ \A i \in 1..Len(Stream) : Stream[i] # "ACK"
    \/ /\ toCtl = <<>>
       /\ \A i \in 1..Len(Stream) - 1 :
             Stream[i] = "ACK" /\ Stream[i + 1] = "ZERO" => ctl.permanent

AtQuery == Active /\ session.state = "f9-ack" => QueryFrames

AtLate ==
    outcome \in {"none", "completed"} /\ session.state \in Late =>
        /\ ctl.permanent
        /\ \A j \in 1..Len(toCtl) : toCtl[j][1] # "query"

Permanence == AtStatus /\ AtQuery /\ AtLate

\* Block b has been put to the controller, or is about to be before the
\* i-th frame.
Preceded(i, b) ==
    \/ b \in ctl.offered
    \/ \E k \in 1..i - 1 : toCtl[k][1] = "block" /\ toCtl[k][2] = b

\* CommitFollowsWholeImage, block by block.
CommitsPreceded ==
    \A i \in 1..Len(toCtl) :
        toCtl[i][1] = "commit" => \A b \in Blocks : Preceded(i, b)

\* The first n blocks are out.
PutOut(n) == \A b \in 0..n - 1 : Preceded(Len(toCtl) + 1, b)

BlocksOut ==
    Active /\ link = "up" =>
        /\ session.state = "block-gap" => PutOut(session.blockIndex)
        /\ session.state = "block-ack" => PutOut(session.blockIndex + 1)
        /\ session.state = "post-image" => PutOut(BlockCount)

-----------------------------------------------------------------------------
(* What a transition of the session does to the rest *)

\* It fails on a write over a lost link, with nothing in flight any more ...
ApplyFails(next, frames, why) ==
    /\ frames # <<>> /\ link # "up"
    /\ session' = next /\ outcome' = why
    /\ reconnecting' = FALSE /\ connected' = connected
    /\ link' = "down" /\ toCtl' = <<>> /\ fromCtl' = <<>>

\* ... or it is made.
ApplyWrites(next, frames) ==
    /\ frames = <<>> \/ link = "up"
    /\ session' = next
    /\ outcome' = IF next.state \in SessionTerminal THEN next.state ELSE "none"
    /\ reconnecting' = (reconnecting /\ next.state \notin SessionTerminal)
    /\ toCtl' = toCtl \o frames
    /\ UNCHANGED <<connected, link, fromCtl>>

\* A transition is applied whole, or its write fails and ends the transfer.
LEMMA ApplyCases ==
    ASSUME NEW next, NEW frames, NEW why, Apply(next, frames, why)
    PROVE  ApplyFails(next, frames, why) \/ ApplyWrites(next, frames)
BY DEF Apply, Fail, ApplyFails, ApplyWrites

FramesTyped(frames) ==
    /\ frames \in Seq(Frame)
    /\ \A j \in 1..Len(frames) : frames[j][1] = "block" => frames[j][2] \in Blocks

\* The rest of Typed for a session in some state.
SessionTyped(x) ==
    /\ x \in Session
    /\ x.state \in {"created", "compile", "handshake"} => x.settle = 0
    /\ x.state = "settle" => x.settle < SettleTicks

LEMMA EmptyFrames == FramesTyped(<<>>)
BY DEF FramesTyped

LEMMA OneFrame ==
    ASSUME NEW family \in {"setup", "prepare", "commit", "query",
                           "begin-users", "user", "all-users", "abort", "reset"},
           NEW n \in Nat
    PROVE  FramesTyped(<<<<family, n>>>>)
<1>1. <<family, n>> \in Frame
  BY DEF Frame
<1>2. <<<<family, n>>>> \in Seq(Frame) /\ Len(<<<<family, n>>>>) = 1
      /\ <<<<family, n>>>>[1] = <<family, n>>
  BY <1>1
<1> QED BY <1>2 DEF FramesTyped

LEMMA OneBlock ==
    ASSUME session \in Session PROVE FramesTyped(BlockAttempt)
<1>1. session.blockIndex \in Blocks /\ Blocks \subseteq Nat
  BY ConfigTransferAssumption DEF Session, Blocks
<1>2. <<"block", session.blockIndex>> \in Frame
  BY <1>1 DEF Frame
<1> QED BY <1>1, <1>2 DEF FramesTyped, BlockAttempt

\* Frames written one after the other are typed like the frames.
LEMMA FramesJoin ==
    ASSUME NEW a, NEW b, FramesTyped(a), FramesTyped(b)
    PROVE  FramesTyped(a \o b)
<1>1. a \in Seq(Frame) /\ b \in Seq(Frame)
  BY DEF FramesTyped
<1>2. /\ a \o b \in Seq(Frame) /\ Len(a \o b) = Len(a) + Len(b)
      /\ \A i \in 1..Len(a) + Len(b) :
            (a \o b)[i] = IF i <= Len(a) THEN a[i] ELSE b[i - Len(a)]
  BY <1>1, ConcatProperties
<1>3. Len(a) \in Nat /\ Len(b) \in Nat
  BY <1>1
<1>4. ASSUME NEW j \in 1..Len(a \o b), (a \o b)[j][1] = "block"
      PROVE  (a \o b)[j][2] \in Blocks
  <2>1. CASE j <= Len(a)
    BY <1>2, <1>3, <1>4, <2>1 DEF FramesTyped
  <2>2. CASE ~(j <= Len(a))
    <3>1. j - Len(a) \in 1..Len(b) /\ (a \o b)[j] = b[j - Len(a)]
      BY <1>2, <1>3, <2>2
    <3> QED BY <3>1, <1>4 DEF FramesTyped
  <2> QED BY <2>1, <2>2
<1> QED BY <1>2, <1>4 DEF FramesTyped

\* The end of a transfer leaves a typed state.
LEMMA FailTyped ==
    ASSUME Typed, NEW next, SessionTyped(next),
           NEW why \in RunnerOutcomes \cup SessionTerminal, Fail(next, why),
           replyBuffer' \in {replyBuffer, <<>>}, UNCHANGED ctl
    PROVE  Typed'
<1>1. /\ replyBuffer' \in Seq(Reply) /\ ctl' \in Controller
      /\ ctl'.verified => ctl'.stored = Blocks
      /\ ctl'.permanent => ctl'.stored = Blocks
  <2>1. /\ ctl' = ctl /\ ctl \in Controller
        /\ ctl.verified => ctl.stored = Blocks
        /\ ctl.permanent => ctl.stored = Blocks
    BY DEF Typed, TypeOK
  <2>2. replyBuffer \in Seq(Reply) /\ <<>> \in Seq(Reply)
    BY DEF Typed, TypeOK
  <2> QED BY <2>1, <2>2
<1>2. /\ toCtl' \in Seq(Frame) /\ fromCtl' \in Seq(Reply)
      /\ \A j \in 1..Len(toCtl') : FALSE
  BY DEF Fail
<1>3. /\ connected' \in BOOLEAN /\ reconnecting' \in BOOLEAN
      /\ outcome' = why /\ link' = "down" /\ session' = next
  BY DEF Fail, Typed, TypeOK
<1> QED BY <1>1, <1>2, <1>3 DEF Typed, TypeOK, SessionTyped

\* So does a transition that leads to a typed session.
LEMMA ApplyTyped ==
    ASSUME Typed, NEW next, SessionTyped(next), NEW frames, FramesTyped(frames),
           NEW why \in RunnerOutcomes, Apply(next, frames, why),
           replyBuffer' \in {replyBuffer, <<>>}, UNCHANGED ctl
    PROVE  Typed'
<1>1. FramesTyped(toCtl)
  BY DEF Typed, TypeOK, FramesTyped
<1>r. /\ replyBuffer' \in Seq(Reply) /\ ctl' \in Controller
      /\ ctl'.verified => ctl'.stored = Blocks
      /\ ctl'.permanent => ctl'.stored = Blocks
  <2>1. /\ ctl' = ctl /\ ctl \in Controller
        /\ ctl.verified => ctl.stored = Blocks
        /\ ctl.permanent => ctl.stored = Blocks
    BY DEF Typed, TypeOK
  <2>2. replyBuffer \in Seq(Reply) /\ <<>> \in Seq(Reply)
    BY DEF Typed, TypeOK
  <2> QED BY <2>1, <2>2
<1>2. CASE ApplyFails(next, frames, why)
  BY <1>2, FailTyped DEF ApplyFails, Fail
<1>3. CASE ApplyWrites(next, frames)
  <2>1. FramesTyped(toCtl')
    BY <1>1, <1>3, FramesJoin DEF ApplyWrites
  <2>2. outcome' \in {"none"} \cup SessionTerminal
    BY <1>3 DEF ApplyWrites
  <2>3. reconnecting' \in BOOLEAN
    BY <1>3 DEF ApplyWrites
  <2>4. /\ connected' \in BOOLEAN /\ fromCtl' \in Seq(Reply)
        /\ link' \in {"up", "lost", "down", "opening"} /\ session' = next
    BY <1>3 DEF ApplyWrites, Typed, TypeOK
  <2> QED
    BY <1>r, <2>1, <2>2, <2>3, <2>4 DEF Typed, TypeOK, SessionTyped, FramesTyped
<1> QED BY <1>2, <1>3, ApplyCases

LEMMA TypedInit == Init => Typed
<1> SUFFICES ASSUME Init PROVE Typed
  OBVIOUS
<1>1. session \in Session /\ session.settle = 0
      /\ session.state = "created"
  BY ConfigTransferAssumption DEF Init, Session, SessionStates, Blocks
<1>2. /\ ctl \in Controller /\ ~ctl.verified /\ ~ctl.permanent
  BY DEF Init, Controller
<1>3. /\ replyBuffer \in Seq(Reply) /\ fromCtl \in Seq(Reply)
      /\ toCtl \in Seq(Frame) /\ \A j \in 1..Len(toCtl) : FALSE
  BY DEF Init
<1>4. /\ connected \in BOOLEAN /\ reconnecting \in BOOLEAN
      /\ outcome = "none" /\ link = "up"
  BY DEF Init
<1> QED BY <1>1, <1>2, <1>3, <1>4 DEF Typed, TypeOK

\* Each of the session's transitions leads to a typed session.
LEMMA TypedTick ==
    ASSUME Typed, Start \/ Tick PROVE Typed'
<1> USE ConfigTransferAssumption
<1>1. SessionTyped(session) /\ session \in Session
  BY DEF Typed, TypeOK, SessionTyped
<1>2. /\ session.blockIndex \in Blocks /\ session.timeout \in Nat
      /\ session.retry \in 0..MaxConnectionRetries + MaxBlockRetries
      /\ session.settle \in 0..SettleTicks /\ session.userIndex \in 0..UserCount
      /\ session.finalStatusCount \in 0..FinalStatusCount
      /\ session.state \in SessionStates
  BY <1>1 DEF Session
<1>3. {"transport-write-failed", "invalid-controller-reply"}
        \subseteq RunnerOutcomes
  BY DEF RunnerOutcomes
<1> USE DEF Step
<1>s. ASSUME NEW next, SessionTyped(next), NEW frames, FramesTyped(frames),
             Step(next, frames), replyBuffer' \in {replyBuffer, <<>>},
             UNCHANGED ctl
      PROVE  Typed'
  BY <1>s, <1>3, ApplyTyped
<1>4. \A x \in {"created", "compile", "handshake", "settle", "block-gap",
                "block-ack", "post-image", "post-image-status", "f9-ack",
                "user-transfer", "final-status"} \cup SessionTerminal :
         x \in SessionStates
  BY DEF SessionStates
<1>5. \A x \in {"completed", "failed", "aborted", "cancelled", "disconnected",
                "connection-timeout", "post-image-timeout", "f9-timeout",
                "final-status-timeout"} : x \in SessionTerminal
  BY DEF SessionTerminal
<1>6. 0 \in Nat /\ 1 \in Nat /\ session.timeout + 1 \in Nat
      /\ 0 \in 0..MaxConnectionRetries + MaxBlockRetries
      /\ 0 \in 0..FinalStatusCount
  BY <1>2
<1> USE DEF SessionTyped, Session
<1>a. CASE Start
  <2>1. SessionTyped([session EXCEPT !.state = "compile"])
    BY <1>a, <1>1, <1>4 DEF Start
  <2> QED BY <1>a, <2>1, <1>3, OneFrame, ApplyTyped DEF Start, F
<1>b. CASE WaitTick
  <2> DEFINE next == [session EXCEPT !.timeout = @ + 1]
  <2>1. SessionTyped(next)
    BY <1>1, <1>2, <1>4, <1>5, <1>6
  <2> HIDE DEF next
  <2>2. Step(next, <<>>) /\ UNCHANGED <<replyBuffer, ctl>>
    BY <1>b DEF WaitTick, Ticks, next
  <2> QED BY <2>1, <2>2, <1>s, EmptyFrames
<1>c. CASE CompileTick
  <2> DEFINE next == [session EXCEPT !.state = "handshake"]
  <2>1. SessionTyped(next)
    BY <1>c, <1>1, <1>2, <1>4, <1>5, <1>6 DEF CompileTick
  <2> HIDE DEF next
  <2>2. Step(next, <<F("prepare")>>) /\ replyBuffer' = <<>> /\ UNCHANGED ctl
    BY <1>c DEF CompileTick, next
  <2> QED BY <2>1, <2>2, <1>s, OneFrame DEF F
<1>d. CASE HandshakeTimeout
  <2> DEFINE gone == [session EXCEPT !.timeout = 0,
                                     !.state = "connection-timeout"]
             again == [session EXCEPT !.timeout = 0, !.retry = @ + 1]
  <2>1. CASE session.retry >= MaxConnectionRetries
    <3>1. SessionTyped(gone)
      BY <1>1, <1>2, <1>4, <1>5, <1>6
    <3> HIDE DEF gone
    <3>2. Step(gone, <<F("abort")>>) /\ UNCHANGED <<replyBuffer, ctl>>
      BY <1>d, <2>1 DEF HandshakeTimeout, Ticks, gone
    <3> QED BY <3>1, <3>2, <1>s, OneFrame DEF F
  <2>2. CASE ~(session.retry >= MaxConnectionRetries)
    <3>1. session.retry + 1 \in 0..MaxConnectionRetries + MaxBlockRetries
      BY <1>2, <2>2
    <3>2. session.state = "handshake"
      BY <1>d DEF HandshakeTimeout, Ticks
    <3>3. SessionTyped(again)
      BY <1>1, <1>2, <1>4, <1>5, <1>6, <3>1, <3>2
    <3> HIDE DEF again
    <3>4. Step(again, <<F("prepare")>>) /\ UNCHANGED <<replyBuffer, ctl>>
      BY <1>d, <2>2 DEF HandshakeTimeout, Ticks, again
    <3> QED BY <3>3, <3>4, <1>s, OneFrame DEF F
  <2> QED BY <2>1, <2>2
<1>e. CASE HandshakeAck
  <2> DEFINE next == [session EXCEPT !.state = "settle", !.timeout = 0,
                                     !.retry = 0]
  <2>1. session.settle < SettleTicks
    BY SMTT(40), <1>e, <1>1 DEF HandshakeAck, ConsumesReply
  <2>2. SessionTyped(next)
    BY <1>1, <1>2, <1>4, <1>5, <1>6, <2>1
  <2> HIDE DEF next
  <2>3. Step(next, <<>>) /\ replyBuffer' = <<>> /\ UNCHANGED ctl
    BY <1>e DEF HandshakeAck, ConsumesReply, next
  <2> QED BY <2>2, <2>3, <1>s, EmptyFrames
<1>f. CASE InvalidReply
  <2>1. /\ Fail(session, "invalid-controller-reply")
        /\ replyBuffer' = <<>> /\ UNCHANGED ctl
    BY <1>f DEF InvalidReply, ConsumesReply
  <2> QED BY <2>1, <1>1, <1>3, FailTyped
<1>g. CASE SettleTick
  <2> DEFINE out == [session EXCEPT !.settle = @ + 1, !.timeout = 0,
                                    !.state = "block-ack"]
             next == [session EXCEPT !.settle = @ + 1]
  <2>1. session.state = "settle" /\ session.settle < SettleTicks
    BY <1>g, <1>1 DEF SettleTick, Ticks
  <2>2. CASE session.settle + 1 = SettleTicks
    <3>0. session.settle + 1 \in 0..SettleTicks
      BY <1>2, <2>1
    <3>1. SessionTyped(out)
      BY <1>1, <1>4, <1>6, <3>0
    <3> HIDE DEF out
    <3>2. Step(out, BlockAttempt) /\ UNCHANGED <<replyBuffer, ctl>>
      BY <1>g, <2>2 DEF SettleTick, Ticks, out
    <3> QED BY <3>1, <3>2, <1>1, <1>s, OneBlock
  <2>3. CASE session.settle + 1 # SettleTicks
    <3>1. session.settle + 1 \in 0..SettleTicks /\ session.settle + 1 < SettleTicks
      BY <1>2, <2>1, <2>3
    <3>2. SessionTyped(next)
      BY <1>1, <1>2, <1>4, <1>5, <1>6, <2>1, <3>1
    <3> HIDE DEF next
    <3>3. Step(next, <<>>) /\ UNCHANGED <<replyBuffer, ctl>>
      BY <1>g, <2>3 DEF SettleTick, Ticks, next
    <3> QED BY <3>2, <3>3, <1>s, EmptyFrames
  <2> QED BY <2>2, <2>3
<1>h. CASE BlockGapTick
  <2> DEFINE next == [session EXCEPT !.timeout = 0, !.state = "block-ack"]
  <2>1. SessionTyped(next)
    BY <1>1, <1>2, <1>4, <1>5, <1>6
  <2> HIDE DEF next
  <2>2. Step(next, BlockAttempt) /\ UNCHANGED <<replyBuffer, ctl>>
    BY <1>h DEF BlockGapTick, Ticks, next
  <2> QED BY <2>1, <2>2, <1>1, <1>s, OneBlock
<1>i. CASE BlockAck
  <2> DEFINE out == [session EXCEPT !.state = "post-image", !.timeout = 0,
                                    !.retry = 0]
             next == [session EXCEPT !.state = "block-gap", !.timeout = 0,
                                     !.retry = 0, !.blockIndex = @ + 1]
  <2>1. CASE session.blockIndex + 1 = BlockCount
    <3>1. SessionTyped(out)
      BY <1>1, <1>2, <1>4, <1>5, <1>6
    <3> HIDE DEF out
    <3>2. Step(out, <<>>) /\ replyBuffer' = <<>> /\ UNCHANGED ctl
      BY <1>i, <2>1 DEF BlockAck, AckedBlock, ConsumesReply, out
    <3> QED BY <3>1, <3>2, <1>s, EmptyFrames
  <2>2. CASE session.blockIndex + 1 # BlockCount
    <3>1. session.blockIndex + 1 \in Blocks
      BY <1>2, <2>2 DEF Blocks
    <3>2. SessionTyped(next)
      BY <1>1, <1>2, <1>4, <1>5, <1>6, <3>1
    <3> HIDE DEF next
    <3>3. Step(next, <<>>) /\ replyBuffer' = <<>> /\ UNCHANGED ctl
      BY <1>i, <2>2 DEF BlockAck, AckedBlock, ConsumesReply, next
    <3> QED BY <3>2, <3>3, <1>s, EmptyFrames
  <2> QED BY <2>1, <2>2
<1>j. CASE BlockNak \/ BlockTimesOut
  <2> DEFINE gone == [session EXCEPT !.timeout = 0, !.state = "aborted"]
             again == [session EXCEPT !.timeout = 0, !.retry = @ + 1]
  <2>1. /\ RetryOrAbort /\ replyBuffer' \in {replyBuffer, <<>>}
        /\ UNCHANGED ctl /\ session.state = "block-ack"
    BY <1>j DEF BlockNak, BlockTimesOut, ConsumesReply, Ticks
  <2>2. CASE session.retry >= MaxBlockRetries
    <3>1. SessionTyped(gone)
      BY <1>1, <1>2, <1>4, <1>5, <1>6
    <3> HIDE DEF gone
    <3>2. Step(gone, <<F("abort")>>)
      BY <2>1, <2>2 DEF RetryOrAbort, gone
    <3> QED BY <2>1, <3>1, <3>2, <1>s, OneFrame DEF F
  <2>3. CASE ~(session.retry >= MaxBlockRetries)
    <3>1. session.retry + 1 \in 0..MaxConnectionRetries + MaxBlockRetries
      BY <1>2, <2>3
    <3>2. SessionTyped(again)
      BY <1>1, <1>2, <1>4, <1>5, <1>6, <2>1, <3>1
    <3> HIDE DEF again
    <3>3. Step(again, BlockAttempt)
      BY <2>1, <2>3 DEF RetryOrAbort, again
    <3> QED BY <2>1, <3>2, <3>3, <1>1, <1>s, OneBlock
  <2> QED BY <2>2, <2>3
<1>k. CASE CommitTick
  <2> DEFINE next == [session EXCEPT !.state = "post-image-status",
                                     !.timeout = 0]
  <2>1. SessionTyped(next)
    BY <1>1, <1>2, <1>4, <1>5, <1>6
  <2> HIDE DEF next
  <2>2. Step(next, <<F("commit")>>) /\ UNCHANGED <<replyBuffer, ctl>>
    BY <1>k DEF CommitTick, Ticks, next
  <2> QED BY <2>1, <2>2, <1>s, OneFrame DEF F
<1>l. CASE PostImageReply
  <2> DEFINE next == [session EXCEPT !.state = "f9-ack", !.timeout = 0]
             gone == [session EXCEPT !.state = "failed"]
  <2>1. SessionTyped(next) /\ SessionTyped(gone)
    BY <1>1, <1>2, <1>4, <1>5, <1>6
  <2> HIDE DEF next, gone
  <2>2. /\ Step(next, <<F("query")>>) \/ Step(gone, <<F("abort")>>)
        /\ replyBuffer' = <<>> /\ UNCHANGED ctl
    BY <1>l DEF PostImageReply, ConsumesReply, next, gone
  <2> QED BY <2>1, <2>2, <1>s, OneFrame DEF F
<1>m. CASE PostImageTimesOut
  <2> DEFINE gone == [session EXCEPT !.timeout = @ + 1,
                                     !.state = "post-image-timeout"]
  <2>1. SessionTyped(gone)
    BY <1>1, <1>2, <1>4, <1>5, <1>6
  <2> HIDE DEF gone
  <2>2. Step(gone, <<F("abort")>>) /\ UNCHANGED <<replyBuffer, ctl>>
    BY <1>m DEF PostImageTimesOut, Ticks, gone
  <2> QED BY <2>1, <2>2, <1>s, OneFrame DEF F
<1>n. CASE F9Reply
  <2> DEFINE next == [session EXCEPT !.state = "user-transfer", !.timeout = 1]
             gone == [session EXCEPT !.state = "failed"]
  <2>1. SessionTyped(next) /\ SessionTyped(gone)
    BY <1>1, <1>2, <1>4, <1>5, <1>6
  <2> HIDE DEF next, gone
  <2>2. /\ Step(next, <<F("begin-users")>>) \/ Step(gone, <<F("reset")>>)
        /\ replyBuffer' = <<>> /\ UNCHANGED ctl
    BY <1>n DEF F9Reply, ConsumesReply, next, gone
  <2> QED BY <2>1, <2>2, <1>s, OneFrame DEF F
<1>o. CASE F9TimesOut
  <2> DEFINE gone == [session EXCEPT !.timeout = @ + 1, !.state = "f9-timeout"]
  <2>1. SessionTyped(gone)
    BY <1>1, <1>2, <1>4, <1>5, <1>6
  <2> HIDE DEF gone
  <2>2. Step(gone, <<F("reset")>>) /\ UNCHANGED <<replyBuffer, ctl>>
    BY <1>o DEF F9TimesOut, Ticks, gone
  <2> QED BY <2>1, <2>2, <1>s, OneFrame DEF F
<1>p. CASE UserTick
  <2> DEFINE next == [session EXCEPT !.userIndex = @ + 1]
             last == [session EXCEPT !.state = "final-status", !.timeout = 0,
                                     !.finalStatusCount = 0]
  <2>1. session.state = "user-transfer"
    BY <1>p DEF UserTick, Ticks
  <2>2. CASE session.userIndex < UserCount
    <3>1. session.userIndex \in Nat /\ session.userIndex + 1 \in 0..UserCount
      BY <1>2, <2>2
    <3>2. SessionTyped(next)
      BY <1>1, <1>2, <1>4, <1>5, <1>6, <2>1, <3>1
    <3> HIDE DEF next
    <3>3. /\ Step(next, <<<<"user", session.userIndex>>>>)
          /\ UNCHANGED <<replyBuffer, ctl>>
      BY <1>p, <2>2 DEF UserTick, Ticks, next
    <3> QED BY <3>1, <3>2, <3>3, <1>s, OneFrame
  <2>3. CASE ~(session.userIndex < UserCount)
    <3>1. SessionTyped(last)
      BY <1>1, <1>2, <1>4, <1>5, <1>6
    <3> HIDE DEF last
    <3>2. Step(last, <<F("all-users")>>) /\ UNCHANGED <<replyBuffer, ctl>>
      BY <1>p, <2>3 DEF UserTick, Ticks, last
    <3> QED BY <3>1, <3>2, <1>s, OneFrame DEF F
  <2> QED BY <2>2, <2>3
<1>q. CASE FinalTick
  <2> DEFINE done == [session EXCEPT !.timeout = @ + 1, !.state = "completed"]
             gone == [session EXCEPT !.timeout = @ + 1,
                                     !.state = "final-status-timeout"]
  <2>1. SessionTyped(done) /\ SessionTyped(gone)
    BY <1>1, <1>2, <1>4, <1>5, <1>6
  <2> HIDE DEF done, gone
  <2>2. /\ Step(done, <<>>) \/ Step(gone, <<>>)
        /\ UNCHANGED <<replyBuffer, ctl>>
    BY <1>q DEF FinalTick, Ticks, done, gone
  <2> QED BY <2>1, <2>2, <1>s, EmptyFrames
<1> QED
  BY <1>a, <1>b, <1>c, <1>d, <1>e, <1>f, <1>g, <1>h, <1>i, <1>j, <1>k, <1>l,
     <1>m, <1>n, <1>o, <1>p, <1>q DEF Tick


-----------------------------------------------------------------------------
(* The socket's events and the controller *)

LEMMA StatusesCount ==
    ASSUME NEW chunk \in Seq(Reply) PROVE StatusesIn(chunk) \in Nat
<1> DEFINE found == {k \in 1..Len(chunk) :
                       \A j \in 1..k : chunk[j] = "STATUS"}
<1>1. IsFiniteSet(1..Len(chunk))
  BY FS_Interval
<1>2. IsFiniteSet(found)
  BY <1>1, FS_Subset
<1> QED BY <1>2, FS_CardinalityType DEF StatusesIn

LEMMA FramesTail ==
    ASSUME NEW a, FramesTyped(a), a # <<>>
    PROVE  FramesTyped(Tail(a)) /\ Head(a) \in Frame
           /\ (Head(a)[1] = "block" => Head(a)[2] \in Blocks)
<1>1. /\ a \in Seq(Frame) /\ Tail(a) \in Seq(Frame)
      /\ Len(Tail(a)) = Len(a) - 1 /\ Len(a) \in Nat /\ Len(a) > 0
      /\ \A i \in 1..Len(a) - 1 : Tail(a)[i] = a[i + 1]
      /\ Head(a) = a[1] /\ a[1] \in Frame
  BY HeadTailProperties, EmptySeq, LenProperties DEF FramesTyped
<1>2. \A j \in 1..Len(Tail(a)) : j + 1 \in 1..Len(a)
  BY <1>1
<1> QED BY <1>1, <1>2 DEF FramesTyped

\* TCP hands over the first n replies and keeps the rest.
LEMMA SplitReplies ==
    ASSUME NEW s \in Seq(Reply), NEW n \in 1..Len(s)
    PROVE  /\ SubSeq(s, 1, n) \in Seq(Reply) /\ Len(SubSeq(s, 1, n)) = n
           /\ \A i \in 1..n : SubSeq(s, 1, n)[i] = s[i]
           /\ SubSeq(s, n + 1, Len(s)) \in Seq(Reply)
           /\ Len(SubSeq(s, n + 1, Len(s))) = Len(s) - n
           /\ \A i \in 1..Len(s) - n : SubSeq(s, n + 1, Len(s))[i] = s[n + i]
<1>1. Len(s) \in Nat /\ \A i \in 1..Len(s) : s[i] \in Reply
  BY LenProperties, ElementOfSeq
<1>2. \A i \in 1..n : s[i] \in Reply
  BY <1>1
<1>3. \A i \in n + 1..Len(s) : s[i] \in Reply
  BY <1>1
<1>4. 1 \in Int /\ n \in Int /\ n + 1 \in Int /\ Len(s) \in Int
  BY <1>1
<1>5. /\ SubSeq(s, 1, n) \in Seq(Reply) /\ Len(SubSeq(s, 1, n)) = n
      /\ \A i \in 1..n : SubSeq(s, 1, n)[i] = s[i]
  <2>1. /\ SubSeq(s, 1, n) \in Seq(Reply)
        /\ Len(SubSeq(s, 1, n)) = IF 1 <= n THEN n - 1 + 1 ELSE 0
        /\ \A i \in 1..n - 1 + 1 : SubSeq(s, 1, n)[i] = s[1 + i - 1]
    BY <1>2, <1>4, SubSeqProperties
  <2> QED BY <2>1, <1>1
<1>6. /\ SubSeq(s, n + 1, Len(s)) \in Seq(Reply)
      /\ Len(SubSeq(s, n + 1, Len(s))) = Len(s) - n
      /\ \A i \in 1..Len(s) - n : SubSeq(s, n + 1, Len(s))[i] = s[n + i]
  <2> DEFINE m == n + 1
             k == Len(s)
  <2>0. m \in Int /\ k \in Int /\ \A i \in m..k : s[i] \in Reply
    BY <1>3, <1>4
  <2> HIDE DEF m, k
  <2>1. /\ SubSeq(s, m, k) \in Seq(Reply)
        /\ Len(SubSeq(s, m, k)) = IF m <= k THEN k - m + 1 ELSE 0
        /\ \A i \in 1..k - m + 1 : SubSeq(s, m, k)[i] = s[m + i - 1]
    BY <2>0, SubSeqProperties
  <2>2. k - m + 1 = k - n /\ (m <= k \/ k - n = 0)
        /\ \A i \in Int : m + i - 1 = n + i
    BY <1>1 DEF m, k
  <2>3. /\ Len(SubSeq(s, m, k)) = k - n
        /\ \A i \in 1..k - n : SubSeq(s, m, k)[i] = s[n + i]
    BY <2>0, <2>1, <2>2
  <2> QED BY <2>1, <2>3 DEF m, k
<1> QED BY <1>5, <1>6

LEMMA SplitsJoin ==
    ASSUME NEW s \in Seq(Reply), NEW n \in 1..Len(s)
    PROVE  SubSeq(s, 1, n) \o SubSeq(s, n + 1, Len(s)) = s
<1> DEFINE a == SubSeq(s, 1, n)
           b == SubSeq(s, n + 1, Len(s))
<1>1. /\ a \in Seq(Reply) /\ Len(a) = n /\ \A i \in 1..n : a[i] = s[i]
      /\ b \in Seq(Reply) /\ Len(b) = Len(s) - n
      /\ \A i \in 1..Len(s) - n : b[i] = s[n + i]
      /\ Len(s) \in Nat
  BY SplitReplies
<1> HIDE DEF a, b
<1>2. /\ a \o b \in Seq(Reply) /\ Len(a \o b) = Len(a) + Len(b)
      /\ \A i \in 1..Len(a) + Len(b) :
            (a \o b)[i] = IF i <= Len(a) THEN a[i] ELSE b[i - Len(a)]
  BY <1>1, ConcatProperties
<1>3. ASSUME NEW i \in 1..Len(s) PROVE (a \o b)[i] = s[i]
  <2>1. CASE i <= n
    BY <1>1, <1>2, <2>1
  <2>2. CASE ~(i <= n)
    <3>1. i - n \in 1..Len(s) - n /\ n + (i - n) = i
      BY <1>1, <2>2
    <3>2. (a \o b)[i] = b[i - n]
      BY <1>1, <1>2, <2>2
    <3> QED BY <1>1, <3>1, <3>2
  <2> QED BY <2>1, <2>2
<1>4. a \o b = s
  <2>1. Len(a \o b) = Len(s) /\ Len(a) + Len(b) = Len(s)
    BY <1>1, <1>2
  <2>2. \A i \in 1..Len(a \o b) : (a \o b)[i] = s[i]
    BY <1>3, <2>1
  <2> QED BY <1>2, <2>1, <2>2, SeqEqual
<1> QED BY <1>4 DEF a, b

\* A chunk of bytes is split into replies of the controller.
LEMMA ReceiveTyped ==
    ASSUME Typed, Receive PROVE Typed'
<1> USE ConfigTransferAssumption
<1>1. PICK n \in 1..Len(fromCtl) :
        LET chunk == SubSeq(fromCtl, 1, n)
            count == session.finalStatusCount + StatusesIn(chunk) IN
        /\ fromCtl' = SubSeq(fromCtl, n + 1, Len(fromCtl))
        /\ IF Active /\ session.state = "final-status"
           THEN /\ session' = [session EXCEPT !.finalStatusCount =
                       IF count > FinalStatusCount THEN FinalStatusCount
                       ELSE count]
                /\ UNCHANGED replyBuffer
           ELSE /\ Len(replyBuffer) + n <= MaxBuffered
                /\ replyBuffer' = IF Active THEN replyBuffer \o chunk
                                  ELSE replyBuffer
                /\ UNCHANGED session
  BY DEF Receive
<1> DEFINE chunk == SubSeq(fromCtl, 1, n)
<1>2. fromCtl \in Seq(Reply) /\ replyBuffer \in Seq(Reply)
  BY DEF Typed, TypeOK
<1>3. chunk \in Seq(Reply) /\ fromCtl' \in Seq(Reply)
  BY <1>1, <1>2, SplitReplies
<1>4. replyBuffer' \in Seq(Reply)
  <2>1. replyBuffer \o chunk \in Seq(Reply)
    BY <1>2, <1>3, ConcatProperties
  <2> QED BY <1>1, <1>2, <2>1
<1>5. SessionTyped(session')
  <2>0. SessionTyped(session)
    BY DEF Typed, TypeOK, SessionTyped
  <2>1. CASE Active /\ session.state = "final-status"
    <3> DEFINE count == session.finalStatusCount + StatusesIn(chunk)
               capped == IF count > FinalStatusCount THEN FinalStatusCount
                         ELSE count
    <3>1. StatusesIn(chunk) \in Nat
      BY <1>3, StatusesCount
    <3>2. capped \in 0..FinalStatusCount
      <4>1. session.finalStatusCount \in Nat /\ FinalStatusCount \in Nat
        BY <2>0 DEF SessionTyped, Session
      <4> HIDE DEF chunk
      <4> QED BY SMTT(40), <3>1, <4>1
    <3>3. session' = [session EXCEPT !.finalStatusCount = capped]
      BY <1>1, <2>1
    <3> HIDE DEF capped
    <3> QED BY <2>0, <3>2, <3>3 DEF SessionTyped, Session
  <2>2. CASE ~(Active /\ session.state = "final-status")
    BY <1>1, <2>0, <2>2
  <2> QED BY <2>1, <2>2
<1>6. UNCHANGED <<connected, reconnecting, outcome, link, toCtl, ctl>>
  BY DEF Receive
<1> QED BY <1>3, <1>4, <1>5, <1>6 DEF Typed, TypeOK, SessionTyped

\* The events that leave the buffers alone or empty what is in flight.
LEMMA LinkTyped ==
    ASSUME Typed,
           LinkDrops \/ LinkCloses \/ ReconnectTimer \/ LinkOpens
             \/ LinkRefused \/ Cancel
    PROVE  Typed'
<1>1. SessionTyped(session)
  BY DEF Typed, TypeOK, SessionTyped
<1>2. ASSUME NEW state \in {"disconnected", "cancelled"}
      PROVE  SessionTyped([session EXCEPT !.state = state])
  <2>1. state \in SessionStates
    BY DEF SessionStates, SessionTerminal
  <2> QED BY <1>1, <2>1 DEF SessionTyped, Session
<1>3. CASE LinkDrops
  BY <1>3 DEF LinkDrops, runnerVars, Typed, TypeOK
<1>4. CASE LinkCloses
  <2>1. SessionTyped(session')
    BY <1>1, <1>2, <1>4 DEF LinkCloses
  <2>2. /\ connected' \in BOOLEAN /\ reconnecting' \in BOOLEAN
        /\ outcome' \in {"none"} \cup SessionTerminal \cup RunnerOutcomes
        /\ link' = "down"
    BY <1>4 DEF LinkCloses, Typed, TypeOK, RunnerOutcomes
  <2>3. UNCHANGED <<replyBuffer, toCtl, fromCtl, ctl>>
    BY <1>4 DEF LinkCloses
  <2> QED BY <2>1, <2>2, <2>3 DEF Typed, TypeOK, SessionTyped
<1>5. CASE ReconnectTimer
  BY <1>5 DEF ReconnectTimer, Typed, TypeOK
<1>6. CASE LinkOpens
  <2>1. connected' \in BOOLEAN
    BY <1>6 DEF LinkOpens, Typed, TypeOK
  <2> QED BY <1>6, <2>1 DEF LinkOpens, Typed, TypeOK
<1>7. CASE LinkRefused
  <2>1. reconnecting' \in BOOLEAN
    BY <1>7 DEF LinkRefused
  <2> QED BY <1>7, <2>1 DEF LinkRefused, Typed, TypeOK
<1>8. CASE Cancel
  <2>1. "cancelled" \in RunnerOutcomes \cup SessionTerminal
    BY DEF SessionTerminal
  <2>2. SessionTyped([session EXCEPT !.state = "cancelled"])
    BY <1>2
  <2> QED BY <1>8, <2>1, <2>2, FailTyped DEF Cancel
<1> QED BY <1>3, <1>4, <1>5, <1>6, <1>7, <1>8

\* The controller takes the frame at the head.
LEMMA TakingTyped ==
    ASSUME Typed, NEW family, Taking(family)
    PROVE  /\ FramesTyped(toCtl') /\ Head(toCtl) \in Frame
           /\ Head(toCtl)[1] = "block" => Head(toCtl)[2] \in Blocks
<1>1. FramesTyped(toCtl)
  BY DEF Typed, TypeOK, FramesTyped
<1> QED BY <1>1, FramesTail DEF Taking

LEMMA SaysTyped ==
    ASSUME Typed, NEW bytes \in Seq(Reply), Says(bytes)
    PROVE  fromCtl' \in Seq(Reply)
<1>1. fromCtl \in Seq(Reply)
  BY DEF Typed, TypeOK
<1> QED BY <1>1, ConcatProperties DEF Says

\* What the controller may answer to the last two questions.
LEMMA AnswersTyped ==
    /\ <<>> \in Seq(Reply) /\ <<"ACK">> \in Seq(Reply)
    /\ <<"NAK">> \in Seq(Reply)
    /\ \A r \in Reply : <<"ACK", r>> \in Seq(Reply)
    /\ \A r \in Reply :
          [i \in 1..StatusLength |-> IF i > 1 THEN "ZERO" ELSE r] \in Seq(Reply)
<1>1. "ACK" \in Reply /\ "NAK" \in Reply /\ "ZERO" \in Reply
  BY DEF Reply
<1>2. ASSUME NEW r \in Reply
      PROVE  [i \in 1..StatusLength |-> IF i > 1 THEN "ZERO" ELSE r] \in Seq(Reply)
  <2>1. StatusLength \in Nat
    BY ConfigTransferAssumption
  <2>2. \A i \in 1..StatusLength : (IF i > 1 THEN "ZERO" ELSE r) \in Reply
    BY <1>1
  <2> QED BY <2>1, <2>2, IsASeq
<1> QED BY <1>1, <1>2

\* A step of the controller: the runner's variables and the link stay.
LEMMA CtlTyped ==
    ASSUME Typed, UNCHANGED <<runnerVars, link>>, FramesTyped(toCtl'),
           fromCtl' \in Seq(Reply), ctl' \in Controller,
           ctl'.verified => ctl'.stored = Blocks,
           ctl'.permanent => ctl'.stored = Blocks
    PROVE  Typed'
BY DEF runnerVars, Typed, TypeOK, FramesTyped

ControllerActs ==
    \/ CtlPrepares \/ CtlTakesBlock \/ CtlCommits \/ CtlAnswersQuery
    \/ CtlTakesUsers \/ CtlEnds \/ CtlRestarts \/ CtlScans

\* The controller stores blocks of the image only, and verifies or makes
\* permanent only a whole one.
LEMMA ControllerTyped ==
    ASSUME Typed, ControllerActs
    PROVE  Typed'
<1>1. /\ ctl \in Controller /\ FramesTyped(toCtl) /\ fromCtl \in Seq(Reply)
      /\ ctl.verified => ctl.stored = Blocks
      /\ ctl.permanent => ctl.stored = Blocks
  BY DEF Typed, TypeOK, FramesTyped
<1>2. ASSUME NEW mode \in {"normal", "transfer", "resetting"},
             NEW restarted \in BOOLEAN,
             ctl' = [ctl EXCEPT !.mode = mode, !.restarted = restarted]
      PROVE  /\ ctl' \in Controller
             /\ ctl'.verified => ctl'.stored = Blocks
             /\ ctl'.permanent => ctl'.stored = Blocks
  BY <1>1, <1>2 DEF Controller
<1>m. ASSUME NEW mode \in {"normal", "transfer", "resetting"},
             ctl' = [ctl EXCEPT !.mode = mode]
      PROVE  /\ ctl' \in Controller
             /\ ctl'.verified => ctl'.stored = Blocks
             /\ ctl'.permanent => ctl'.stored = Blocks
  BY <1>1, <1>m DEF Controller
<1>3. CASE CtlPrepares
  <2>1. PICK family : Taking(family)
    BY <1>3 DEF CtlPrepares
  <2>2. FramesTyped(toCtl') /\ UNCHANGED <<runnerVars, link>>
    BY <2>1, TakingTyped DEF Taking
  <2>3. PICK bytes \in {<<>>, <<"ACK">>, <<"NAK">>} : Says(bytes)
    BY <1>3 DEF CtlPrepares
  <2>4. fromCtl' \in Seq(Reply)
    BY <2>3, SaysTyped, AnswersTyped
  <2> QED BY <1>3, <2>2, <2>4, <1>m, CtlTyped DEF CtlPrepares
<1>4. CASE CtlTakesBlock
  <2>1. Taking("block")
    BY <1>4 DEF CtlTakesBlock
  <2>2. /\ FramesTyped(toCtl') /\ UNCHANGED <<runnerVars, link>>
        /\ Head(toCtl)[2] \in Blocks
    BY <2>1, TakingTyped DEF Taking
  <2> DEFINE i == Head(toCtl)[2]
  <2>3. PICK accepted \in BOOLEAN, silent \in BOOLEAN :
          /\ ctl' = [ctl EXCEPT !.offered = @ \cup {i},
                                !.stored = IF accepted THEN @ \cup {i} ELSE @]
          /\ Says(IF silent THEN <<>>
                  ELSE IF accepted THEN <<"ACK">> ELSE <<"NAK">>)
    BY <1>4 DEF CtlTakesBlock
  <2>4. fromCtl' \in Seq(Reply)
    BY <2>3, SaysTyped, AnswersTyped
  <2> HIDE DEF i
  <2>5. /\ ctl' \in Controller
        /\ ctl'.verified => ctl'.stored = Blocks
        /\ ctl'.permanent => ctl'.stored = Blocks
    <3> DEFINE stored == IF accepted THEN ctl.stored \cup {i} ELSE ctl.stored
    <3>1. i \in Blocks
      BY <2>2 DEF i
    <3>2. /\ stored \in SUBSET Blocks
          /\ ctl.stored = Blocks => stored = Blocks
      BY <1>1, <3>1 DEF Controller
    <3>3. ctl.offered \cup {i} \in SUBSET Blocks
      BY <1>1, <3>1 DEF Controller
    <3>4. ctl' = [ctl EXCEPT !.offered = ctl.offered \cup {i}, !.stored = stored]
      BY <2>3, <1>1 DEF Controller
    <3> HIDE DEF stored
    <3> QED BY <1>1, <3>2, <3>3, <3>4 DEF Controller
  <2> QED BY <2>2, <2>4, <2>5, CtlTyped
<1>5. CASE CtlCommits
  <2>1. Taking("commit")
    BY <1>5 DEF CtlCommits
  <2>2. FramesTyped(toCtl') /\ UNCHANGED <<runnerVars, link>>
    BY <2>1, TakingTyped DEF Taking
  <2>3. PICK silent \in BOOLEAN :
          Says(IF silent THEN <<>>
               ELSE [i \in 1..StatusLength |->
                       IF i > 1 THEN "ZERO"
                       ELSE IF ctl.stored = Blocks THEN "ACK" ELSE "NAK"])
    BY <1>5 DEF CtlCommits
  <2>4. (IF ctl.stored = Blocks THEN "ACK" ELSE "NAK") \in Reply
    BY DEF Reply
  <2>5. fromCtl' \in Seq(Reply)
    BY <2>3, <2>4, SaysTyped, AnswersTyped
  <2>6. /\ ctl' \in Controller
        /\ ctl'.verified => ctl'.stored = Blocks
        /\ ctl'.permanent => ctl'.stored = Blocks
    BY <1>1, <1>5 DEF CtlCommits, Controller
  <2> QED BY <2>2, <2>5, <2>6, CtlTyped
<1>6. CASE CtlAnswersQuery
  <2>1. Taking("query")
    BY <1>6 DEF CtlAnswersQuery
  <2>2. FramesTyped(toCtl') /\ UNCHANGED <<runnerVars, link>>
    BY <2>1, TakingTyped DEF Taking
  <2>3. PICK kept \in BOOLEAN, silent \in BOOLEAN :
          /\ kept => ctl.verified
          /\ ctl' = [ctl EXCEPT !.permanent = kept]
          /\ Says(IF silent THEN <<>>
                  ELSE <<"ACK", IF kept THEN "ZERO" ELSE "OTHER">>)
    BY <1>6 DEF CtlAnswersQuery
  <2>4. (IF kept THEN "ZERO" ELSE "OTHER") \in Reply
    BY DEF Reply
  <2>5. fromCtl' \in Seq(Reply)
    BY <2>3, <2>4, SaysTyped, AnswersTyped
  <2>6. /\ ctl' \in Controller
        /\ ctl'.verified => ctl'.stored = Blocks
        /\ ctl'.permanent => ctl'.stored = Blocks
    BY <1>1, <2>3 DEF Controller
  <2> QED BY <2>2, <2>5, <2>6, CtlTyped
<1>7. CASE CtlTakesUsers \/ CtlEnds
  <2>1. PICK family : Taking(family)
    BY <1>7 DEF CtlTakesUsers, CtlEnds
  <2>2. FramesTyped(toCtl') /\ UNCHANGED <<runnerVars, link>>
    BY <2>1, TakingTyped DEF Taking
  <2>3. fromCtl' = fromCtl
    BY <1>7 DEF CtlTakesUsers, CtlEnds
  <2>4. /\ ctl' \in Controller
        /\ ctl'.verified => ctl'.stored = Blocks
        /\ ctl'.permanent => ctl'.stored = Blocks
    BY <1>1, <1>7, <1>m DEF CtlTakesUsers, CtlEnds
  <2> QED BY <1>1, <2>2, <2>3, <2>4, CtlTyped
<1>8. CASE CtlRestarts
  <2>1. UNCHANGED <<runnerVars, link>> /\ toCtl' = toCtl /\ fromCtl' = fromCtl
    BY <1>8 DEF CtlRestarts, netVars
  <2>2. /\ ctl' \in Controller
        /\ ctl'.verified => ctl'.stored = Blocks
        /\ ctl'.permanent => ctl'.stored = Blocks
    BY <1>8, <1>2 DEF CtlRestarts
  <2> QED BY <1>1, <2>1, <2>2, CtlTyped
<1>9. CASE CtlScans
  <2>1. UNCHANGED <<runnerVars, link>> /\ toCtl' = toCtl /\ ctl' = ctl
    BY <1>9 DEF CtlScans
  <2>2. fromCtl' \in Seq(Reply)
    BY <1>1, <1>9, AppendProperties DEF CtlScans, Reply
  <2> QED BY <1>1, <2>1, <2>2, CtlTyped
<1> QED BY <1>3, <1>4, <1>5, <1>6, <1>7, <1>8, <1>9 DEF ControllerActs

LEMMA TypedStep ==
    ASSUME Typed, [Next]_vars PROVE Typed'
<1>1. CASE UNCHANGED vars
  BY <1>1 DEF vars, Typed, TypeOK
<1>2. CASE Next
  BY <1>2, TypedTick, ReceiveTyped, LinkTyped, ControllerTyped
     DEF Next, Environment, ControllerActs
<1> QED BY <1>1, <1>2

\* Whatever the controller and the link do, the session stays within its
\* counters, its block index within the image, and only blocks of the image
\* are sent, stored, or made permanent.
THEOREM TransferTypeOK == Spec => []TypeOK
<1>1. Typed => TypeOK
  BY DEF Typed
<1> QED BY <1>1, TypedInit, TypedStep, PTL DEF Spec

-----------------------------------------------------------------------------
(* The transfer is a TransferLifecycle *)

\* What every transition of the session has in common, seen from outside.
Moves(next, frames) ==
    /\ next.state \in SessionStates \ {"created"}
    /\ session.state = "created" => frames # <<>> /\ next.state = "compile"
    /\ session.state # "final-status" =>
          next.finalStatusCount = 0 /\ next.state # "completed"
    /\ session.state = "final-status" =>
          /\ frames = <<>>
          /\ next.finalStatusCount = session.finalStatusCount
          /\ next.state \in {"final-status", "completed", "final-status-timeout"}
          /\ next.state = "completed" =>
                session.finalStatusCount = FinalStatusCount

LEMMA OutcomeNames ==
    /\ "completed" \in SessionTerminal /\ "final-status-timeout" \in SessionTerminal
    /\ "none" \notin SessionTerminal /\ "created" \notin SessionTerminal
    /\ "compile" \notin SessionTerminal /\ "final-status" \notin SessionTerminal
    /\ "none" \notin RunnerOutcomes /\ "completed" \notin RunnerOutcomes
BY DEF SessionTerminal, RunnerOutcomes

\* A move of the session keeps the link it has, ...
LEMMA MoveLinked ==
    ASSUME Typed, Linked, Active \/ session.state = "created",
           NEW next, NEW frames, Moves(next, frames),
           NEW why \in RunnerOutcomes, Apply(next, frames, why)
    PROVE  Linked'
<1>1. CASE ApplyFails(next, frames, why)
  BY <1>1, OutcomeNames DEF ApplyFails, Moves, Linked, Active
<1>2. CASE ApplyWrites(next, frames)
  <2>1. /\ session' = next /\ connected' = connected /\ link' = link
        /\ outcome' = IF next.state \in SessionTerminal THEN next.state ELSE "none"
        /\ reconnecting' = (reconnecting /\ next.state \notin SessionTerminal)
        /\ next.state # "created"
    BY <1>2 DEF ApplyWrites, Moves
  <2>2. outcome' = "none" => next.state \notin SessionTerminal
    BY <2>1, OutcomeNames
  <2>3. outcome' = "completed" => next.state = "completed"
    BY <2>1
  <2>4. CASE next.state \in SessionTerminal
    <3>1. outcome' # "none"
      BY <2>1, <2>4, OutcomeNames
    <3> QED BY <2>1, <2>2, <2>3, <3>1 DEF Linked, Active
  <2>5. CASE next.state \notin SessionTerminal
    <3>1. CASE session.state = "final-status"
      BY <2>1, <2>2, <2>3, <2>5, <3>1, OutcomeNames DEF Moves, Linked, Active
    <3>2. CASE session.state = "created"
      <4>1. /\ next.state = "compile" /\ link = "up" /\ connected /\ ~reconnecting
            /\ next.finalStatusCount = 0
        BY <1>2, <3>2 DEF ApplyWrites, Moves, Linked
      <4> QED BY <2>1, <2>5, <4>1, OutcomeNames DEF Linked, Active
    <3>3. CASE session.state \notin {"final-status", "created"}
      BY <2>1, <2>2, <2>3, <2>5, <3>3, OutcomeNames DEF Moves, Linked, Active
    <3> QED BY <3>1, <3>2, <3>3
  <2> QED BY <2>4, <2>5
<1> QED BY <1>1, <1>2, ApplyCases

\* ... and is a step of the lifecycle.
LEMMA MoveLifecycle ==
    ASSUME Typed, Linked, Active \/ session.state = "created",
           NEW next, NEW frames, Moves(next, frames),
           NEW why \in RunnerOutcomes, Apply(next, frames, why)
    PROVE  [Lifecycle!Next]_Lifecycle!vars
<1> USE DEF Lifecycle!vars, Lifecycle!Next
<1>0. /\ outcome = "none"
      /\ session.state # "final-status" => session.finalStatusCount = 0
  BY DEF Linked, Active
<1>1. CASE ApplyFails(next, frames, why)
  <2>1. /\ session.state # "final-status" /\ outcome' = why /\ why # "none"
        /\ why # "completed" /\ connected' = connected
        /\ session'.finalStatusCount = session.finalStatusCount
    BY <1>0, <1>1, OutcomeNames DEF ApplyFails, Moves
  <2>2. Lifecycle!GiveUp
    BY <1>0, <2>1 DEF Lifecycle!GiveUp, Lifecycle!End
  <2> QED BY <2>2
<1>2. CASE ApplyWrites(next, frames)
  <2>1. /\ session' = next /\ connected' = connected
        /\ outcome' = IF next.state \in SessionTerminal THEN next.state ELSE "none"
        /\ next.state # "created"
    BY <1>2 DEF ApplyWrites, Moves
  <2>2. CASE session.state = "created"
    <3>1. /\ next.state = "compile" /\ outcome' = "none"
          /\ next.finalStatusCount = 0
      BY <2>1, <2>2, OutcomeNames DEF Moves
    <3>2. Lifecycle!Begin
      BY <1>0, <2>1, <2>2, <3>1 DEF Lifecycle!Begin
    <3> QED BY <3>2
  <2>3. CASE session.state = "final-status"
    <3>1. /\ next.finalStatusCount = session.finalStatusCount
          /\ next.state \in {"final-status", "completed", "final-status-timeout"}
          /\ next.state = "completed" => session.finalStatusCount = FinalStatusCount
      BY <2>3 DEF Moves
    <3>2. CASE next.state = "final-status"
      BY <1>0, <2>1, <2>3, <3>1, <3>2, OutcomeNames
    <3>3. CASE next.state = "completed"
      <4>1. Lifecycle!Succeed
        BY <1>0, <2>1, <2>3, <3>1, <3>3, OutcomeNames
           DEF Lifecycle!Succeed, Lifecycle!End
      <4> QED BY <4>1
    <3>4. CASE next.state = "final-status-timeout"
      <4>1. Lifecycle!GiveUp
        BY <1>0, <2>1, <2>3, <3>1, <3>4, OutcomeNames
           DEF Lifecycle!GiveUp, Lifecycle!End
      <4> QED BY <4>1
    <3> QED BY <3>1, <3>2, <3>3, <3>4
  <2>4. CASE session.state \notin {"created", "final-status"}
    <3>1. /\ next.finalStatusCount = 0 /\ session.finalStatusCount = 0
          /\ next.state # "completed"
      BY <1>0, <2>4 DEF Moves
    <3>2. CASE next.state \in SessionTerminal
      <4>1. outcome' # "none" /\ outcome' # "completed"
        BY <2>1, <3>1, <3>2, OutcomeNames
      <4>2. Lifecycle!GiveUp
        BY <1>0, <2>1, <2>4, <3>1, <4>1 DEF Lifecycle!GiveUp, Lifecycle!End
      <4> QED BY <4>2
    <3>3. CASE next.state = "final-status"
      <4>1. Lifecycle!AwaitReset
        BY <1>0, <2>1, <2>4, <3>1, <3>3, OutcomeNames DEF Lifecycle!AwaitReset
      <4> QED BY <4>1
    <3>4. CASE next.state \notin SessionTerminal \cup {"final-status"}
      BY <1>0, <2>1, <2>4, <3>1, <3>4
    <3> QED BY <3>2, <3>3, <3>4
  <2> QED BY <2>2, <2>3, <2>4
<1> QED BY <1>1, <1>2, ApplyCases

\* Every tick is such a move, a wait or the end.
LEMMA TickLifecycle ==
    ASSUME Typed, Linked, Start \/ Tick
    PROVE  Linked' /\ [Lifecycle!Next]_Lifecycle!vars
<1> USE ConfigTransferAssumption
<1>1. /\ session \in Session /\ session.finalStatusCount \in 0..FinalStatusCount
      /\ session.state \in SessionStates /\ FinalStatusCount \in Nat
  BY DEF Typed, TypeOK, Session
<1>2. Active /\ session.state # "final-status" => session.finalStatusCount = 0
  BY DEF Linked, Active
<1>3. \A x \in {"compile", "handshake", "settle", "block-gap",
                "block-ack", "post-image", "post-image-status", "f9-ack",
                "user-transfer", "final-status", "failed", "aborted", "completed",
                "connection-timeout", "post-image-timeout", "f9-timeout",
                "final-status-timeout"} :
         x \in SessionStates \ {"created"}
  BY DEF SessionStates, SessionTerminal
<1>4. {"transport-write-failed", "invalid-controller-reply"}
        \subseteq RunnerOutcomes
  BY DEF RunnerOutcomes
<1>s. ASSUME NEW next, NEW frames, Moves(next, frames), Step(next, frames), Active
      PROVE  Linked' /\ [Lifecycle!Next]_Lifecycle!vars
  BY <1>s, <1>4, MoveLinked, MoveLifecycle DEF Step
\* The states that still write.
<1>w. ASSUME NEW next, NEW frames, Step(next, frames), Active,
             session.state # "final-status",
             next.state \in SessionStates \ {"created", "completed"},
             next.finalStatusCount = 0
      PROVE  Linked' /\ [Lifecycle!Next]_Lifecycle!vars
  <2>1. Moves(next, frames)
    BY <1>w DEF Moves, Active
  <2> QED BY <1>s, <1>w, <2>1
<1> USE DEF Session
<1>a. CASE Start
  <2> DEFINE next == [session EXCEPT !.state = "compile"]
  <2>1. next.state = "compile" /\ next.finalStatusCount = 0
    BY <1>a, <1>1 DEF Start, Linked
  <2>2. session.state = "created" /\ Apply(next, <<F("setup")>>, "transport-write-failed")
    BY <1>a DEF Start
  <2> HIDE DEF next
  <2>3. Moves(next, <<F("setup")>>)
    BY <1>3, <2>1, <2>2 DEF Moves
  <2> QED BY <1>4, <2>2, <2>3, MoveLinked, MoveLifecycle
<1>b. CASE WaitTick
  <2> DEFINE next == [session EXCEPT !.timeout = @ + 1]
  <2>1. next.state = session.state /\ next.finalStatusCount = session.finalStatusCount
    BY <1>1
  <2>2. Active /\ Step(next, <<>>)
        /\ session.state \in {"handshake", "block-ack", "post-image-status",
                             "f9-ack", "final-status"}
    BY <1>b DEF WaitTick, Ticks, Waiting
  <2> HIDE DEF next
  <2>3. Moves(next, <<>>)
    BY <1>1, <1>2, <1>3, <2>1, <2>2 DEF Moves
  <2> QED BY <1>s, <2>2, <2>3
<1>f. CASE InvalidReply
  <2>1. /\ Active /\ session.state # "final-status"
        /\ Fail(session, "invalid-controller-reply")
    BY <1>f DEF InvalidReply, ConsumesReply
  <2>2. Linked'
    BY <2>1, OutcomeNames DEF Fail, Linked, Active
  <2>3. Lifecycle!GiveUp
    BY <2>1 DEF Fail, Active, Lifecycle!GiveUp, Lifecycle!End
  <2> QED BY <2>2, <2>3 DEF Lifecycle!Next
<1>q. CASE FinalTick
  <2> DEFINE done == [session EXCEPT !.timeout = @ + 1, !.state = "completed"]
             gone == [session EXCEPT !.timeout = @ + 1,
                                     !.state = "final-status-timeout"]
  <2>1. /\ done.state = "completed" /\ gone.state = "final-status-timeout"
        /\ done.finalStatusCount = session.finalStatusCount
        /\ gone.finalStatusCount = session.finalStatusCount
    BY <1>1
  <2> HIDE DEF done, gone
  <2>2. /\ Active /\ session.state = "final-status"
        /\ \/ /\ session.finalStatusCount >= FinalStatusCount
              /\ Step(done, <<>>)
           \/ Step(gone, <<>>)
    BY <1>q DEF FinalTick, Ticks, done, gone
  <2>3. CASE session.finalStatusCount >= FinalStatusCount /\ Step(done, <<>>)
    <3>1. session.finalStatusCount = FinalStatusCount
      BY SMTT(40), <1>1, <2>3
    <3>2. Moves(done, <<>>)
      BY <1>3, <2>1, <2>2, <3>1 DEF Moves
    <3> QED BY <1>s, <2>2, <2>3, <3>2
  <2>4. CASE Step(gone, <<>>)
    <3>1. Moves(gone, <<>>)
      BY <1>3, <2>1, <2>2 DEF Moves
    <3> QED BY <1>s, <2>2, <2>4, <3>1
  <2> QED BY <2>2, <2>3, <2>4
<1>c. CASE CompileTick
  <2> DEFINE next == [session EXCEPT !.state = "handshake"]
  <2>1. Active /\ session.state = "compile" /\ session.finalStatusCount = 0
    BY <1>c, <1>2 DEF CompileTick
  <2>2. /\ next.state = "handshake" /\ next.finalStatusCount = 0
    BY <1>1, <2>1
  <2> HIDE DEF next
  <2>3. Step(next, <<F("prepare")>>)
    BY <1>c DEF CompileTick, next
  <2> QED BY <1>3, <1>w, <2>1, <2>2, <2>3
<1>d. CASE HandshakeTimeout
  <2> DEFINE gone == [session EXCEPT !.timeout = 0, !.state = "connection-timeout"]
             again == [session EXCEPT !.timeout = 0, !.retry = @ + 1]
  <2>1. Active /\ session.state = "handshake" /\ session.finalStatusCount = 0
    BY <1>d, <1>2 DEF HandshakeTimeout, Ticks
  <2>2. /\ gone.state = "connection-timeout" /\ gone.finalStatusCount = 0
        /\ again.state = session.state /\ again.finalStatusCount = 0
    BY <1>1, <2>1
  <2> HIDE DEF gone, again
  <2>3. \/ Step(gone, <<F("abort")>>)
        \/ Step(again, <<F("prepare")>>)
    BY <1>d DEF HandshakeTimeout, Ticks, gone, again
  <2> QED BY <1>3, <1>w, <2>1, <2>2, <2>3
<1>e. CASE HandshakeAck
  <2> DEFINE next == [session EXCEPT !.state = "settle", !.timeout = 0, !.retry = 0]
  <2>1. Active /\ session.state = "handshake" /\ session.finalStatusCount = 0
    BY <1>e, <1>2 DEF HandshakeAck, ConsumesReply
  <2>2. /\ next.state = "settle" /\ next.finalStatusCount = 0
    BY <1>1, <2>1
  <2> HIDE DEF next
  <2>3. Step(next, <<>>)
    BY <1>e DEF HandshakeAck, ConsumesReply, next
  <2> QED BY <1>3, <1>w, <2>1, <2>2, <2>3
<1>g. CASE SettleTick
  <2> DEFINE out == [session EXCEPT !.settle = @ + 1, !.timeout = 0, !.state = "block-ack"]
             next == [session EXCEPT !.settle = @ + 1]
  <2>1. Active /\ session.state = "settle" /\ session.finalStatusCount = 0
    BY <1>g, <1>2 DEF SettleTick, Ticks
  <2>2. /\ out.state = "block-ack" /\ out.finalStatusCount = 0
        /\ next.state = session.state /\ next.finalStatusCount = 0
    BY <1>1, <2>1
  <2> HIDE DEF out, next
  <2>3. \/ Step(out, BlockAttempt)
        \/ Step(next, <<>>)
    BY <1>g DEF SettleTick, Ticks, out, next
  <2> QED BY <1>3, <1>w, <2>1, <2>2, <2>3
<1>h. CASE BlockGapTick
  <2> DEFINE next == [session EXCEPT !.timeout = 0, !.state = "block-ack"]
  <2>1. Active /\ session.state = "block-gap" /\ session.finalStatusCount = 0
    BY <1>h, <1>2 DEF BlockGapTick, Ticks
  <2>2. /\ next.state = "block-ack" /\ next.finalStatusCount = 0
    BY <1>1, <2>1
  <2> HIDE DEF next
  <2>3. Step(next, BlockAttempt)
    BY <1>h DEF BlockGapTick, Ticks, next
  <2> QED BY <1>3, <1>w, <2>1, <2>2, <2>3
<1>i. CASE BlockAck
  <2> DEFINE out == [session EXCEPT !.state = "post-image", !.timeout = 0, !.retry = 0]
             next == [session EXCEPT !.state = "block-gap", !.timeout = 0, !.retry = 0,
                                     !.blockIndex = @ + 1]
  <2>1. Active /\ session.state = "block-ack" /\ session.finalStatusCount = 0
    BY <1>i, <1>2 DEF BlockAck, AckedBlock, ConsumesReply
  <2>2. /\ out.state = "post-image" /\ out.finalStatusCount = 0
        /\ next.state = "block-gap" /\ next.finalStatusCount = 0
    BY <1>1, <2>1
  <2> HIDE DEF out, next
  <2>3. \/ Step(out, <<>>)
        \/ Step(next, <<>>)
    BY <1>i DEF BlockAck, AckedBlock, ConsumesReply, out, next
  <2> QED BY <1>3, <1>w, <2>1, <2>2, <2>3
<1>j. CASE BlockNak \/ BlockTimesOut
  <2> DEFINE gone == [session EXCEPT !.timeout = 0, !.state = "aborted"]
             again == [session EXCEPT !.timeout = 0, !.retry = @ + 1]
  <2>1. Active /\ session.state = "block-ack" /\ session.finalStatusCount = 0
    BY <1>j, <1>2 DEF BlockNak, BlockTimesOut, ConsumesReply, Ticks
  <2>2. /\ gone.state = "aborted" /\ gone.finalStatusCount = 0
        /\ again.state = session.state /\ again.finalStatusCount = 0
    BY <1>1, <2>1
  <2> HIDE DEF gone, again
  <2>3. \/ Step(gone, <<F("abort")>>)
        \/ Step(again, BlockAttempt)
    BY <1>j DEF BlockNak, BlockTimesOut, ConsumesReply, Ticks, RetryOrAbort, gone, again
  <2> QED BY <1>3, <1>w, <2>1, <2>2, <2>3
<1>k. CASE CommitTick
  <2> DEFINE next == [session EXCEPT !.state = "post-image-status", !.timeout = 0]
  <2>1. Active /\ session.state = "post-image" /\ session.finalStatusCount = 0
    BY <1>k, <1>2 DEF CommitTick, Ticks
  <2>2. /\ next.state = "post-image-status" /\ next.finalStatusCount = 0
    BY <1>1, <2>1
  <2> HIDE DEF next
  <2>3. Step(next, <<F("commit")>>)
    BY <1>k DEF CommitTick, Ticks, next
  <2> QED BY <1>3, <1>w, <2>1, <2>2, <2>3
<1>l. CASE PostImageReply
  <2> DEFINE next == [session EXCEPT !.state = "f9-ack", !.timeout = 0]
             gone == [session EXCEPT !.state = "failed"]
  <2>1. Active /\ session.state = "post-image-status" /\ session.finalStatusCount = 0
    BY <1>l, <1>2 DEF PostImageReply, ConsumesReply
  <2>2. /\ next.state = "f9-ack" /\ next.finalStatusCount = 0
        /\ gone.state = "failed" /\ gone.finalStatusCount = 0
    BY <1>1, <2>1
  <2> HIDE DEF next, gone
  <2>3. \/ Step(next, <<F("query")>>)
        \/ Step(gone, <<F("abort")>>)
    BY <1>l DEF PostImageReply, ConsumesReply, next, gone
  <2> QED BY <1>3, <1>w, <2>1, <2>2, <2>3
<1>m. CASE PostImageTimesOut
  <2> DEFINE gone == [session EXCEPT !.timeout = @ + 1, !.state = "post-image-timeout"]
  <2>1. Active /\ session.state = "post-image-status" /\ session.finalStatusCount = 0
    BY <1>m, <1>2 DEF PostImageTimesOut, Ticks
  <2>2. /\ gone.state = "post-image-timeout" /\ gone.finalStatusCount = 0
    BY <1>1, <2>1
  <2> HIDE DEF gone
  <2>3. Step(gone, <<F("abort")>>)
    BY <1>m DEF PostImageTimesOut, Ticks, gone
  <2> QED BY <1>3, <1>w, <2>1, <2>2, <2>3
<1>n. CASE F9Reply
  <2> DEFINE next == [session EXCEPT !.state = "user-transfer", !.timeout = 1]
             gone == [session EXCEPT !.state = "failed"]
  <2>1. Active /\ session.state = "f9-ack" /\ session.finalStatusCount = 0
    BY <1>n, <1>2 DEF F9Reply, ConsumesReply
  <2>2. /\ next.state = "user-transfer" /\ next.finalStatusCount = 0
        /\ gone.state = "failed" /\ gone.finalStatusCount = 0
    BY <1>1, <2>1
  <2> HIDE DEF next, gone
  <2>3. \/ Step(next, <<F("begin-users")>>)
        \/ Step(gone, <<F("reset")>>)
    BY <1>n DEF F9Reply, ConsumesReply, next, gone
  <2> QED BY <1>3, <1>w, <2>1, <2>2, <2>3
<1>o. CASE F9TimesOut
  <2> DEFINE gone == [session EXCEPT !.timeout = @ + 1, !.state = "f9-timeout"]
  <2>1. Active /\ session.state = "f9-ack" /\ session.finalStatusCount = 0
    BY <1>o, <1>2 DEF F9TimesOut, Ticks
  <2>2. /\ gone.state = "f9-timeout" /\ gone.finalStatusCount = 0
    BY <1>1, <2>1
  <2> HIDE DEF gone
  <2>3. Step(gone, <<F("reset")>>)
    BY <1>o DEF F9TimesOut, Ticks, gone
  <2> QED BY <1>3, <1>w, <2>1, <2>2, <2>3
<1>p. CASE UserTick
  <2> DEFINE next == [session EXCEPT !.userIndex = @ + 1]
             last == [session EXCEPT !.state = "final-status", !.timeout = 0,
                                     !.finalStatusCount = 0]
  <2>1. Active /\ session.state = "user-transfer" /\ session.finalStatusCount = 0
    BY <1>p, <1>2 DEF UserTick, Ticks
  <2>2. /\ next.state = session.state /\ next.finalStatusCount = 0
        /\ last.state = "final-status" /\ last.finalStatusCount = 0
    BY <1>1, <2>1
  <2> HIDE DEF next, last
  <2>3. \/ Step(next, <<<<"user", session.userIndex>>>>)
        \/ Step(last, <<F("all-users")>>)
    BY <1>p DEF UserTick, Ticks, next, last
  <2> QED BY <1>3, <1>w, <2>1, <2>2, <2>3
<1> QED
  BY <1>a, <1>b, <1>c, <1>d, <1>e, <1>f, <1>g, <1>h, <1>i, <1>j, <1>k, <1>l,
     <1>m, <1>n, <1>o, <1>p, <1>q DEF Tick

\* The runner's and the link's own events.
LEMMA EventLifecycle ==
    ASSUME Typed, Linked,
           Receive \/ LinkDrops \/ LinkCloses \/ ReconnectTimer \/ LinkOpens
             \/ LinkRefused \/ Cancel
    PROVE  Linked' /\ [Lifecycle!Next]_Lifecycle!vars
<1> USE DEF Lifecycle!vars, Lifecycle!Next
<1>1. /\ session \in Session /\ session.finalStatusCount \in 0..FinalStatusCount
      /\ FinalStatusCount \in Nat
  BY ConfigTransferAssumption DEF Typed, TypeOK, Session
<1>a. CASE Receive
  <2>0. UNCHANGED <<connected, reconnecting, outcome, link>> /\ link = "up"
    BY <1>a DEF Receive
  <2>1. CASE ~(Active /\ session.state = "final-status")
    <3>1. session' = session
      BY <1>a, <2>1 DEF Receive
    <3> QED BY <2>0, <3>1 DEF Linked, Active
  <2>2. CASE Active /\ session.state = "final-status"
    <3>1. PICK n \in 1..Len(fromCtl) :
            LET count == session.finalStatusCount
                           + StatusesIn(SubSeq(fromCtl, 1, n)) IN
            session' = [session EXCEPT !.finalStatusCount =
                         IF count > FinalStatusCount THEN FinalStatusCount
                         ELSE count]
      BY <1>a, <2>2 DEF Receive
    <3> DEFINE heardNow == StatusesIn(SubSeq(fromCtl, 1, n))
               capped == IF session.finalStatusCount + heardNow > FinalStatusCount
                         THEN FinalStatusCount
                         ELSE session.finalStatusCount + heardNow
    <3>2. heardNow \in Nat
      <4>1. fromCtl \in Seq(Reply)
        BY DEF Typed, TypeOK
      <4> QED BY <4>1, SplitReplies, StatusesCount
    <3>3. session' = [session EXCEPT !.finalStatusCount = capped]
      BY <3>1
    <3> HIDE DEF heardNow
    <3>4. capped = session.finalStatusCount
          \/ capped \in session.finalStatusCount + 1 .. FinalStatusCount
      BY <1>1, <3>2
    <3> HIDE DEF capped
    <3>5. session'.state = session.state /\ session'.finalStatusCount = capped
      BY <1>1, <3>3 DEF Session
    <3>6. Linked'
      BY <2>0, <2>2, <3>5 DEF Linked, Active
    <3>7. connected /\ outcome = "none"
      BY <2>0, <2>2 DEF Linked, Active
    <3>8. CASE capped = session.finalStatusCount
      BY <2>0, <3>5, <3>6, <3>8
    <3>9. CASE capped \in session.finalStatusCount + 1 .. FinalStatusCount
      <4>1. Lifecycle!Hear
        BY <2>0, <2>2, <3>5, <3>7, <3>9 DEF Lifecycle!Hear
      <4> QED BY <3>6, <4>1
    <3> QED BY <3>4, <3>8, <3>9
  <2> QED BY <2>1, <2>2
<1>b. CASE LinkDrops
  BY <1>b DEF LinkDrops, runnerVars, Linked, Active
<1>c. CASE LinkCloses
  <2>1. CASE ~(Active /\ connected)
    <3>1. UNCHANGED <<session, connected, reconnecting, outcome>> /\ link' = "down"
          /\ link = "lost"
      BY <1>c, <2>1 DEF LinkCloses
    <3>2. ~Active
      BY <2>1, <3>1 DEF Linked
    <3> QED BY <3>1, <3>2 DEF Linked, Active
  <2>2. CASE Active /\ connected /\ session.state = "final-status"
    <3>1. /\ connected' = FALSE /\ reconnecting' = TRUE /\ link' = "down"
          /\ UNCHANGED <<session, outcome>>
      BY <1>c, <2>2 DEF LinkCloses
    <3>2. Linked'
      BY <2>2, <3>1 DEF Linked, Active
    <3>3. Lifecycle!Unlink
      BY <2>2, <3>1 DEF Lifecycle!Unlink, Active
    <3> QED BY <3>2, <3>3
  <2>3. CASE Active /\ connected /\ session.state # "final-status"
    <3>1. /\ connected' = FALSE /\ reconnecting' = reconnecting /\ link' = "down"
          /\ session' = [session EXCEPT !.state = "disconnected"]
          /\ outcome' = "unexpected-disconnect"
      BY <1>c, <2>3 DEF LinkCloses
    <3>2. session'.state = "disconnected"
          /\ session'.finalStatusCount = session.finalStatusCount
      BY <1>1, <3>1 DEF Session
    <3>3. Linked'
      BY <3>1, <3>2 DEF Linked, Active
    <3>4. Lifecycle!Unlink
      BY <2>3, <3>1, <3>2 DEF Lifecycle!Unlink, Lifecycle!End, Active
    <3> QED BY <3>3, <3>4
  <2> QED BY <2>1, <2>2, <2>3
<1>d. CASE ReconnectTimer
  BY <1>d DEF ReconnectTimer, Linked, Active
<1>e. CASE LinkOpens
  <2>1. /\ link = "opening" /\ link' = "up"
        /\ connected' = (connected \/ (Active /\ session.state = "final-status"))
        /\ UNCHANGED <<session, reconnecting, outcome>>
    BY <1>e DEF LinkOpens
  <2>2. /\ session.state # "created" /\ connected \in BOOLEAN
        /\ Active => session.state = "final-status"
    BY <2>1 DEF Linked, Typed, TypeOK
  <2>3. Linked'
    BY <2>1, <2>2 DEF Linked, Active
  <2>4. CASE Active /\ ~connected
    <3>1. Lifecycle!Relink
      BY <2>1, <2>2, <2>4 DEF Lifecycle!Relink, Active
    <3> QED BY <2>3, <3>1
  <2>5. CASE ~(Active /\ ~connected)
    <3>1. connected' = connected
      BY <2>1, <2>2, <2>5
    <3> QED BY <2>1, <2>3, <3>1
  <2> QED BY <2>4, <2>5
<1>f. CASE LinkRefused
  <2>1. /\ link = "opening" /\ link' = "down"
        /\ reconnecting' = (Active /\ ~connected)
        /\ UNCHANGED <<session, connected, outcome>>
    BY <1>f DEF LinkRefused
  <2>2. session.state # "created" /\ (Active => session.state = "final-status")
    BY <2>1 DEF Linked
  <2> QED BY <2>1, <2>2 DEF Linked, Active
<1>g. CASE Cancel
  <2>1. /\ Active /\ session' = [session EXCEPT !.state = "cancelled"]
        /\ outcome' = "cancelled" /\ connected' = connected
    BY <1>g DEF Cancel, Fail
  <2>2. session'.state = "cancelled"
        /\ session'.finalStatusCount = session.finalStatusCount
    BY <1>1, <2>1 DEF Session
  <2>3. Linked'
    BY <2>1, <2>2 DEF Linked, Active
  <2>4. Lifecycle!GiveUp
    BY <2>1, <2>2 DEF Lifecycle!GiveUp, Lifecycle!End, Active
  <2> QED BY <2>3, <2>4
<1> QED BY <1>a, <1>b, <1>c, <1>d, <1>e, <1>f, <1>g

\* The controller's steps leave the runner and the link alone.
LEMMA ControllerLeavesRunner ==
    ASSUME ControllerActs
    PROVE  UNCHANGED <<session, replyBuffer, connected, reconnecting, outcome, link>>
BY DEF ControllerActs, CtlPrepares, CtlTakesBlock, CtlCommits, CtlAnswersQuery,
       CtlTakesUsers, CtlEnds, CtlRestarts, CtlScans, Taking, runnerVars, netVars

\* So every step of a transfer is a step of the lifecycle or none.
LEMMA LifecycleStep ==
    ASSUME Typed, Linked, [Next]_vars
    PROVE  Linked' /\ [Lifecycle!Next]_Lifecycle!vars
<1>1. CASE UNCHANGED <<session, replyBuffer, connected, reconnecting, outcome, link>>
  BY <1>1 DEF Linked, Active, Lifecycle!vars
<1>2. CASE UNCHANGED vars
  BY <1>1, <1>2 DEF vars
<1>3. CASE Next
  BY <1>1, <1>3, TickLifecycle, EventLifecycle, ControllerLeavesRunner
     DEF Next, Environment, ControllerActs
<1> QED BY <1>2, <1>3

LEMMA LifecycleInit ==
    ASSUME Init PROVE Linked /\ Lifecycle!Init
BY OutcomeNames DEF Init, Linked, Active, Lifecycle!Init

\* A transfer keeps what TransferLifecycle promises: it writes only over a
\* link it has not lost, it loses the link once and without a result only in
\* the reset wait, and it succeeds only from there, after FinalStatusCount
\* status records (transfer-runner.mjs disconnected(), reconnected(), apply()).
THEOREM TransferKeepsLifecycle == Spec => KeepsLifecycle
<1>1. Init => Typed /\ Linked /\ Lifecycle!Init
  BY TypedInit, LifecycleInit
<1>2. Typed /\ Linked /\ [Next]_vars =>
        Typed' /\ Linked' /\ [Lifecycle!Next]_Lifecycle!vars
  BY TypedStep, LifecycleStep
<1> QED BY <1>1, <1>2, PTL DEF Spec, KeepsLifecycle, Lifecycle!Spec

\* What follows from the lifecycle alone.
LifecycleInv ==
    /\ Lifecycle!WritesAreLinked
    /\ Lifecycle!SuccessIsHeard
    /\ session.state = "created" /\ outcome = "none" => connected

LEMMA LifecycleSafe ==
    Lifecycle!Spec => [](Lifecycle!WritesAreLinked /\ Lifecycle!SuccessIsHeard)
<1> USE OutcomeNames DEF LifecycleInv, Lifecycle!WritesAreLinked, Lifecycle!SuccessIsHeard
<1>1. Lifecycle!Init => LifecycleInv
  BY DEF Lifecycle!Init
<1>2. LifecycleInv /\ [Lifecycle!Next]_Lifecycle!vars => LifecycleInv'
  <2> SUFFICES ASSUME LifecycleInv, [Lifecycle!Next]_Lifecycle!vars PROVE LifecycleInv'
    OBVIOUS
  <2>1. CASE Lifecycle!Begin
    BY <2>1 DEF Lifecycle!Begin
  <2>2. CASE Lifecycle!AwaitReset
    BY <2>2 DEF Lifecycle!AwaitReset
  <2>3. CASE Lifecycle!Hear
    BY <2>3 DEF Lifecycle!Hear
  <2>4. CASE Lifecycle!Unlink
    BY <2>4 DEF Lifecycle!Unlink, Lifecycle!End
  <2>5. CASE Lifecycle!Relink
    BY <2>5 DEF Lifecycle!Relink
  <2>6. CASE Lifecycle!Succeed
    BY <2>6 DEF Lifecycle!Succeed, Lifecycle!End
  <2>7. CASE Lifecycle!GiveUp
    BY <2>7 DEF Lifecycle!GiveUp, Lifecycle!End
  <2>8. CASE UNCHANGED Lifecycle!vars
    BY <2>8 DEF Lifecycle!vars
  <2> QED
    BY <2>1, <2>2, <2>3, <2>4, <2>5, <2>6, <2>7, <2>8 DEF Lifecycle!Next
<1> QED BY <1>1, <1>2, PTL DEF Lifecycle!Spec

\* A transfer that still writes has its link (transfer-runner.mjs, where
\* disconnected() returns early for the reset wait only), and it reports success
\* only with FinalStatusCount normal status records.
THEOREM TransferLifecycleSafe ==
    Spec => [](Lifecycle!WritesAreLinked /\ Lifecycle!SuccessIsHeard)
BY TransferKeepsLifecycle, LifecycleSafe DEF KeepsLifecycle

-----------------------------------------------------------------------------
(* The transitions of a transfer that goes on, as a table *)

\* The transfer has ended without success.
Ends ==
    /\ outcome' \notin {"none", "completed"} /\ ctl' = ctl
    /\ \/ toCtl' \in {<<>>, toCtl}
       \/ \E family \in {"abort", "reset"} : toCtl' = toCtl \o <<F(family)>>

Goes(from, to, frames) ==
    /\ outcome = "none" /\ outcome' = "none"
    /\ session.state = from /\ session'.state = to
    /\ toCtl' = toCtl \o frames /\ (frames = <<>> \/ link = "up")
    /\ UNCHANGED <<link, fromCtl, ctl>>

SameCounters ==
    session'.retry = session.retry /\ session'.blockIndex = session.blockIndex

Retries(max) ==
    /\ session.retry + 1 <= max /\ session'.retry = session.retry + 1
    /\ session'.blockIndex = session.blockIndex

WaitRow ==
    /\ SameCounters /\ UNCHANGED replyBuffer
    /\ \E state \in Waiting \cup {"settle"} : Goes(state, state, <<>>)

HandshakeRow ==
    \/ /\ Goes("created", "compile", <<F("setup")>>)
       /\ SameCounters /\ UNCHANGED replyBuffer
    \/ /\ Goes("compile", "handshake", <<F("prepare")>>)
       /\ SameCounters /\ replyBuffer' = <<>>
    \/ /\ Goes("handshake", "handshake", <<F("prepare")>>)
       /\ Retries(MaxConnectionRetries) /\ UNCHANGED replyBuffer
    \/ /\ Goes("handshake", "settle", <<>>)
       /\ IsBlockReply("ACK") /\ replyBuffer' = <<>>
       /\ session'.retry = 0 /\ session'.blockIndex = session.blockIndex

BlockRow ==
    \/ /\ \E from \in {"settle", "block-gap"} :
             Goes(from, "block-ack", BlockAttempt)
       /\ SameCounters /\ UNCHANGED replyBuffer
    \/ /\ Goes("block-ack", "block-ack", BlockAttempt)
       /\ Retries(MaxBlockRetries)
       /\ replyBuffer' = replyBuffer
            \/ (Len(replyBuffer) = 1 /\ replyBuffer' = <<>>)
    \/ /\ Goes("block-ack", "block-gap", <<>>)
       /\ Len(replyBuffer) = 1 /\ replyBuffer' = <<>>
       /\ session'.retry = 0 /\ session'.blockIndex = session.blockIndex + 1
    \/ /\ Goes("block-ack", "post-image", <<>>)
       /\ Len(replyBuffer) = 1 /\ replyBuffer' = <<>>
       /\ session.blockIndex + 1 = BlockCount

CommitRow ==
    \/ /\ Goes("post-image", "post-image-status", <<F("commit")>>)
       /\ UNCHANGED replyBuffer
    \/ /\ Goes("post-image-status", "f9-ack", <<F("query")>>)
       /\ Len(replyBuffer) >= StatusLength /\ replyBuffer' = <<>>
    \/ /\ Goes("f9-ack", "user-transfer", <<F("begin-users")>>)
       /\ Len(replyBuffer) >= 2
       /\ replyBuffer[1] = "ACK" /\ replyBuffer[2] = "ZERO"
    \/ Goes("user-transfer", "user-transfer",
            <<<<"user", session.userIndex>>>>)
    \/ Goes("user-transfer", "final-status", <<F("all-users")>>)
    \/ /\ outcome = "none" /\ outcome' = "completed"
       /\ session.state = "final-status" /\ session'.state = "completed"
       /\ UNCHANGED <<toCtl, ctl>>

\* A transition to a state that is not final writes its frames or ends the
\* transfer.
LEMMA ApplyGoes ==
    ASSUME NEW next, NEW frames, NEW why \in RunnerOutcomes,
           Apply(next, frames, why), outcome = "none", UNCHANGED ctl,
           next.state \notin SessionTerminal
    PROVE  Ends \/ (Goes(session.state, next.state, frames) /\ session' = next)
<1>1. CASE ApplyFails(next, frames, why)
  BY <1>1, OutcomeNames DEF ApplyFails, Ends
<1>2. CASE ApplyWrites(next, frames)
  BY <1>2 DEF ApplyWrites, Goes
<1> QED BY <1>1, <1>2, ApplyCases

\* A transition to a failure ends it.
LEMMA ApplyEnds ==
    ASSUME Typed, NEW next, NEW why \in RunnerOutcomes, UNCHANGED ctl,
           next.state \in SessionTerminal \ {"completed"},
           \/ Apply(next, <<>>, why)
           \/ \E family \in {"abort", "reset"} : Apply(next, <<F(family)>>, why)
    PROVE  Ends
<1>1. toCtl \o <<>> = toCtl
  BY ConcatEmptySeq DEF Typed, TypeOK
<1>2. CASE Apply(next, <<>>, why)
  BY <1>1, <1>2, ApplyCases, OutcomeNames DEF ApplyFails, ApplyWrites, Ends
<1>3. ASSUME NEW family \in {"abort", "reset"}, Apply(next, <<F(family)>>, why)
      PROVE  Ends
  <2>1. CASE ApplyFails(next, <<F(family)>>, why)
    BY <2>1, OutcomeNames DEF ApplyFails, Ends
  <2>2. CASE ApplyWrites(next, <<F(family)>>)
    <3>1. toCtl' = toCtl \o <<F(family)>> /\ outcome' = next.state /\ ctl' = ctl
      BY <2>2 DEF ApplyWrites
    <3> QED BY <3>1, OutcomeNames DEF Ends
  <2> QED BY <1>3, <2>1, <2>2, ApplyCases
<1> QED BY <1>2, <1>3

\* The table is complete: a tick is one of its rows.
LEMMA TickRow ==
    ASSUME Typed, Linked, Start \/ Tick
    PROVE  Ends \/ WaitRow \/ HandshakeRow \/ BlockRow \/ CommitRow
<1> USE ConfigTransferAssumption
<1>1. session \in Session
  BY DEF Typed, TypeOK
<1>2. \A x \in {"compile", "handshake", "settle", "block-gap",
                "block-ack", "post-image", "post-image-status", "f9-ack",
                "user-transfer", "final-status"} : x \notin SessionTerminal
  BY DEF SessionTerminal
<1>3. \A x \in {"failed", "aborted", "connection-timeout", "post-image-timeout",
                "f9-timeout", "final-status-timeout"} :
         x \in SessionTerminal \ {"completed"}
  BY DEF SessionTerminal
<1>4. {"transport-write-failed", "invalid-controller-reply"}
        \subseteq RunnerOutcomes
  BY DEF RunnerOutcomes
<1>5. session.retry \in Nat /\ MaxConnectionRetries \in Nat
      /\ MaxBlockRetries \in Nat
  BY <1>1 DEF Session
<1>go. ASSUME NEW next, NEW frames, Step(next, frames), UNCHANGED ctl, Active,
             next.state \notin SessionTerminal
      PROVE  Ends \/ (Goes(session.state, next.state, frames) /\ session' = next)
  BY <1>go, <1>4, ApplyGoes DEF Step, Active
<1>en. ASSUME NEW next, UNCHANGED ctl, next.state \in SessionTerminal \ {"completed"},
             \/ Step(next, <<>>)
             \/ \E family \in {"abort", "reset"} : Step(next, <<F(family)>>)
      PROVE  Ends
  BY <1>en, <1>4, ApplyEnds DEF Step
<1> USE DEF Session
<1>a. CASE Start
  <2> DEFINE next == [session EXCEPT !.state = "compile"]
  <2>1. /\ next.state = "compile" /\ next.retry = session.retry
        /\ next.blockIndex = session.blockIndex
    BY <1>1
  <2> HIDE DEF next
  <2>2. /\ session.state = "created" /\ outcome = "none"
        /\ Apply(next, <<F("setup")>>, "transport-write-failed")
        /\ UNCHANGED <<replyBuffer, ctl>>
    BY <1>a DEF Start, Linked, next
  <2>3. Ends \/ (Goes("created", "compile", <<F("setup")>>) /\ session' = next)
    BY <1>2, <1>4, <2>1, <2>2, ApplyGoes
  <2> QED BY <2>1, <2>2, <2>3 DEF HandshakeRow, SameCounters
<1>b. CASE WaitTick
  <2> DEFINE next == [session EXCEPT !.timeout = @ + 1]
  <2>1. /\ next.state = session.state /\ next.retry = session.retry
        /\ next.blockIndex = session.blockIndex
    BY <1>1
  <2> HIDE DEF next
  <2>2. /\ Active /\ Step(next, <<>>) /\ UNCHANGED <<replyBuffer, ctl>>
        /\ session.state \in Waiting
    BY <1>b DEF WaitTick, Ticks, next
  <2>3. next.state \notin SessionTerminal
    BY <1>2, <2>1, <2>2 DEF Waiting
  <2>4. Ends \/ (Goes(session.state, session.state, <<>>) /\ session' = next)
    BY <1>go, <2>1, <2>2, <2>3
  <2> QED BY <2>1, <2>2, <2>4 DEF WaitRow, SameCounters
<1>f. CASE InvalidReply
  <2>1. Fail(session, "invalid-controller-reply") /\ UNCHANGED ctl
    BY <1>f DEF InvalidReply, ConsumesReply
  <2> QED BY <2>1 DEF Fail, Ends
<1>c. CASE CompileTick
  <2>0. Active /\ session.state = "compile" /\ UNCHANGED ctl
    BY <1>c DEF CompileTick
  <2> DEFINE next == [session EXCEPT !.state = "handshake"]
  <2>1. /\ next.state = "handshake"
        /\ next.retry = session.retry
        /\ next.blockIndex = session.blockIndex
    BY <1>1, <1>5, <2>0
  <2> HIDE DEF next
  <2>2. /\ Step(next, <<F("prepare")>>)
        /\ replyBuffer' = <<>>
    BY <1>c, <2>0 DEF CompileTick, next
  <2>3. Ends \/ (Goes("compile", "handshake", <<F("prepare")>>) /\ session' = next)
    BY <1>2, <1>go, <2>0, <2>1, <2>2
  <2> QED BY <2>1, <2>2, <2>3 DEF HandshakeRow, SameCounters
<1>d. CASE HandshakeTimeout
  <2>0. Active /\ session.state = "handshake" /\ UNCHANGED ctl
    BY <1>d DEF HandshakeTimeout, Ticks
  <2>1. CASE session.retry >= MaxConnectionRetries
    <3> DEFINE gone == [session EXCEPT !.timeout = 0, !.state = "connection-timeout"]
    <3>1. gone.state = "connection-timeout"
      BY <1>1, <2>0
    <3> HIDE DEF gone
    <3>2. Step(gone, <<F("abort")>>)
      BY <1>d, <2>1 DEF HandshakeTimeout, Ticks, gone
    <3> QED BY <1>3, <1>en, <2>0, <3>1, <3>2
  <2>2. CASE ~(session.retry >= MaxConnectionRetries)
    <3> DEFINE next == [session EXCEPT !.timeout = 0, !.retry = @ + 1]
    <3>1. /\ next.state = "handshake"
          /\ next.retry = session.retry + 1
          /\ next.blockIndex = session.blockIndex
          /\ session.retry + 1 <= MaxConnectionRetries
      BY <1>1, <1>5, <2>0, <2>2
    <3> HIDE DEF next
    <3>2. /\ Step(next, <<F("prepare")>>)
          /\ UNCHANGED replyBuffer
      BY <1>d, <2>0, <2>2 DEF HandshakeTimeout, Ticks, next
    <3>3. Ends \/ (Goes("handshake", "handshake", <<F("prepare")>>) /\ session' = next)
      BY <1>2, <1>go, <2>0, <3>1, <3>2
    <3> QED BY <3>1, <3>2, <3>3, <2>2 DEF HandshakeRow, Retries
  <2> QED BY <2>1, <2>2
<1>e. CASE HandshakeAck
  <2>0. Active /\ session.state = "handshake" /\ UNCHANGED ctl
    BY <1>e DEF HandshakeAck, ConsumesReply
  <2> DEFINE next == [session EXCEPT !.state = "settle", !.timeout = 0, !.retry = 0]
  <2>1. /\ next.state = "settle"
        /\ next.retry = 0
        /\ next.blockIndex = session.blockIndex
    BY <1>1, <1>5, <2>0
  <2> HIDE DEF next
  <2>2. /\ Step(next, <<>>)
        /\ replyBuffer' = <<>>
        /\ IsBlockReply("ACK")
    BY <1>e, <2>0 DEF HandshakeAck, ConsumesReply, next
  <2>3. Ends \/ (Goes("handshake", "settle", <<>>) /\ session' = next)
    BY <1>2, <1>go, <2>0, <2>1, <2>2
  <2> QED BY <2>1, <2>2, <2>3 DEF HandshakeRow
<1>g. CASE SettleTick
  <2>0. Active /\ session.state = "settle" /\ UNCHANGED ctl
    BY <1>g DEF SettleTick, Ticks
  <2>1. CASE session.settle + 1 = SettleTicks
    <3> DEFINE next == [session EXCEPT !.settle = @ + 1, !.timeout = 0, !.state = "block-ack"]
    <3>1. /\ next.state = "block-ack"
          /\ next.retry = session.retry
          /\ next.blockIndex = session.blockIndex
      BY <1>1, <1>5, <2>0, <2>1
    <3> HIDE DEF next
    <3>2. /\ Step(next, BlockAttempt)
          /\ UNCHANGED replyBuffer
      BY <1>g, <2>0, <2>1 DEF SettleTick, Ticks, next
    <3>3. Ends \/ (Goes("settle", "block-ack", BlockAttempt) /\ session' = next)
      BY <1>2, <1>go, <2>0, <3>1, <3>2
    <3> QED BY <3>1, <3>2, <3>3, <2>1 DEF WaitRow, BlockRow, SameCounters
  <2>2. CASE session.settle + 1 # SettleTicks
    <3> DEFINE next == [session EXCEPT !.settle = @ + 1]
    <3>1. /\ next.state = "settle"
          /\ next.retry = session.retry
          /\ next.blockIndex = session.blockIndex
      BY <1>1, <1>5, <2>0, <2>2
    <3> HIDE DEF next
    <3>2. /\ Step(next, <<>>)
          /\ UNCHANGED replyBuffer
      BY <1>g, <2>0, <2>2 DEF SettleTick, Ticks, next
    <3>3. Ends \/ (Goes("settle", "settle", <<>>) /\ session' = next)
      BY <1>2, <1>go, <2>0, <3>1, <3>2
    <3> QED BY <3>1, <3>2, <3>3, <2>2 DEF WaitRow, BlockRow, SameCounters
  <2> QED BY <2>1, <2>2
<1>h. CASE BlockGapTick
  <2>0. Active /\ session.state = "block-gap" /\ UNCHANGED ctl
    BY <1>h DEF BlockGapTick, Ticks
  <2> DEFINE next == [session EXCEPT !.timeout = 0, !.state = "block-ack"]
  <2>1. /\ next.state = "block-ack"
        /\ next.retry = session.retry
        /\ next.blockIndex = session.blockIndex
    BY <1>1, <1>5, <2>0
  <2> HIDE DEF next
  <2>2. /\ Step(next, BlockAttempt)
        /\ UNCHANGED replyBuffer
    BY <1>h, <2>0 DEF BlockGapTick, Ticks, next
  <2>3. Ends \/ (Goes("block-gap", "block-ack", BlockAttempt) /\ session' = next)
    BY <1>2, <1>go, <2>0, <2>1, <2>2
  <2> QED BY <2>1, <2>2, <2>3 DEF BlockRow, SameCounters
<1>i. CASE BlockAck
  <2>0. Active /\ session.state = "block-ack" /\ UNCHANGED ctl
    BY <1>i DEF BlockAck, AckedBlock, ConsumesReply
  <2>1. CASE session.blockIndex + 1 = BlockCount
    <3> DEFINE next == [session EXCEPT !.state = "post-image", !.timeout = 0, !.retry = 0]
    <3>1. /\ next.state = "post-image"
      BY <1>1, <1>5, <2>0, <2>1
    <3> HIDE DEF next
    <3>2. /\ Step(next, <<>>)
          /\ replyBuffer' = <<>>
          /\ Len(replyBuffer) = 1
      BY <1>i, <2>0, <2>1 DEF BlockAck, AckedBlock, ConsumesReply, IsBlockReply, next
    <3>3. Ends \/ (Goes("block-ack", "post-image", <<>>) /\ session' = next)
      BY <1>2, <1>go, <2>0, <3>1, <3>2
    <3> QED BY <3>1, <3>2, <3>3, <2>1 DEF BlockRow
  <2>2. CASE session.blockIndex + 1 # BlockCount
    <3> DEFINE next == [session EXCEPT !.state = "block-gap", !.timeout = 0, !.retry = 0,
                                     !.blockIndex = @ + 1]
    <3>1. /\ next.state = "block-gap"
          /\ next.retry = 0
          /\ next.blockIndex = session.blockIndex + 1
      BY <1>1, <1>5, <2>0, <2>2
    <3> HIDE DEF next
    <3>2. /\ Step(next, <<>>)
          /\ replyBuffer' = <<>>
          /\ Len(replyBuffer) = 1
      BY <1>i, <2>0, <2>2 DEF BlockAck, AckedBlock, ConsumesReply, IsBlockReply, next
    <3>3. Ends \/ (Goes("block-ack", "block-gap", <<>>) /\ session' = next)
      BY <1>2, <1>go, <2>0, <3>1, <3>2
    <3> QED BY <3>1, <3>2, <3>3, <2>2 DEF BlockRow
  <2> QED BY <2>1, <2>2
<1>j. CASE BlockNak \/ BlockTimesOut
  <2>0. Active /\ session.state = "block-ack" /\ UNCHANGED ctl
    BY <1>j DEF BlockNak, BlockTimesOut, ConsumesReply, Ticks
  <2>1. CASE session.retry >= MaxBlockRetries
    <3> DEFINE gone == [session EXCEPT !.timeout = 0, !.state = "aborted"]
    <3>1. gone.state = "aborted"
      BY <1>1, <2>0
    <3> HIDE DEF gone
    <3>2. Step(gone, <<F("abort")>>)
      BY <1>j, <2>1 DEF BlockNak, BlockTimesOut, ConsumesReply, Ticks, IsBlockReply, RetryOrAbort, gone
    <3> QED BY <1>3, <1>en, <2>0, <3>1, <3>2
  <2>2. CASE ~(session.retry >= MaxBlockRetries)
    <3> DEFINE next == [session EXCEPT !.timeout = 0, !.retry = @ + 1]
    <3>1. /\ next.state = "block-ack"
          /\ next.retry = session.retry + 1
          /\ next.blockIndex = session.blockIndex
          /\ session.retry + 1 <= MaxBlockRetries
      BY <1>1, <1>5, <2>0, <2>2
    <3> HIDE DEF next
    <3>2. /\ Step(next, BlockAttempt)
          /\ replyBuffer' = replyBuffer
              \/ (Len(replyBuffer) = 1 /\ replyBuffer' = <<>>)
      BY <1>j, <2>0, <2>2 DEF BlockNak, BlockTimesOut, ConsumesReply, Ticks, IsBlockReply, RetryOrAbort, next
    <3>3. Ends \/ (Goes("block-ack", "block-ack", BlockAttempt) /\ session' = next)
      BY <1>2, <1>go, <2>0, <3>1, <3>2
    <3> QED BY <3>1, <3>2, <3>3, <2>2 DEF BlockRow, Retries
  <2> QED BY <2>1, <2>2
<1>k. CASE CommitTick
  <2>0. Active /\ session.state = "post-image" /\ UNCHANGED ctl
    BY <1>k DEF CommitTick, Ticks
  <2> DEFINE next == [session EXCEPT !.state = "post-image-status", !.timeout = 0]
  <2>1. /\ next.state = "post-image-status"
    BY <1>1, <1>5, <2>0
  <2> HIDE DEF next
  <2>2. /\ Step(next, <<F("commit")>>)
        /\ UNCHANGED replyBuffer
    BY <1>k, <2>0 DEF CommitTick, Ticks, next
  <2>3. Ends \/ (Goes("post-image", "post-image-status", <<F("commit")>>) /\ session' = next)
    BY <1>2, <1>go, <2>0, <2>1, <2>2
  <2> QED BY <2>1, <2>2, <2>3 DEF CommitRow
<1>l. CASE PostImageReply
  <2>0. Active /\ session.state = "post-image-status" /\ UNCHANGED ctl
    BY <1>l DEF PostImageReply, ConsumesReply
  <2>1. CASE replyBuffer[1] # "ACK"
    <3> DEFINE gone == [session EXCEPT !.state = "failed"]
    <3>1. gone.state = "failed"
      BY <1>1, <2>0
    <3> HIDE DEF gone
    <3>2. Step(gone, <<F("abort")>>)
      BY <1>l, <2>1 DEF PostImageReply, ConsumesReply, HasReply, Required, ReplyLength, gone
    <3> QED BY <1>3, <1>en, <2>0, <3>1, <3>2
  <2>2. CASE replyBuffer[1] = "ACK"
    <3> DEFINE next == [session EXCEPT !.state = "f9-ack", !.timeout = 0]
    <3>1. /\ next.state = "f9-ack"
      BY <1>1, <1>5, <2>0, <2>2
    <3> HIDE DEF next
    <3>2. /\ Step(next, <<F("query")>>)
          /\ replyBuffer' = <<>>
          /\ Len(replyBuffer) >= StatusLength
      BY <1>l, <2>0, <2>2 DEF PostImageReply, ConsumesReply, HasReply, Required, ReplyLength, next
    <3>3. Ends \/ (Goes("post-image-status", "f9-ack", <<F("query")>>) /\ session' = next)
      BY <1>2, <1>go, <2>0, <3>1, <3>2
    <3> QED BY <3>1, <3>2, <3>3, <2>2 DEF CommitRow
  <2> QED BY <2>1, <2>2
<1>m. CASE PostImageTimesOut
  <2>0. Active /\ session.state = "post-image-status" /\ UNCHANGED ctl
    BY <1>m DEF PostImageTimesOut, Ticks
  <2> DEFINE gone == [session EXCEPT !.timeout = @ + 1, !.state = "post-image-timeout"]
  <2>1. gone.state = "post-image-timeout"
    BY <1>1, <2>0
  <2> HIDE DEF gone
  <2>2. Step(gone, <<F("abort")>>)
    BY <1>m DEF PostImageTimesOut, Ticks, gone
  <2> QED BY <1>3, <1>en, <2>0, <2>1, <2>2
<1>n. CASE F9Reply
  <2>0. Active /\ session.state = "f9-ack" /\ UNCHANGED ctl
    BY <1>n DEF F9Reply, ConsumesReply
  <2>1. CASE ~(replyBuffer[1] = "ACK" /\ replyBuffer[2] = "ZERO")
    <3> DEFINE gone == [session EXCEPT !.state = "failed"]
    <3>1. gone.state = "failed"
      BY <1>1, <2>0
    <3> HIDE DEF gone
    <3>2. Step(gone, <<F("reset")>>)
      BY <1>n, <2>1 DEF F9Reply, ConsumesReply, HasReply, Required, ReplyLength, gone
    <3> QED BY <1>3, <1>en, <2>0, <3>1, <3>2
  <2>2. CASE replyBuffer[1] = "ACK" /\ replyBuffer[2] = "ZERO"
    <3> DEFINE next == [session EXCEPT !.state = "user-transfer", !.timeout = 1]
    <3>1. /\ next.state = "user-transfer"
      BY <1>1, <1>5, <2>0, <2>2
    <3> HIDE DEF next
    <3>2. /\ Step(next, <<F("begin-users")>>)
          /\ Len(replyBuffer) >= 2
      BY <1>n, <2>0, <2>2 DEF F9Reply, ConsumesReply, HasReply, Required, ReplyLength, next
    <3>3. Ends \/ (Goes("f9-ack", "user-transfer", <<F("begin-users")>>) /\ session' = next)
      BY <1>2, <1>go, <2>0, <3>1, <3>2
    <3> QED BY <3>1, <3>2, <3>3, <2>2 DEF CommitRow
  <2> QED BY <2>1, <2>2
<1>o. CASE F9TimesOut
  <2>0. Active /\ session.state = "f9-ack" /\ UNCHANGED ctl
    BY <1>o DEF F9TimesOut, Ticks
  <2> DEFINE gone == [session EXCEPT !.timeout = @ + 1, !.state = "f9-timeout"]
  <2>1. gone.state = "f9-timeout"
    BY <1>1, <2>0
  <2> HIDE DEF gone
  <2>2. Step(gone, <<F("reset")>>)
    BY <1>o DEF F9TimesOut, Ticks, gone
  <2> QED BY <1>3, <1>en, <2>0, <2>1, <2>2
<1>p. CASE UserTick
  <2>0. Active /\ session.state = "user-transfer" /\ UNCHANGED ctl
    BY <1>p DEF UserTick, Ticks
  <2>1. CASE session.userIndex < UserCount
    <3> DEFINE next == [session EXCEPT !.userIndex = @ + 1]
    <3>1. /\ next.state = "user-transfer"
      BY <1>1, <1>5, <2>0, <2>1
    <3> HIDE DEF next
    <3>2. /\ Step(next, <<<<"user", session.userIndex>>>>)
      BY <1>p, <2>0, <2>1 DEF UserTick, Ticks, next
    <3>3. Ends \/ (Goes("user-transfer", "user-transfer", <<<<"user", session.userIndex>>>>) /\ session' = next)
      BY <1>2, <1>go, <2>0, <3>1, <3>2
    <3> QED BY <3>1, <3>2, <3>3, <2>1 DEF CommitRow
  <2>2. CASE ~(session.userIndex < UserCount)
    <3> DEFINE next == [session EXCEPT !.state = "final-status", !.timeout = 0,
                                     !.finalStatusCount = 0]
    <3>1. /\ next.state = "final-status"
      BY <1>1, <1>5, <2>0, <2>2
    <3> HIDE DEF next
    <3>2. /\ Step(next, <<F("all-users")>>)
      BY <1>p, <2>0, <2>2 DEF UserTick, Ticks, next
    <3>3. Ends \/ (Goes("user-transfer", "final-status", <<F("all-users")>>) /\ session' = next)
      BY <1>2, <1>go, <2>0, <3>1, <3>2
    <3> QED BY <3>1, <3>2, <3>3, <2>2 DEF CommitRow
  <2> QED BY <2>1, <2>2
<1>q. CASE FinalTick
  <2> DEFINE done == [session EXCEPT !.timeout = @ + 1, !.state = "completed"]
             gone == [session EXCEPT !.timeout = @ + 1,
                                     !.state = "final-status-timeout"]
  <2>1. done.state = "completed" /\ gone.state = "final-status-timeout"
    BY <1>1
  <2> HIDE DEF done, gone
  <2>2. /\ Active /\ session.state = "final-status" /\ UNCHANGED ctl
        /\ Step(done, <<>>) \/ Step(gone, <<>>)
    BY <1>q DEF FinalTick, Ticks, done, gone
  <2>3. CASE Step(done, <<>>)
    <3>1. toCtl \o <<>> = toCtl
      BY ConcatEmptySeq DEF Typed, TypeOK
    <3>2. ApplyWrites(done, <<>>)
      BY <2>3, ApplyCases DEF Step, ApplyFails
    <3> QED BY <2>1, <2>2, <3>1, <3>2, OutcomeNames
            DEF ApplyWrites, CommitRow, Active
  <2>4. CASE Step(gone, <<>>)
    BY <1>3, <1>en, <2>1, <2>2, <2>4
  <2> QED BY <2>2, <2>3, <2>4
<1> QED
  BY <1>a, <1>b, <1>c, <1>d, <1>e, <1>f, <1>g, <1>h, <1>i, <1>j, <1>k, <1>l,
     <1>m, <1>n, <1>o, <1>p, <1>q DEF Tick

-----------------------------------------------------------------------------
(* The other events, seen from the session *)

\* The session stays where it is and as far as it is.
Stays ==
    outcome' = outcome /\ session'.state = session.state /\ SameCounters

Receives ==
    /\ Stays /\ UNCHANGED <<link, toCtl, ctl>>
    /\ session.state = "created" =>
          /\ UNCHANGED replyBuffer
          /\ \A i \in 1..Len(fromCtl') : \E k \in 1..Len(fromCtl) :
                fromCtl'[i] = fromCtl[k]
    /\ Active /\ session.state # "final-status" => Stream' = Stream

Drops ==
    /\ Stays /\ link' = "lost" /\ toCtl' = <<>> /\ fromCtl' = <<>>
    /\ UNCHANGED <<replyBuffer, ctl>>

\* The link is closed or opened: only an active reset wait outlives that.
Relinks ==
    /\ Stays /\ UNCHANGED <<replyBuffer, toCtl, fromCtl, ctl>>
    /\ Active => session.state = "final-status"

\* What is taken from the channel goes to the buffer, in order.
LEMMA ReceiveReceives ==
    ASSUME Typed, Linked, Receive PROVE Receives
<1>1. session \in Session /\ fromCtl \in Seq(Reply) /\ replyBuffer \in Seq(Reply)
  BY DEF Typed, TypeOK
<1>2. UNCHANGED <<outcome, link, toCtl, ctl>>
  BY DEF Receive
<1>3. PICK n \in 1..Len(fromCtl) :
        /\ fromCtl' = SubSeq(fromCtl, n + 1, Len(fromCtl))
        /\ IF Active /\ session.state = "final-status"
           THEN \E count : session' = [session EXCEPT !.finalStatusCount = count]
           ELSE /\ UNCHANGED session
                /\ replyBuffer' = IF Active
                                  THEN replyBuffer \o SubSeq(fromCtl, 1, n)
                                  ELSE replyBuffer
  BY DEF Receive
<1>4. Stays
  <2>1. CASE Active /\ session.state = "final-status"
    <3>1. PICK count : session' = [session EXCEPT !.finalStatusCount = count]
      BY <1>3, <2>1
    <3> QED BY <1>1, <1>2, <3>1 DEF Session, Stays, SameCounters
  <2>2. CASE ~(Active /\ session.state = "final-status")
    BY <1>2, <1>3, <2>2 DEF Stays, SameCounters
  <2> QED BY <2>1, <2>2
<1>5. ASSUME session.state = "created"
      PROVE  /\ UNCHANGED replyBuffer
             /\ \A i \in 1..Len(fromCtl') : \E k \in 1..Len(fromCtl) :
                   fromCtl'[i] = fromCtl[k]
  <2>1. ~Active
    BY <1>5 DEF Active
  <2>2. /\ Len(fromCtl') = Len(fromCtl) - n /\ Len(fromCtl) \in Nat
        /\ \A i \in 1..Len(fromCtl) - n : fromCtl'[i] = fromCtl[n + i]
    BY <1>1, <1>3, SplitReplies
  <2>3. \A i \in 1..Len(fromCtl') : n + i \in 1..Len(fromCtl)
    BY <2>2
  <2> QED BY <1>3, <2>1, <2>2, <2>3
<1>6. ASSUME Active, session.state # "final-status"
      PROVE  Stream' = Stream
  <2> DEFINE chunk == SubSeq(fromCtl, 1, n)
             rest == SubSeq(fromCtl, n + 1, Len(fromCtl))
  <2>1. replyBuffer' = replyBuffer \o chunk /\ fromCtl' = rest
    BY <1>3, <1>6
  <2>2. chunk \in Seq(Reply) /\ rest \in Seq(Reply)
    BY <1>1, SplitReplies
  <2>3. chunk \o rest = fromCtl
    BY <1>1, SplitsJoin
  <2> HIDE DEF chunk, rest
  <2>4. (replyBuffer \o chunk) \o rest = replyBuffer \o (chunk \o rest)
    BY SMTT(40), <1>1, <2>2, ConcatAssociative
  <2> QED BY <2>1, <2>3, <2>4 DEF Stream
<1> QED BY <1>2, <1>4, <1>5, <1>6 DEF Receives

\* Everything else that happens, by what it does to the session's side.
LEMMA EnvironmentCases ==
    ASSUME Typed, Linked, Environment
    PROVE  Ends \/ Receives \/ Drops \/ Relinks \/ ControllerActs
<1>1. session \in Session
  BY DEF Typed, TypeOK
<1>2. CASE Receive
  BY <1>2, ReceiveReceives
<1>3. CASE LinkDrops
  BY <1>3 DEF LinkDrops, runnerVars, Drops, Stays, SameCounters
<1>4. CASE LinkCloses
  <2>0. UNCHANGED <<replyBuffer, toCtl, fromCtl, ctl>> /\ link = "lost"
    BY <1>4 DEF LinkCloses
  <2>1. CASE Active /\ connected /\ session.state # "final-status"
    <3>1. outcome' = "unexpected-disconnect"
      BY <1>4, <2>1 DEF LinkCloses
    <3> QED BY <2>0, <3>1 DEF Ends
  <2>2. CASE ~(Active /\ connected /\ session.state # "final-status")
    <3>1. UNCHANGED <<session, outcome>>
      BY <1>4, <2>2 DEF LinkCloses
    <3>2. Active => session.state = "final-status"
      BY <2>0, <2>2 DEF Linked
    <3> QED BY <2>0, <3>1, <3>2 DEF Relinks, Stays, SameCounters
  <2> QED BY <2>1, <2>2
<1>5. CASE ReconnectTimer \/ LinkOpens \/ LinkRefused
  <2>1. /\ UNCHANGED <<session, outcome, replyBuffer, toCtl, fromCtl, ctl>>
        /\ reconnecting \/ link = "opening"
    BY <1>5 DEF ReconnectTimer, LinkOpens, LinkRefused
  <2>2. Active => session.state = "final-status"
    BY <2>1 DEF Linked
  <2> QED BY <2>1, <2>2 DEF Relinks, Stays, SameCounters
<1>6. CASE Cancel
  BY <1>6 DEF Cancel, Fail, Ends
<1> QED BY <1>2, <1>3, <1>4, <1>5, <1>6 DEF Environment, ControllerActs

LEMMA ControllerStays ==
    ASSUME ControllerActs PROVE Stays /\ UNCHANGED <<replyBuffer, link>>
BY ControllerLeavesRunner DEF Stays, SameCounters

\* Retries stay within their limits in every state that counts them.
LEMMA RetriesStep ==
    ASSUME Typed, Linked, RetriesIn, [Next]_vars PROVE RetriesIn'
<1> USE ConfigTransferAssumption DEF RetriesIn
<1>1. session.retry \in Nat /\ MaxConnectionRetries \in Nat /\ MaxBlockRetries \in Nat
  BY DEF Typed, TypeOK, Session
<1>2. CASE Ends
  BY <1>2 DEF Ends
<1>3. CASE Stays
  BY <1>3 DEF Stays, SameCounters
<1>4. CASE UNCHANGED vars
  BY <1>4 DEF vars
<1>5. CASE WaitRow
  BY <1>5 DEF WaitRow, Goes, SameCounters, Waiting
<1>6. CASE HandshakeRow
  <2>1. CASE Goes("created", "compile", <<F("setup")>>) /\ SameCounters
    BY <2>1 DEF Goes, SameCounters
  <2>2. CASE Goes("compile", "handshake", <<F("prepare")>>) /\ SameCounters
    BY <1>1, <2>2 DEF Goes, SameCounters
  <2>3. CASE Goes("handshake", "handshake", <<F("prepare")>>)
             /\ Retries(MaxConnectionRetries)
    BY <2>3 DEF Goes, Retries
  <2>4. CASE Goes("handshake", "settle", <<>>)
             /\ session'.retry = 0 /\ session'.blockIndex = session.blockIndex
    BY <2>4 DEF Goes
  <2> QED BY <1>6, <2>1, <2>2, <2>3, <2>4 DEF HandshakeRow
<1>7. CASE BlockRow
  BY SMTT(40), <1>1, <1>7 DEF BlockRow, Goes, SameCounters, Retries
<1>8. CASE CommitRow
  BY <1>8 DEF CommitRow, Goes
<1>9. ControllerActs => Stays
  BY ControllerStays
<1> QED
  BY <1>2, <1>3, <1>4, <1>5, <1>6, <1>7, <1>8, <1>9, TickRow, EnvironmentCases
     DEF Next, Receives, Drops, Relinks

-----------------------------------------------------------------------------
(* No commit frame before every block *)

LEMMA CommitsArePreceded ==
    CommitFollowsWholeImage <=> CommitsPreceded
BY DEF CommitFollowsWholeImage, CommitsPreceded, Preceded

LEMMA PrecededByNothing ==
    ASSUME toCtl' = <<>> PROVE CommitsPreceded'
BY DEF CommitsPreceded

LEMMA PrecededAsBefore ==
    ASSUME UNCHANGED <<toCtl, ctl>>
    PROVE  /\ CommitsPreceded => CommitsPreceded'
           /\ \A n \in Nat : PutOut(n) => PutOut(n)'
BY DEF CommitsPreceded, Preceded, PutOut

\* A frame is written behind the others.
LEMMA PrecededByMore ==
    ASSUME Typed, NEW f \in Frame, toCtl' = toCtl \o <<f>>, ctl' = ctl,
           f[1] = "commit" => PutOut(BlockCount)
    PROVE  /\ CommitsPreceded => CommitsPreceded'
           /\ \A n \in Nat : PutOut(n) => PutOut(n)'
           /\ \A n \in Nat : PutOut(n) /\ f = <<"block", n>> => PutOut(n + 1)'
<1>1. PICK L \in Nat : L = Len(toCtl) /\ toCtl \in Seq(Frame)
  BY DEF Typed, TypeOK
<1>2. /\ Len(toCtl') = L + 1 /\ toCtl'[L + 1] = f
      /\ \A i \in 1..L : toCtl'[i] = toCtl[i]
  <2>1. <<f>> \in Seq(Frame) /\ Len(<<f>>) = 1 /\ <<f>>[1] = f
    OBVIOUS
  <2>2. /\ Len(toCtl \o <<f>>) = L + 1
        /\ \A i \in 1..L + 1 : (toCtl \o <<f>>)[i] =
               IF i <= L THEN toCtl[i] ELSE <<f>>[i - L]
    BY <1>1, <2>1, ConcatProperties
  <2>3. L + 1 \in 1..L + 1 /\ ~(L + 1 <= L) /\ L + 1 - L = 1
    BY <1>1
  <2>4. (toCtl \o <<f>>)[L + 1] = f
    BY <2>1, <2>2, <2>3
  <2>5. \A i \in 1..L : i \in 1..L + 1 /\ i <= L
    BY <1>1
  <2> QED BY <2>2, <2>4, <2>5
<1>3. ASSUME NEW i \in 1..L + 1, NEW b, Preceded(i, b) PROVE Preceded(i, b)'
  <2>1. \A k \in 1..i - 1 : k \in 1..L
    BY <1>1
  <2> QED BY <1>2, <1>3, <2>1 DEF Preceded
<1>4. ASSUME NEW b, Preceded(L + 1, b) PROVE Preceded(L + 2, b)'
  <2>1. \A k \in 1..L + 1 - 1 : k \in 1..L + 2 - 1 /\ k \in 1..L
    BY <1>1
  <2> QED BY <1>2, <1>4, <2>1 DEF Preceded
<1>5. ASSUME NEW b, f[1] = "block", f[2] = b PROVE Preceded(L + 2, b)'
  <2>1. L + 1 \in 1..L + 2 - 1
    BY <1>1
  <2> QED BY <1>2, <1>5, <2>1 DEF Preceded
<1>6. \A n \in Nat : PutOut(n) => PutOut(n)'
  <2>1. Len(toCtl) + 1 = L + 1 /\ Len(toCtl') + 1 = L + 2
    BY <1>1, <1>2
  <2> QED BY <1>4, <2>1 DEF PutOut
<1>7. ASSUME NEW n \in Nat, PutOut(n), f = <<"block", n>>
      PROVE  PutOut(n + 1)'
  <2>1. Len(toCtl') + 1 = L + 2 /\ PutOut(n)'
    BY <1>1, <1>2, <1>6, <1>7
  <2>2. \A b \in 0..n + 1 - 1 : b = n \/ b \in 0..n - 1
    BY <1>7
  <2>3. f[1] = "block" /\ f[2] = n
    BY <1>7
  <2> QED BY <1>5, <2>1, <2>2, <2>3 DEF PutOut
<1>8. ASSUME CommitsPreceded PROVE CommitsPreceded'
  <2> SUFFICES ASSUME NEW i \in 1..L + 1, toCtl'[i][1] = "commit", NEW b \in Blocks
               PROVE  Preceded(i, b)'
    BY <1>2 DEF CommitsPreceded
  <2>1. CASE i = L + 1
    <3>1. PutOut(BlockCount)
      BY <1>2, <2>1
    <3>2. Preceded(L + 1, b)
      BY <1>1, <3>1 DEF PutOut, Blocks
    <3> QED BY <1>3, <2>1, <3>2
  <2>2. CASE i \in 1..L
    BY <1>1, <1>2, <1>3, <1>8, <2>2 DEF CommitsPreceded
  <2> QED BY <1>1, <2>1, <2>2
<1> QED BY <1>6, <1>7, <1>8

\* The controller takes the frame in front.
LEMMA PrecededByFewer ==
    ASSUME Typed, toCtl # <<>>, toCtl' = Tail(toCtl),
           ctl.offered \subseteq ctl'.offered,
           Head(toCtl)[1] = "block" => Head(toCtl)[2] \in ctl'.offered
    PROVE  /\ CommitsPreceded => CommitsPreceded'
           /\ \A n \in Nat : PutOut(n) => PutOut(n)'
<1> DEFINE L == Len(toCtl)
<1>1. /\ L \in Nat /\ L > 0 /\ Len(toCtl') = L - 1 /\ Head(toCtl) = toCtl[1]
      /\ \A i \in 1..L - 1 : toCtl'[i] = toCtl[i + 1]
  BY HeadTailProperties, EmptySeq, LenProperties DEF Typed, TypeOK
<1> HIDE DEF L
<1>2. ASSUME NEW i \in 2..L + 1, NEW b, Preceded(i, b)
      PROVE  Preceded(i - 1, b)'
  <2>1. CASE b \in ctl.offered
    BY <2>1 DEF Preceded
  <2>2. ASSUME NEW k \in 1..i - 1, toCtl[k][1] = "block", toCtl[k][2] = b
        PROVE  Preceded(i - 1, b)'
    <3>1. CASE k = 1
      BY <1>1, <2>2, <3>1 DEF Preceded
    <3>2. CASE k # 1
      <4>1. k - 1 \in 1..i - 1 - 1 /\ k - 1 \in 1..L - 1 /\ (k - 1) + 1 = k
        BY <1>1, <3>2
      <4>2. toCtl'[k - 1] = toCtl[k]
        BY <1>1, <4>1
      <4> QED BY <2>2, <4>1, <4>2 DEF Preceded
    <3> QED BY <3>1, <3>2
  <2> QED BY <1>2, <2>1, <2>2 DEF Preceded
<1>3. ASSUME NEW n \in Nat, PutOut(n) PROVE PutOut(n)'
  <2>1. Len(toCtl) + 1 = L + 1 /\ Len(toCtl') + 1 = L /\ L + 1 \in 2..L + 1
        /\ (L + 1) - 1 = L
    BY <1>1 DEF L
  <2> QED BY <1>2, <1>3, <2>1 DEF PutOut
<1>4. ASSUME CommitsPreceded PROVE CommitsPreceded'
  <2> SUFFICES ASSUME NEW i \in 1..L - 1, toCtl'[i][1] = "commit", NEW b \in Blocks
               PROVE  Preceded(i, b)'
    BY <1>1 DEF CommitsPreceded
  <2>1. i + 1 \in 1..L /\ i + 1 \in 2..L + 1 /\ (i + 1) - 1 = i
    BY <1>1
  <2>2. Preceded(i + 1, b)
    BY <1>1, <1>4, <2>1 DEF CommitsPreceded, L
  <2> QED BY <1>2, <2>1, <2>2
<1> QED BY <1>3, <1>4

LEMMA ControlsPreceded ==
    ASSUME Typed, ControllerActs
    PROVE  /\ CommitsPreceded => CommitsPreceded'
           /\ \A n \in Nat : PutOut(n) => PutOut(n)'
<1>0. ctl \in Controller
  BY DEF Typed, TypeOK
<1>1. CASE CtlRestarts \/ CtlScans
  <2>1. toCtl' = toCtl /\ ctl'.offered = ctl.offered
    BY <1>0, <1>1 DEF CtlRestarts, CtlScans, netVars, Controller
  <2> QED BY <2>1 DEF CommitsPreceded, Preceded, PutOut
<1>2. CASE CtlTakesBlock
  <2>1. /\ toCtl # <<>> /\ toCtl' = Tail(toCtl)
        /\ ctl'.offered = ctl.offered \cup {Head(toCtl)[2]}
    BY <1>0, <1>2 DEF CtlTakesBlock, Taking, Controller
  <2> QED BY <2>1, PrecededByFewer
<1>3. CASE CtlPrepares \/ CtlCommits \/ CtlAnswersQuery \/ CtlTakesUsers \/ CtlEnds
  <2>1. /\ toCtl # <<>> /\ toCtl' = Tail(toCtl) /\ Head(toCtl)[1] # "block"
        /\ ctl'.offered = ctl.offered
    BY <1>0, <1>3 DEF CtlPrepares, CtlCommits, CtlAnswersQuery, CtlTakesUsers,
                      CtlEnds, Taking, Controller
  <2> QED BY <2>1, PrecededByFewer
<1> QED BY <1>1, <1>2, <1>3 DEF ControllerActs

\* A block is never passed over, and the commit frame comes after the last.
LEMMA BlocksStep ==
    ASSUME Typed, Linked, RetriesIn, BlocksOut, CommitsPreceded, [Next]_vars
    PROVE  BlocksOut' /\ CommitsPreceded'
<1> USE ConfigTransferAssumption
<1>1. /\ session.blockIndex \in Nat /\ BlockCount \in Nat
      /\ toCtl \in Seq(Frame) /\ toCtl \o <<>> = toCtl
  BY ConcatEmptySeq DEF Typed, TypeOK, Session, Blocks
<1>f. \A family \in {"setup", "prepare", "commit", "query", "begin-users", "user",
                     "all-users", "abort", "reset"} :
         \A n \in Nat : <<family, n>> \in Frame
  BY DEF Frame
<1>2. CASE Ends
  <2>1. BlocksOut'
    BY <1>2 DEF Ends, BlocksOut, Active
  <2>2. CommitsPreceded'
    <3>1. CASE toCtl' = <<>>
      BY <3>1, PrecededByNothing
    <3>2. CASE toCtl' = toCtl
      BY <1>2, <3>2, PrecededAsBefore DEF Ends
    <3>3. ASSUME NEW family \in {"abort", "reset"}, toCtl' = toCtl \o <<F(family)>>
          PROVE  CommitsPreceded'
      <4>1. F(family) \in Frame /\ F(family)[1] # "commit"
        BY <1>f DEF F
      <4> QED BY <1>2, <3>3, <4>1, PrecededByMore DEF Ends
    <3> QED BY <1>2, <3>1, <3>2, <3>3 DEF Ends
  <2> QED BY <2>1, <2>2
\* Steps that leave the frames and the blocks offered alone.
<1>k. ASSUME UNCHANGED <<toCtl, ctl, link>>, Stays
      PROVE  BlocksOut' /\ CommitsPreceded'
  <2>1. session.blockIndex + 1 \in Nat
    BY <1>1
  <2> QED BY <1>k, <1>1, <2>1, PrecededAsBefore
          DEF Stays, SameCounters, BlocksOut, Active
<1>3. CASE Receives \/ WaitRow \/ UNCHANGED vars
  <2>1. UNCHANGED <<toCtl, ctl, link>> /\ Stays
    BY <1>1, <1>3 DEF Receives, WaitRow, Goes, vars, Stays, SameCounters
  <2> QED BY <1>k, <2>1
<1>4. CASE Drops
  BY <1>4, PrecededByNothing DEF Drops, BlocksOut
<1>5. CASE Relinks
  BY <1>5, PrecededAsBefore DEF Relinks, Stays, BlocksOut, Active
<1>6. CASE ControllerActs
  <2>1. Stays /\ link' = link
    BY <1>6, ControllerStays
  <2>2. /\ CommitsPreceded' /\ \A n \in Nat : PutOut(n) => PutOut(n)'
    BY <1>6, ControlsPreceded
  <2>3. session.blockIndex + 1 \in Nat
    BY <1>1
  <2> QED BY <1>1, <2>1, <2>2, <2>3
          DEF Stays, SameCounters, BlocksOut, Active
<1>7. CASE HandshakeRow
  <2>1. session'.state \in {"compile", "handshake", "settle"}
    BY <1>7 DEF HandshakeRow, Goes
  <2>2. CommitsPreceded'
    <3>1. CASE toCtl' = toCtl \o <<F("setup")>> /\ ctl' = ctl
      <4>1. F("setup") \in Frame /\ F("setup")[1] # "commit"
        BY <1>f DEF F
      <4> QED BY <3>1, <4>1, PrecededByMore
    <3>2. CASE toCtl' = toCtl \o <<F("prepare")>> /\ ctl' = ctl
      <4>1. F("prepare") \in Frame /\ F("prepare")[1] # "commit"
        BY <1>f DEF F
      <4> QED BY <3>2, <4>1, PrecededByMore
    <3>3. CASE toCtl' = toCtl /\ ctl' = ctl
      BY <3>3, PrecededAsBefore
    <3> QED BY <1>1, <1>7, <3>1, <3>2, <3>3 DEF HandshakeRow, Goes
  <2> QED BY <2>1, <2>2 DEF BlocksOut
\* A block is written, for the first time or again.
<1>b. ASSUME toCtl' = toCtl \o BlockAttempt, ctl' = ctl, PutOut(session.blockIndex),
             session'.state = "block-ack", session'.blockIndex = session.blockIndex
      PROVE  BlocksOut' /\ CommitsPreceded'
  <2> DEFINE f == <<"block", session.blockIndex>>
  <2>1. f \in Frame /\ f[1] # "commit"
    BY <1>1 DEF Frame
  <2>2. toCtl' = toCtl \o <<f>>
    BY <1>b DEF BlockAttempt
  <2>3. CommitsPreceded' /\ PutOut(session.blockIndex + 1)'
    <3> HIDE DEF f
    <3>1. \A n \in Nat : PutOut(n) /\ f = <<"block", n>> => PutOut(n + 1)'
      BY <1>b, <2>1, <2>2, PrecededByMore
    <3>2. CommitsPreceded'
      BY <1>b, <2>1, <2>2, PrecededByMore
    <3>3. f = <<"block", session.blockIndex>>
      BY DEF f
    <3>4. ASSUME NEW n \in Nat, n = session.blockIndex
          PROVE  PutOut(n + 1)' => PutOut(session.blockIndex + 1)'
      BY <1>b, <3>4 DEF PutOut
    <3> QED BY <1>1, <1>b, <3>1, <3>2, <3>3, <3>4
  <2> QED BY <1>b, <2>3 DEF BlocksOut
<1>8. CASE BlockRow
  <2>1. ASSUME NEW from \in {"settle", "block-gap"},
               Goes(from, "block-ack", BlockAttempt), SameCounters
        PROVE  BlocksOut' /\ CommitsPreceded'
    <3>1. Active /\ link = "up"
      BY <2>1 DEF Goes, BlockAttempt, Active
    <3>2. CASE from = "settle"
      <4>1. session.blockIndex = 0
        BY <2>1, <3>1, <3>2 DEF RetriesIn, Goes
      <4>2. PutOut(session.blockIndex)
        BY <4>1 DEF PutOut
      <4> QED BY <1>b, <2>1, <4>2 DEF Goes, SameCounters
    <3>3. CASE from = "block-gap"
      BY <1>b, <2>1, <3>1, <3>3 DEF BlocksOut, Goes, SameCounters
    <3> QED BY <3>2, <3>3
  <2>2. CASE Goes("block-ack", "block-ack", BlockAttempt) /\ Retries(MaxBlockRetries)
    <3>1. Active /\ link = "up"
      BY <2>2 DEF Goes, BlockAttempt, Active
    <3>2. PutOut(session.blockIndex + 1)
      BY <2>2, <3>1 DEF BlocksOut, Goes
    <3>3. PutOut(session.blockIndex)
      BY SMTT(40), <1>1, <3>2 DEF PutOut
    <3> QED BY <1>b, <2>2, <3>3 DEF Goes, Retries
  <2>3. CASE Goes("block-ack", "block-gap", <<>>)
             /\ session'.blockIndex = session.blockIndex + 1
    <3>1. UNCHANGED <<toCtl, ctl, link>> /\ session.blockIndex + 1 \in Nat
      BY <1>1, <2>3 DEF Goes
    <3>2. link = "up" => PutOut(session.blockIndex + 1)
      BY <2>3 DEF BlocksOut, Goes, Active
    <3>3. link = "up" => PutOut(session.blockIndex)'
      BY <2>3, <3>1, <3>2 DEF PutOut, Preceded
    <3>4. CommitsPreceded'
      BY <3>1, PrecededAsBefore
    <3> QED BY <2>3, <3>1, <3>3, <3>4 DEF BlocksOut, Goes
  <2>4. CASE Goes("block-ack", "post-image", <<>>)
             /\ session.blockIndex + 1 = BlockCount
    <3>1. UNCHANGED <<toCtl, ctl, link>>
      BY <1>1, <2>4 DEF Goes
    <3>2. link = "up" => PutOut(BlockCount)
      BY <2>4 DEF BlocksOut, Goes, Active
    <3>3. (link = "up" => PutOut(BlockCount)') /\ CommitsPreceded'
      BY <1>1, <3>1, <3>2, PrecededAsBefore
    <3> QED BY <2>4, <3>1, <3>3 DEF BlocksOut, Goes
  <2> QED BY <1>8, <2>1, <2>2, <2>3, <2>4 DEF BlockRow
<1>9. CASE CommitRow
  <2>1. session'.state \notin {"block-gap", "block-ack", "post-image"}
    BY <1>9 DEF CommitRow, Goes
  <2>2. CommitsPreceded'
    <3>1. CASE Goes("post-image", "post-image-status", <<F("commit")>>)
      <4>1. F("commit") \in Frame /\ PutOut(BlockCount)
        BY <1>f, <3>1 DEF F, Goes, BlocksOut, Active
      <4> QED BY <3>1, <4>1, PrecededByMore DEF Goes
    <3>2. ASSUME NEW family \in {"query", "begin-users", "user", "all-users"},
                 NEW n \in Nat, toCtl' = toCtl \o <<<<family, n>>>>, ctl' = ctl
          PROVE  CommitsPreceded'
      <4> DEFINE f == <<family, n>>
      <4>1. f \in Frame /\ f[1] # "commit"
        BY <1>f
      <4> HIDE DEF f
      <4>2. toCtl' = toCtl \o <<f>>
        BY <3>2 DEF f
      <4> QED BY <3>2, <4>1, <4>2, PrecededByMore
    <3>3. CASE UNCHANGED <<toCtl, ctl>>
      BY <3>3, PrecededAsBefore
    <3>4. session.userIndex \in Nat
      BY DEF Typed, TypeOK, Session
    <3>5. \/ Goes("post-image", "post-image-status", <<F("commit")>>)
          \/ \E family \in {"query", "begin-users", "user", "all-users"} :
                \E n \in Nat : toCtl' = toCtl \o <<<<family, n>>>> /\ ctl' = ctl
          \/ UNCHANGED <<toCtl, ctl>>
      BY <1>9, <3>4 DEF CommitRow, Goes, F
    <3> QED BY <3>1, <3>2, <3>3, <3>5
  <2> QED BY <2>1, <2>2 DEF BlocksOut
<1> QED
  BY <1>2, <1>3, <1>4, <1>5, <1>6, <1>7, <1>8, <1>9, TickRow, EnvironmentCases
     DEF Next

\* The controller is never told to commit an image of which a block has not
\* been put to it, whichever late replies moved the session on
\* (config-transfer.mjs, the block-ack state).
THEOREM TransferCommitFollowsWholeImage == Spec => []CommitFollowsWholeImage
<1> DEFINE IInv == Typed /\ Linked /\ RetriesIn /\ BlocksOut /\ CommitsPreceded
<1>1. Init => IInv
  <2>1. Init => RetriesIn /\ BlocksOut /\ CommitsPreceded
    BY ConfigTransferAssumption
       DEF Init, RetriesIn, BlocksOut, CommitsPreceded, Active
  <2> QED BY <2>1, TypedInit, LifecycleInit
<1>2. IInv /\ [Next]_vars => IInv'
  BY TypedStep, LifecycleStep, RetriesStep, BlocksStep
<1>3. IInv => CommitFollowsWholeImage
  BY CommitsArePreceded
<1> QED BY <1>1, <1>2, <1>3, PTL DEF Spec

-----------------------------------------------------------------------------
(* The replies that are about *)

LEMMA StreamTyped ==
    ASSUME Typed
    PROVE  /\ Stream \in Seq(Reply) /\ replyBuffer \in Seq(Reply)
           /\ fromCtl \in Seq(Reply) /\ toCtl \in Seq(Frame)
           /\ Len(Stream) = Len(replyBuffer) + Len(fromCtl)
           /\ Len(Stream) \in Nat /\ Len(replyBuffer) \in Nat
           /\ Len(fromCtl) \in Nat /\ Len(toCtl) \in Nat
           /\ \A i \in 1..Len(replyBuffer) : Stream[i] = replyBuffer[i]
           /\ \A i \in 1..Len(fromCtl) : Stream[Len(replyBuffer) + i] = fromCtl[i]
<1>1. /\ replyBuffer \in Seq(Reply) /\ fromCtl \in Seq(Reply) /\ toCtl \in Seq(Frame)
      /\ Len(replyBuffer) \in Nat /\ Len(fromCtl) \in Nat /\ Len(toCtl) \in Nat
  BY DEF Typed, TypeOK
<1>2. /\ Stream \in Seq(Reply) /\ Len(Stream) = Len(replyBuffer) + Len(fromCtl)
      /\ \A i \in 1..Len(replyBuffer) + Len(fromCtl) : Stream[i] =
            IF i <= Len(replyBuffer) THEN replyBuffer[i]
            ELSE fromCtl[i - Len(replyBuffer)]
  BY <1>1, ConcatProperties DEF Stream
<1>3. ASSUME NEW i \in 1..Len(replyBuffer) PROVE Stream[i] = replyBuffer[i]
  BY <1>1, <1>2
<1>4. ASSUME NEW i \in 1..Len(fromCtl)
      PROVE  Stream[Len(replyBuffer) + i] = fromCtl[i]
  <2>1. /\ Len(replyBuffer) + i \in 1..Len(replyBuffer) + Len(fromCtl)
        /\ ~(Len(replyBuffer) + i <= Len(replyBuffer))
        /\ Len(replyBuffer) + i - Len(replyBuffer) = i
    BY <1>1
  <2> QED BY <1>2, <2>1
<1> QED BY <1>1, <1>2, <1>3, <1>4

\* A tick that consumes the buffer, or a link that drops: k replies go from
\* the front, or all that is not in the buffer from the end.
LEMMA StreamConsumed ==
    ASSUME Typed, replyBuffer' = <<>>, fromCtl' = fromCtl
    PROVE  \E k \in Nat :
              /\ k = Len(replyBuffer) /\ Len(Stream') = Len(Stream) - k
              /\ \A i \in 1..Len(Stream') : Stream'[i] = Stream[i + k]
<1>1. Stream' = fromCtl
  <2>1. <<>> \o fromCtl = fromCtl
    BY ConcatEmptySeq, StreamTyped
  <2> QED BY <2>1 DEF Stream
<1>2. \A i \in 1..Len(fromCtl) : Len(replyBuffer) + i = i + Len(replyBuffer)
  BY StreamTyped
<1> QED BY <1>1, <1>2, StreamTyped

\* A lost link takes the end of the stream with it.
LEMMA StreamDropped ==
    ASSUME Typed, replyBuffer' = replyBuffer, fromCtl' = <<>>
    PROVE  /\ Len(Stream') \in Nat /\ Len(Stream') <= Len(Stream)
           /\ \A i \in 1..Len(Stream') : i \in 1..Len(Stream) /\ Stream'[i] = Stream[i]
<1>1. Stream' = replyBuffer
  <2>1. replyBuffer \o <<>> = replyBuffer
    BY ConcatEmptySeq, StreamTyped
  <2> QED BY <2>1 DEF Stream
<1> QED BY <1>1, StreamTyped

\* A reply of the controller is added to the stream's end.
LEMMA StreamGrows ==
    ASSUME Typed, NEW bytes \in Seq(Reply), replyBuffer' = replyBuffer,
           fromCtl' = fromCtl \o bytes
    PROVE  /\ Len(Stream') = Len(Stream) + Len(bytes)
           /\ \A i \in 1..Len(Stream) : Stream'[i] = Stream[i]
           /\ \A i \in 1..Len(bytes) : Stream'[Len(Stream) + i] = bytes[i]
           /\ \A i \in 1..Len(Stream') :
                 i \in 1..Len(Stream) \/ i - Len(Stream) \in 1..Len(bytes)
<1>1. PICK n \in Nat, m \in Nat : n = Len(Stream) /\ m = Len(bytes)
  BY StreamTyped, LenProperties
<1>2. Stream' = Stream \o bytes
  <2>1. (replyBuffer \o fromCtl) \o bytes = replyBuffer \o (fromCtl \o bytes)
    BY SMTT(40), ConcatAssociative, StreamTyped
  <2> QED BY <2>1 DEF Stream
<1>3. /\ Len(Stream \o bytes) = n + m
      /\ \A i \in 1..n + m : (Stream \o bytes)[i] =
            IF i <= n THEN Stream[i] ELSE bytes[i - n]
  BY <1>1, StreamTyped, ConcatProperties
<1>4. \A i \in 1..n : (Stream \o bytes)[i] = Stream[i]
  BY <1>3
<1>5. ASSUME NEW i \in 1..m PROVE (Stream \o bytes)[n + i] = bytes[i]
  <2>1. n + i \in 1..n + m /\ ~(n + i <= n) /\ n + i - n = i
    OBVIOUS
  <2> QED BY <1>3, <2>1
<1>6. \A i \in 1..n + m : i \in 1..n \/ i - n \in 1..m
  OBVIOUS
<1> QED BY <1>1, <1>2, <1>3, <1>4, <1>5, <1>6

\* Writing a frame behind the others, and taking the one in front.
LEMMA FrameWritten ==
    ASSUME Typed, NEW f \in Frame, toCtl' = toCtl \o <<f>>
    PROVE  /\ Len(toCtl') = Len(toCtl) + 1 /\ toCtl'[Len(toCtl')] = f
           /\ \A j \in 1..Len(toCtl) : toCtl'[j] = toCtl[j]
           /\ toCtl' # <<>>
<1>1. PICK n \in Nat : n = Len(toCtl)
  BY StreamTyped
<1>2. toCtl \in Seq(Frame) /\ <<f>> \in Seq(Frame) /\ Len(<<f>>) = 1 /\ <<f>>[1] = f
  BY StreamTyped
<1>3. /\ Len(toCtl') = n + 1
      /\ \A i \in 1..n + 1 : toCtl'[i] = IF i <= n THEN toCtl[i] ELSE <<f>>[i - n]
  BY <1>1, <1>2, ConcatProperties
<1>4. n + 1 \in 1..n + 1 /\ ~(n + 1 <= n) /\ n + 1 - n = 1
  OBVIOUS
<1>5. toCtl'[n + 1] = f
  BY <1>2, <1>3, <1>4
<1>6. \A i \in 1..n : toCtl'[i] = toCtl[i]
  BY <1>3
<1>7. toCtl' # <<>>
  BY <1>3
<1> QED BY <1>1, <1>3, <1>5, <1>6, <1>7

\* The controller takes the oldest frame.
LEMMA FrameTaken ==
    ASSUME Typed, NEW family, Taking(family)
    PROVE  /\ Len(toCtl) \in Nat \ {0} /\ Len(toCtl') = Len(toCtl) - 1
           /\ \A j \in 1..Len(toCtl') : toCtl'[j] = toCtl[j + 1] /\ j + 1 \in 1..Len(toCtl)
           /\ toCtl[1][1] = family /\ link = "up" /\ link' = link
           /\ UNCHANGED <<session, outcome, replyBuffer>>
<1>1. toCtl # <<>> /\ toCtl' = Tail(toCtl) /\ Head(toCtl)[1] = family
  BY DEF Taking
<1>2. /\ Len(toCtl) \in Nat \ {0} /\ Head(toCtl) = toCtl[1]
      /\ Len(toCtl') = Len(toCtl) - 1
      /\ \A j \in 1..Len(toCtl') : toCtl'[j] = toCtl[j + 1]
  BY <1>1, StreamTyped, HeadTailProperties, EmptySeq, LenProperties
<1>3. \A j \in 1..Len(toCtl') : j + 1 \in 1..Len(toCtl)
  BY <1>2
<1> QED BY <1>1, <1>2, <1>3 DEF Taking, runnerVars

-----------------------------------------------------------------------------
(* The controller's steps, by what they do to the replies *)

\* It takes a frame that it answers with at most one byte, ...
Answers ==
    \E family \in ByteAnswered, bytes \in Seq(Reply) :
        /\ Taking(family) /\ Len(bytes) <= 1 /\ fromCtl' = fromCtl \o bytes
        /\ ctl'.permanent = ctl.permanent
        /\ ctl'.mode = IF family = "block" THEN ctl.mode ELSE "transfer"

\* ... the commit frame, ...
AnswersCommit ==
    /\ Taking("commit") /\ ctl'.mode = ctl.mode /\ ctl'.permanent = ctl.permanent
    /\ \E bytes \in Seq(Reply) :
          /\ fromCtl' = fromCtl \o bytes
          /\ \A i \in 1..Len(bytes) : i > 1 => bytes[i] = "ZERO"

\* ... the query, ...
AnswersQuery ==
    /\ Taking("query") /\ ctl'.mode = ctl.mode
    /\ \E bytes \in Seq(Reply) :
          /\ fromCtl' = fromCtl \o bytes
          /\ Len(bytes) \in {0, 2}
          /\ Len(bytes) = 2 =>
                bytes[1] = "ACK" /\ (bytes[2] = "ZERO" => ctl'.permanent)

\* ... or one that it does not answer.
StaysSilent ==
    /\ \E family \in {"begin-users", "user", "all-users", "abort", "reset"} :
          Taking(family)
    /\ UNCHANGED fromCtl /\ ctl'.permanent = ctl.permanent

Restarts ==
    /\ UNCHANGED <<link, toCtl, fromCtl>> /\ ctl'.permanent = ctl.permanent
    /\ ctl'.mode = "normal"
    /\ ctl.mode = "resetting" \/ link # "up"

Scans ==
    /\ UNCHANGED <<link, toCtl, ctl>>
    /\ ctl.mode = "normal" /\ link = "up"
    /\ fromCtl' = fromCtl \o <<"STATUS">>

LEMMA AtMostAByte ==
    \A bytes \in {<<>>, <<"ACK">>, <<"NAK">>} :
        bytes \in Seq(Reply) /\ Len(bytes) <= 1
<1>1. <<>> \in Seq(Reply) /\ Len(<<>>) <= 1
  BY AnswersTyped
<1>2. <<"ACK">> \in Seq(Reply) /\ Len(<<"ACK">>) <= 1
  BY AnswersTyped
<1>3. <<"NAK">> \in Seq(Reply) /\ Len(<<"NAK">>) <= 1
  BY AnswersTyped
<1> QED BY <1>1, <1>2, <1>3, Zenon

\* The controller's steps, told apart by the bytes they answer.
LEMMA ControllerEffects ==
    ASSUME Typed, ControllerActs
    PROVE  Answers \/ AnswersCommit \/ AnswersQuery \/ StaysSilent \/ Restarts \/ Scans
<1>1. ctl \in Controller
  BY DEF Typed, TypeOK
<1>2. CASE CtlPrepares
  <2>1. PICK family \in {"setup", "prepare"} : Taking(family)
    BY <1>2 DEF CtlPrepares
  <2>2. PICK bytes \in {<<>>, <<"ACK">>, <<"NAK">>} : Says(bytes)
    BY <1>2 DEF CtlPrepares
  <2>3. bytes \in Seq(Reply) /\ Len(bytes) <= 1
    BY AtMostAByte
  <2>4. ctl'.mode = "transfer" /\ ctl'.permanent = ctl.permanent
    BY <1>1, <1>2 DEF CtlPrepares, Controller
  <2> QED BY <2>1, <2>2, <2>3, <2>4 DEF Says, Answers, ByteAnswered
<1>3. CASE CtlTakesBlock
  <2>1. Taking("block")
    BY <1>3 DEF CtlTakesBlock
  <2>2. PICK bytes \in {<<>>, <<"ACK">>, <<"NAK">>} : Says(bytes)
    BY <1>3 DEF CtlTakesBlock
  <2>3. bytes \in Seq(Reply) /\ Len(bytes) <= 1
    BY AtMostAByte
  <2>4. ctl'.mode = ctl.mode /\ ctl'.permanent = ctl.permanent
    BY <1>1, <1>3 DEF CtlTakesBlock, Controller
  <2> QED BY <2>1, <2>2, <2>3, <2>4 DEF Says, Answers, ByteAnswered
<1>4. CASE CtlCommits
  <2> DEFINE first == IF ctl.stored = Blocks THEN "ACK" ELSE "NAK"
             full == [i \in 1..StatusLength |-> IF i > 1 THEN "ZERO" ELSE first]
  <2>1. full \in Seq(Reply) /\ Len(full) = StatusLength
    BY AnswersTyped, ConfigTransferAssumption DEF Reply
  <2>2. \A i \in 1..Len(full) : i > 1 => full[i] = "ZERO"
    BY <2>1
  <2>3. Says(<<>>) \/ Says(full)
    BY <1>4 DEF CtlCommits
  <2> HIDE DEF full
  <2>4. \E bytes \in Seq(Reply) :
          /\ fromCtl' = fromCtl \o bytes
          /\ \A i \in 1..Len(bytes) : i > 1 => bytes[i] = "ZERO"
    <3>1. CASE Says(<<>>)
      <4>1. <<>> \in Seq(Reply) /\ \A i \in 1..Len(<<>>) : FALSE
        BY AnswersTyped
      <4> QED BY <3>1, <4>1 DEF Says
    <3>2. CASE Says(full)
      BY <2>1, <2>2, <3>2 DEF Says
    <3> QED BY <2>3, <3>1, <3>2
  <2>5. Taking("commit") /\ ctl'.mode = ctl.mode /\ ctl'.permanent = ctl.permanent
    BY <1>1, <1>4 DEF CtlCommits, Controller
  <2> QED BY <2>4, <2>5 DEF AnswersCommit
<1>5. CASE CtlAnswersQuery
  <2>1. PICK kept \in BOOLEAN, silent \in BOOLEAN :
          /\ ctl' = [ctl EXCEPT !.permanent = kept]
          /\ Says(IF silent THEN <<>>
                  ELSE <<"ACK", IF kept THEN "ZERO" ELSE "OTHER">>)
    BY <1>5 DEF CtlAnswersQuery
  <2>2. ctl'.mode = ctl.mode /\ ctl'.permanent = kept
    BY <1>1, <2>1 DEF Controller
  <2> DEFINE bytes == IF silent THEN <<>>
                      ELSE <<"ACK", IF kept THEN "ZERO" ELSE "OTHER">>
  <2>3. /\ bytes \in Seq(Reply) /\ Len(bytes) \in {0, 2}
        /\ Len(bytes) = 2 =>
             bytes[1] = "ACK" /\ (bytes[2] = "ZERO" => ctl'.permanent)
    <3>1. CASE silent
      BY <3>1, AnswersTyped
    <3>2. CASE ~silent
      BY <2>2, <3>2, AnswersTyped DEF Reply
    <3> QED BY <3>1, <3>2
  <2>4. fromCtl' = fromCtl \o bytes
    BY <2>1 DEF Says
  <2> HIDE DEF bytes
  <2> QED BY <1>5, <2>2, <2>3, <2>4 DEF CtlAnswersQuery, AnswersQuery
<1>6. CASE CtlTakesUsers \/ CtlEnds
  BY <1>1, <1>6 DEF CtlTakesUsers, CtlEnds, StaysSilent, Controller
<1>7. CASE CtlRestarts
  BY <1>1, <1>7 DEF CtlRestarts, Restarts, netVars, Controller
<1>8. CASE CtlScans
  <2>1. fromCtl' = Append(fromCtl, "STATUS")
    BY <1>8 DEF CtlScans
  <2>2. Append(fromCtl, "STATUS") = fromCtl \o <<"STATUS">>
    BY StreamTyped, AppendIsConcat DEF Reply
  <2> QED BY <1>8, <2>1, <2>2 DEF CtlScans, Scans
<1> QED BY <1>2, <1>3, <1>4, <1>5, <1>6, <1>7, <1>8 DEF ControllerActs

\* What is about during the handshake does not become more by itself, ...
LEMMA HandshakeKept ==
    ASSUME Typed, NEW bound \in Nat, Handshake(bound),
           Active, session.state # "final-status",
           Receives \/ Drops \/ ControllerActs \/ UNCHANGED vars
    PROVE  Handshake(bound)'
<1>1. PICK n \in Nat, m \in Nat : n = Len(Stream) /\ m = Len(toCtl)
  BY StreamTyped
<1>2. /\ m <= bound /\ ctl.mode # "resetting"
      /\ \A j \in 1..m : toCtl[j][1] \in ByteAnswered
      /\ \A i \in 1..n : i + bound <= n + m => Stream[i] = "STATUS"
      /\ link = "up" /\ ctl.mode = "normal" =>
            /\ \A i \in 1..n : Stream[i] = "STATUS"
            /\ toCtl # <<>> /\ toCtl[1][1] = "setup"
  BY <1>1 DEF Handshake, OnlyByteAnswered
<1>3. CASE Receives \/ UNCHANGED vars
  <2>1. Stream' = Stream /\ UNCHANGED <<toCtl, ctl, link>>
    BY <1>3 DEF Receives, vars, Stream
  <2> QED BY <2>1 DEF Handshake, OnlyByteAnswered
<1>4. CASE Drops
  <2>1. Len(toCtl') = 0 /\ link' = "lost" /\ ctl' = ctl
    BY <1>4 DEF Drops
  <2>2. /\ Len(Stream') \in Nat /\ Len(Stream') <= n
        /\ \A i \in 1..Len(Stream') : i \in 1..n /\ Stream'[i] = Stream[i]
    BY <1>1, <1>4, StreamDropped DEF Drops
  <2>3. \A i \in 1..Len(Stream') :
          i + bound <= Len(Stream') + 0 => i + bound <= n + m
    BY <2>2
  <2> QED BY <1>2, <2>1, <2>2, <2>3 DEF Handshake, OnlyByteAnswered
<1>5. ASSUME ControllerActs PROVE Handshake(bound)'
  <2>0. replyBuffer' = replyBuffer
    BY <1>5, ControllerStays
  <2>1. CASE Answers
    <3>1. PICK family \in ByteAnswered, bytes \in Seq(Reply) :
            /\ Taking(family) /\ Len(bytes) <= 1 /\ fromCtl' = fromCtl \o bytes
            /\ ctl'.mode = IF family = "block" THEN ctl.mode ELSE "transfer"
      BY <2>1 DEF Answers
    <3>2. /\ m > 0 /\ Len(toCtl') = m - 1 /\ link = "up" /\ toCtl[1][1] = family
          /\ \A j \in 1..m - 1 : toCtl'[j] = toCtl[j + 1] /\ j + 1 \in 1..m
      BY <1>1, <3>1, FrameTaken
    <3>3. PICK k \in Nat : k = Len(bytes) /\ k <= 1
      BY <3>1, LenProperties
    <3>4. /\ Len(Stream') = n + k
          /\ \A i \in 1..n : Stream'[i] = Stream[i]
      BY <1>1, <2>0, <3>1, <3>3, StreamGrows
    <3>5. OnlyByteAnswered'
      BY <1>2, <3>2 DEF OnlyByteAnswered
    <3>6. ASSUME NEW i \in 1..n + k, i + bound <= n + k + (m - 1)
          PROVE  Stream'[i] = "STATUS"
      <4>1. i \in 1..n /\ i + bound <= n + m
        BY <1>2, <3>3, <3>6
      <4> QED BY <1>2, <3>4, <4>1
    <3>7. ctl'.mode # "resetting" /\ ctl'.mode # "normal"
      BY <1>2, <3>1, <3>2
    <3>8. m - 1 <= bound
      BY <1>2
    <3> QED BY <3>2, <3>4, <3>5, <3>6, <3>7, <3>8 DEF Handshake
  <2>2. CASE AnswersCommit \/ AnswersQuery \/ StaysSilent
    <3>1. \E family \in {"commit", "query", "begin-users", "user", "all-users",
                         "abort", "reset"} : Taking(family)
      BY <2>2 DEF AnswersCommit, AnswersQuery, StaysSilent
    <3>2. PICK family \in {"commit", "query", "begin-users", "user", "all-users",
                          "abort", "reset"} : Taking(family)
      BY <3>1
    <3>3. toCtl[1][1] = family /\ 1 \in 1..m
      BY <1>1, <3>2, FrameTaken
    <3> QED BY <1>2, <3>3 DEF ByteAnswered
  <2>3. CASE Restarts
    <3>1. Stream' = Stream /\ UNCHANGED <<link, toCtl>> /\ ctl'.mode = "normal"
          /\ link # "up"
      BY <1>2, <2>0, <2>3 DEF Restarts, Stream
    <3> QED BY <3>1 DEF Handshake, OnlyByteAnswered
  <2>4. CASE Scans
    <3>1. /\ UNCHANGED <<link, toCtl, ctl>> /\ <<"STATUS">> \in Seq(Reply)
          /\ Len(<<"STATUS">>) = 1 /\ <<"STATUS">>[1] = "STATUS"
      BY <2>4 DEF Scans, Reply
    <3>2. /\ Len(Stream') = n + 1 /\ \A i \in 1..n : Stream'[i] = Stream[i]
          /\ \A i \in 1..1 : Stream'[n + i] = <<"STATUS">>[i]
      BY <1>1, <2>0, <2>4, <3>1, StreamGrows DEF Scans
    <3>3. \A i \in 1..n + 1 : Stream'[i] = "STATUS"
      <4>1. Stream'[n + 1] = "STATUS"
        BY <3>1, <3>2
      <4>2. \A i \in 1..n + 1 : i = n + 1 \/ i \in 1..n
        OBVIOUS
      <4> QED BY <1>2, <2>4, <3>2, <4>1, <4>2 DEF Scans
    <3> QED BY <1>1, <1>2, <2>4, <3>1, <3>2, <3>3 DEF Scans, Handshake, OnlyByteAnswered
  <2> QED BY <1>5, <2>1, <2>2, <2>3, <2>4, ControllerEffects
<1> QED BY <1>3, <1>4, <1>5

\* ... nor does what is about while blocks are sent.
LEMMA CountedKept ==
    ASSUME Typed, NEW bound \in Int, Counted(bound),
           Active, session.state # "final-status",
           Receives \/ Drops \/ ControllerActs \/ UNCHANGED vars
    PROVE  Counted(bound)'
<1>1. PICK n \in Nat, m \in Nat : n = Len(Stream) /\ m = Len(toCtl)
  BY StreamTyped
<1>2. /\ n + m <= bound /\ NoScan
      /\ \A j \in 1..m : toCtl[j][1] \in ByteAnswered
  BY <1>1 DEF Counted, OnlyByteAnswered
<1>3. CASE Receives \/ UNCHANGED vars
  <2>1. Stream' = Stream /\ UNCHANGED <<toCtl, ctl, link>>
    BY <1>3 DEF Receives, vars, Stream
  <2> QED BY <2>1 DEF Counted, OnlyByteAnswered, NoScan
<1>4. CASE Drops
  <2>1. Len(toCtl') = 0 /\ link' = "lost" /\ ctl' = ctl
    BY <1>4 DEF Drops
  <2>2. Len(Stream') \in Nat /\ Len(Stream') <= n
    BY <1>1, <1>4, StreamDropped DEF Drops
  <2> QED BY <1>2, <2>1, <2>2 DEF Counted, OnlyByteAnswered, NoScan
<1>5. ASSUME ControllerActs PROVE Counted(bound)'
  <2>0. replyBuffer' = replyBuffer
    BY <1>5, ControllerStays
  <2>1. CASE Answers
    <3>1. PICK family \in ByteAnswered, bytes \in Seq(Reply) :
            /\ Taking(family) /\ Len(bytes) <= 1 /\ fromCtl' = fromCtl \o bytes
            /\ ctl'.mode = IF family = "block" THEN ctl.mode ELSE "transfer"
      BY <2>1 DEF Answers
    <3>2. /\ m > 0 /\ Len(toCtl') = m - 1 /\ link = "up" /\ link' = link
          /\ \A j \in 1..m - 1 : toCtl'[j] = toCtl[j + 1] /\ j + 1 \in 1..m
      BY <1>1, <3>1, FrameTaken
    <3>3. Len(bytes) \in Nat /\ Len(Stream') = n + Len(bytes)
      BY <1>1, <2>0, <3>1, StreamGrows, LenProperties
    <3>4. OnlyByteAnswered'
      BY <1>2, <3>2 DEF OnlyByteAnswered
    <3>5. NoScan'
      BY <1>2, <3>1, <3>2 DEF NoScan
    <3> QED BY <1>2, <3>1, <3>2, <3>3, <3>4, <3>5 DEF Counted
  <2>2. CASE AnswersCommit \/ AnswersQuery \/ StaysSilent
    <3>1. \E family \in {"commit", "query", "begin-users", "user", "all-users",
                         "abort", "reset"} : Taking(family)
      BY <2>2 DEF AnswersCommit, AnswersQuery, StaysSilent
    <3>2. PICK family \in {"commit", "query", "begin-users", "user", "all-users",
                          "abort", "reset"} : Taking(family)
      BY <3>1
    <3>3. toCtl[1][1] = family /\ 1 \in 1..m
      BY <1>1, <3>2, FrameTaken
    <3> QED BY <1>2, <3>3 DEF ByteAnswered
  <2>3. CASE Restarts
    <3>1. Stream' = Stream /\ UNCHANGED <<link, toCtl>> /\ ctl'.mode = "normal"
          /\ link # "up"
      BY <1>2, <2>0, <2>3 DEF Restarts, Stream, NoScan
    <3> QED BY <1>1, <1>2, <3>1 DEF Counted, OnlyByteAnswered, NoScan
  <2>4. CASE Scans
    BY <1>2, <2>4 DEF Scans, NoScan
  <2> QED BY <1>5, <2>1, <2>2, <2>3, <2>4, ControllerEffects
<1> QED BY <1>3, <1>4, <1>5

-----------------------------------------------------------------------------
(* The count, transition by transition *)

LEMMA CreatedStep ==
    ASSUME Typed, Linked, AtCreated, [Next]_vars PROVE AtCreated'
<1> SUFFICES ASSUME session'.state = "created"
             PROVE  /\ replyBuffer' = <<>> /\ toCtl' = <<>>
                    /\ \A i \in 1..Len(fromCtl') : fromCtl'[i] = "STATUS"
                    /\ ctl'.mode = "normal"
  BY DEF AtCreated
<1>1. outcome' = "none"
  BY LifecycleStep DEF Linked
<1>2. ~Ends /\ ~WaitRow /\ ~HandshakeRow /\ ~BlockRow /\ ~CommitRow
  BY <1>1 DEF Ends, WaitRow, HandshakeRow, BlockRow, CommitRow, Goes, Waiting
<1>3. CASE UNCHANGED vars
  BY <1>3 DEF vars, AtCreated
<1>4. CASE Receives
  BY <1>4 DEF Receives, Stays, AtCreated
<1>5. CASE Drops
  BY <1>5 DEF Drops, Stays, AtCreated
<1>6. CASE Relinks
  BY <1>6 DEF Relinks, Stays, AtCreated
<1>7. CASE ControllerActs
  <2>1. /\ session.state = "created" /\ replyBuffer' = replyBuffer
    BY <1>7, ControllerStays DEF Stays
  <2>2. /\ replyBuffer = <<>> /\ toCtl = <<>> /\ ctl.mode = "normal"
        /\ \A i \in 1..Len(fromCtl) : fromCtl[i] = "STATUS"
    BY <2>1 DEF AtCreated
  <2>3. Restarts \/ Scans
    BY <1>7, <2>2, ControllerEffects
       DEF Answers, AnswersCommit, AnswersQuery, StaysSilent, Taking
  <2>4. CASE Restarts
    BY <2>1, <2>2, <2>4 DEF Restarts
  <2>5. CASE Scans
    <3>1. /\ fromCtl' = fromCtl \o <<"STATUS">> /\ UNCHANGED <<toCtl, ctl>>
          /\ fromCtl \in Seq(Reply) /\ <<"STATUS">> \in Seq(Reply)
          /\ Len(<<"STATUS">>) = 1 /\ <<"STATUS">>[1] = "STATUS"
      BY <2>5, StreamTyped DEF Scans, Reply
    <3>2. PICK n \in Nat : n = Len(fromCtl)
      BY StreamTyped
    <3>3. /\ Len(fromCtl') = n + 1
          /\ \A i \in 1..n + 1 : fromCtl'[i] =
                 IF i <= n THEN fromCtl[i] ELSE <<"STATUS">>[i - n]
      BY <3>1, <3>2, ConcatProperties
    <3>4. \A i \in 1..n + 1 : i \in 1..n \/ i - n = 1
      OBVIOUS
    <3> QED BY <2>1, <2>2, <3>1, <3>2, <3>3, <3>4
  <2> QED BY <2>3, <2>4, <2>5
<1> QED BY <1>2, <1>3, <1>4, <1>5, <1>6, <1>7, TickRow, EnvironmentCases DEF Next

LEMMA HandshakeWritten ==
    ASSUME Typed, NEW bound \in Nat, Handshake(bound),
           toCtl' = toCtl \o <<F("prepare")>>, UNCHANGED <<link, fromCtl, ctl>>,
           replyBuffer' \in {replyBuffer, <<>>}
    PROVE  Handshake(bound + 1)'
<1>1. PICK n \in Nat, m \in Nat : n = Len(Stream) /\ m = Len(toCtl)
  BY StreamTyped
<1>2. /\ m <= bound /\ ctl.mode # "resetting"
      /\ \A j \in 1..m : toCtl[j][1] \in ByteAnswered
      /\ \A i \in 1..n : i + bound <= n + m => Stream[i] = "STATUS"
      /\ link = "up" /\ ctl.mode = "normal" =>
            /\ \A i \in 1..n : Stream[i] = "STATUS"
            /\ toCtl # <<>> /\ toCtl[1][1] = "setup"
  BY <1>1 DEF Handshake, OnlyByteAnswered
<1>3. /\ Len(toCtl') = m + 1 /\ toCtl'[m + 1] = F("prepare") /\ toCtl' # <<>>
      /\ \A j \in 1..m : toCtl'[j] = toCtl[j]
  <2>1. F("prepare") \in Frame
    BY DEF F, Frame
  <2> QED BY <1>1, <2>1, FrameWritten
<1>4. PICK k \in Nat :
        /\ k <= n /\ Len(Stream') = n - k
        /\ \A i \in 1..n - k : Stream'[i] = Stream[i + k]
  <2>1. CASE replyBuffer' = replyBuffer
    <3>1. Stream' = Stream /\ \A i \in 1..n : i + 0 = i
      BY <2>1 DEF Stream
    <3> QED BY <1>1, <3>1
  <2>2. CASE replyBuffer' = <<>>
    <3>1. PICK k \in Nat :
            /\ k = Len(replyBuffer) /\ Len(Stream') = n - k
            /\ \A i \in 1..n - k : Stream'[i] = Stream[i + k]
      BY <1>1, <2>2, StreamConsumed
    <3>2. k <= n
      BY <1>1, <3>1, StreamTyped
    <3> QED BY <3>1, <3>2
  <2> QED BY <2>1, <2>2
<1>5. OnlyByteAnswered'
  <2>1. \A j \in 1..m + 1 : j \in 1..m \/ j = m + 1
    OBVIOUS
  <2>2. F("prepare")[1] \in ByteAnswered
    BY DEF F, ByteAnswered
  <2> QED BY <1>2, <1>3, <2>1, <2>2 DEF OnlyByteAnswered
<1>6. ASSUME NEW i \in 1..n - k, i + (bound + 1) <= n - k + (m + 1)
      PROVE  Stream'[i] = "STATUS"
  <2>1. i + k \in 1..n /\ (i + k) + bound <= n + m
    BY <1>4, <1>6
  <2> QED BY <1>2, <1>4, <2>1
<1>7. ASSUME link = "up", ctl.mode = "normal"
      PROVE  /\ \A i \in 1..n - k : Stream'[i] = "STATUS"
             /\ toCtl'[1][1] = "setup"
  <2>1. \A i \in 1..n - k : i + k \in 1..n
    BY <1>4
  <2>2. 1 \in 1..m
    BY <1>1, <1>2, <1>7, EmptySeq, StreamTyped
  <2> QED BY <1>2, <1>3, <1>4, <1>7, <2>1, <2>2
<1>8. m + 1 <= bound + 1
  BY <1>2
<1> QED BY <1>2, <1>3, <1>4, <1>5, <1>6, <1>7, <1>8 DEF Handshake

LEMMA HandshakeStep ==
    ASSUME Typed, Linked, RetriesIn, AtCreated, AtHandshake, [Next]_vars
    PROVE  AtHandshake'
<1> USE ConfigTransferAssumption
<1>0. session.retry \in Nat
  BY DEF Typed, TypeOK, Session
<1>1. ASSUME NEW b, b = 2 + session'.retry, Handshake(b)'
      PROVE  Handshake(2 + session.retry)'
  BY <1>1 DEF Handshake
<1>2. CASE Ends
  BY <1>2 DEF Ends, AtHandshake, Active
<1>3. CASE Receives \/ Drops \/ ControllerActs \/ UNCHANGED vars
  <2>1. Stays
    BY <1>3, ControllerStays DEF Receives, Drops, vars, Stays, SameCounters
  <2>2. CASE Active /\ session.state = "compile"
    <3>1. Handshake(1)'
      BY <1>3, <2>2, HandshakeKept DEF AtHandshake
    <3> QED BY <2>1, <2>2, <3>1 DEF Stays, AtHandshake
  <2>3. CASE Active /\ session.state = "handshake"
    <3>1. PICK b \in Nat : b = 2 + session.retry
      BY <1>0
    <3>2. Handshake(b)
      BY <2>3, <3>1 DEF AtHandshake
    <3>3. Handshake(b)'
      BY <1>3, <2>3, <3>2, HandshakeKept
    <3>4. Handshake(2 + session.retry)'
      BY <1>1, <2>1, <3>1, <3>3 DEF Stays, SameCounters
    <3> QED BY <2>1, <2>3, <3>4 DEF Stays, AtHandshake
  <2>4. CASE ~(Active /\ session.state \in {"compile", "handshake"})
    BY <2>1, <2>4 DEF Stays, AtHandshake, Active
  <2> QED BY <2>2, <2>3, <2>4
<1>4. CASE Relinks
  BY <1>4 DEF Relinks, Stays, AtHandshake, Active
<1>5. CASE WaitRow
  <2>1. /\ UNCHANGED <<replyBuffer, fromCtl, toCtl, link, ctl>> /\ Stays /\ Active
        /\ session.state # "compile"
    BY <1>5, ConcatEmptySeq, StreamTyped
       DEF WaitRow, Goes, Stays, Waiting, Active
  <2>2. Stream' = Stream
    BY <2>1 DEF Stream
  <2>3. session'.retry = session.retry
    BY <2>1 DEF Stays, SameCounters
  <2> QED BY <2>1, <2>2, <2>3 DEF Stays, AtHandshake, Handshake, OnlyByteAnswered
<1>6. CASE HandshakeRow
  <2>1. CASE Goes("created", "compile", <<F("setup")>>) /\ UNCHANGED replyBuffer
    <3>1. /\ replyBuffer = <<>> /\ toCtl = <<>> /\ ctl.mode = "normal"
          /\ \A i \in 1..Len(fromCtl) : fromCtl[i] = "STATUS"
      BY <2>1 DEF Goes, AtCreated
    <3>2. Stream' = fromCtl
      <4>1. <<>> \o fromCtl = fromCtl
        BY ConcatEmptySeq, StreamTyped
      <4> QED BY <2>1, <3>1, <4>1 DEF Goes, Stream
    <3>3. Len(toCtl') = 1 /\ toCtl'[1] = F("setup") /\ toCtl' # <<>>
      <4>1. F("setup") \in Frame /\ Len(toCtl) = 0
        BY <3>1 DEF F, Frame
      <4> QED BY <2>1, <4>1, FrameWritten DEF Goes
    <3>4. F("setup")[1] = "setup" /\ ctl' = ctl
      BY <2>1 DEF F, Goes
    <3>5. Handshake(1)'
      BY <3>1, <3>2, <3>3, <3>4 DEF Handshake, OnlyByteAnswered, ByteAnswered
    <3> QED BY <2>1, <3>5 DEF Goes, AtHandshake
  <2>2. CASE Goes("compile", "handshake", <<F("prepare")>>) /\ SameCounters
             /\ replyBuffer' = <<>>
    <3>1. Handshake(1) /\ session'.retry = 0
      BY <2>2 DEF Goes, AtHandshake, Active, RetriesIn, SameCounters
    <3>2. Handshake(1 + 1)'
      BY <2>2, <3>1, HandshakeWritten DEF Goes
    <3>3. Handshake(2 + session.retry)'
      BY <1>1, <3>1, <3>2
    <3> QED BY <2>2, <3>3 DEF Goes, AtHandshake
  <2>3. CASE Goes("handshake", "handshake", <<F("prepare")>>)
             /\ Retries(MaxConnectionRetries) /\ UNCHANGED replyBuffer
    <3>1. PICK b \in Nat : b = 2 + session.retry
      BY <1>0
    <3>2. Handshake(b) /\ b + 1 = 2 + session'.retry
      <4>1. Active /\ session.state = "handshake"
            /\ session'.retry = session.retry + 1
        BY <2>3 DEF Goes, Active, Retries
      <4> QED BY <1>0, <3>1, <4>1 DEF AtHandshake
    <3>3. Handshake(b + 1)'
      BY <2>3, <3>2, HandshakeWritten DEF Goes
    <3>4. Handshake(2 + session.retry)'
      BY <1>1, <3>2, <3>3
    <3> QED BY <2>3, <3>4 DEF Goes, AtHandshake
  <2>4. CASE Goes("handshake", "settle", <<>>)
    BY <2>4 DEF Goes, AtHandshake
  <2> QED BY <1>6, <2>1, <2>2, <2>3, <2>4 DEF HandshakeRow
<1>7. CASE BlockRow \/ CommitRow
  <2>1. session'.state \notin {"compile", "handshake"}
    BY <1>7 DEF BlockRow, CommitRow, Goes
  <2> QED BY <2>1 DEF AtHandshake
<1> QED
  BY <1>2, <1>3, <1>4, <1>5, <1>6, <1>7, TickRow, EnvironmentCases DEF Next

\* From the handshake's ACK on, one reply less than were to come.
LEMMA AckCounts ==
    ASSUME Typed, Active, Linked, session.state = "handshake",
           NEW bound \in Nat, Handshake(bound), IsBlockReply("ACK"),
           replyBuffer' = <<>>, UNCHANGED <<link, fromCtl, toCtl, ctl>>
    PROVE  Counted(bound - 1)'
<1>1. PICK n \in Nat, m \in Nat : n = Len(Stream) /\ m = Len(toCtl)
  BY StreamTyped
<1>2. Len(replyBuffer) = 1 /\ replyBuffer[1] = "ACK" /\ n >= 1 /\ Stream[1] = "ACK"
  BY <1>1, StreamTyped DEF IsBlockReply
<1>3. Len(Stream') = n - 1
  BY <1>1, <1>2, StreamConsumed
<1>4. n + m <= bound
  <2>1. 1 \in 1..n /\ ~(1 + bound <= n + m)
    BY <1>1, <1>2 DEF Handshake
  <2> QED BY <2>1
<1>5. NoScan'
  <2>1. ~(link = "up" /\ ctl.mode = "normal") /\ ctl.mode # "resetting"
    BY <1>1, <1>2 DEF Handshake
  <2>2. ctl.mode \in {"normal", "transfer", "resetting"}
    BY DEF Typed, TypeOK, Controller
  <2> QED BY <2>1, <2>2 DEF NoScan
<1>6. OnlyByteAnswered'
  BY DEF Handshake, OnlyByteAnswered
<1> QED BY <1>1, <1>3, <1>4, <1>5, <1>6 DEF Counted

LEMMA BlockWritten ==
    ASSUME Typed, NEW bound \in Int, Counted(bound), toCtl' = toCtl \o BlockAttempt,
           UNCHANGED <<link, fromCtl, ctl>>,
           replyBuffer' = replyBuffer \/ (Len(replyBuffer) = 1 /\ replyBuffer' = <<>>)
    PROVE  Counted(bound + 1)'
<1>1. PICK n \in Nat, m \in Nat : n = Len(Stream) /\ m = Len(toCtl)
  BY StreamTyped
<1>2. n + m <= bound /\ NoScan /\ OnlyByteAnswered
  BY <1>1 DEF Counted
<1>3. /\ Len(toCtl') = m + 1 /\ toCtl'[m + 1][1] = "block"
      /\ \A j \in 1..m : toCtl'[j] = toCtl[j]
  <2> DEFINE f == <<"block", session.blockIndex>>
  <2>1. f \in Frame /\ f[1] = "block"
    BY ConfigTransferAssumption DEF Frame, Typed, TypeOK, Session, Blocks
  <2>2. toCtl' = toCtl \o <<f>>
    BY DEF BlockAttempt
  <2> HIDE DEF f
  <2> QED BY <1>1, <2>1, <2>2, FrameWritten
<1>4. Len(Stream') <= n /\ Len(Stream') \in Int
  <2>1. CASE replyBuffer' = replyBuffer
    BY <1>1, <2>1 DEF Stream
  <2>2. CASE replyBuffer' = <<>>
    BY <1>1, <2>2, StreamConsumed
  <2> QED BY <2>1, <2>2
<1>5. OnlyByteAnswered'
  <2>1. \A j \in 1..m + 1 : j \in 1..m \/ j = m + 1
    OBVIOUS
  <2> QED BY <1>1, <1>2, <1>3, <2>1 DEF OnlyByteAnswered, ByteAnswered
<1>6. NoScan'
  BY <1>2 DEF NoScan
<1> QED BY <1>2, <1>3, <1>4, <1>5, <1>6 DEF Counted

\* A block's retry after a NAK, or its end after an ACK: a reply is consumed.
LEMMA ReplyConsumed ==
    ASSUME Typed, NEW bound \in Int, Counted(bound), Len(replyBuffer) = 1,
           replyBuffer' = <<>>, UNCHANGED <<link, fromCtl, toCtl, ctl>>
    PROVE  Counted(bound - 1)'
<1>1. Len(Stream') = Len(Stream) - 1 /\ Len(Stream) \in Nat /\ Len(toCtl) \in Nat
  BY StreamConsumed, StreamTyped
<1>2. OnlyByteAnswered' /\ NoScan'
  BY DEF Counted, OnlyByteAnswered, NoScan
<1> QED BY <1>1, <1>2 DEF Counted

LEMMA CountedAtMost ==
    ASSUME Typed', NEW a \in Int, NEW b \in Int, a <= b, Counted(a)'
    PROVE  Counted(b)'
<1>1. Len(Stream)' \in Nat /\ Len(toCtl)' \in Nat
  <2>1. /\ replyBuffer' \in Seq(Reply) /\ fromCtl' \in Seq(Reply)
        /\ toCtl' \in Seq(Frame)
    BY DEF Typed, TypeOK
  <2>2. replyBuffer' \o fromCtl' \in Seq(Reply)
    BY <2>1, ConcatProperties
  <2> QED BY <2>1, <2>2, LenProperties DEF Stream
<1> QED BY <1>1 DEF Counted

LEMMA SentGrows ==
    ASSUME NEW b \in Nat, NEW M \in Nat
    PROVE  (b + 1) * M = b * M + M /\ b * M \in Nat /\ 0 * M = 0
OBVIOUS

\* Each attempt at a block adds one answer, each block acknowledged takes one.
LEMMA BlockCountStep ==
    ASSUME Typed, Typed', Linked, RetriesIn, AtHandshake, AtBlocks, [Next]_vars
    PROVE  AtBlocks'
<1> USE ConfigTransferAssumption
<1>0. /\ session.retry \in Nat /\ session.blockIndex \in Nat
      /\ MaxConnectionRetries \in Nat /\ MaxBlockRetries \in Nat
      /\ BlockCount \in Nat
  BY DEF Typed, TypeOK, Session, Blocks
\* The bounds, fixed: what a step counts from.
<1>1. PICK s \in Int :
        /\ s = Sent
        /\ s = 1 + MaxConnectionRetries + session.blockIndex * MaxBlockRetries
        /\ session.blockIndex = 0 => s = 1 + MaxConnectionRetries
  <2>1. session.blockIndex * MaxBlockRetries \in Nat /\ 0 * MaxBlockRetries = 0
    BY <1>0, SentGrows
  <2> QED BY <1>0, <2>1 DEF Sent
<1>2. SurplusReplies \in Int
  <2>1. BlockCount * MaxBlockRetries \in Nat
    BY <1>0, SentGrows
  <2> QED BY <1>0, <2>1 DEF SurplusReplies
<1>3. CASE Ends
  BY <1>3 DEF Ends, AtBlocks, Active
<1>4. ASSUME Stays, Active, session.state # "final-status",
             \A bound \in Int : Counted(bound) => Counted(bound)'
      PROVE  AtBlocks'
  <2>1. session'.state = session.state /\ session'.retry = session.retry
        /\ Sent' = Sent /\ s + session.retry + 1 \in Int
        /\ 1 + MaxConnectionRetries \in Int
    BY <1>0, <1>4 DEF Stays, SameCounters, Sent
  <2>2. session.state = "settle" => Counted(1 + MaxConnectionRetries)'
    BY <1>4, <2>1 DEF AtBlocks
  <2>3. session.state = "block-gap" => Counted(s)'
    BY <1>1, <1>4 DEF AtBlocks
  <2>4. session.state = "block-ack" => Counted(s + session.retry + 1)'
    <3>1. PICK b \in Int : b = s + session.retry + 1
      BY <2>1
    <3>2. session.state = "block-ack" => Counted(b)'
      BY <1>1, <1>4, <3>1 DEF AtBlocks
    <3>3. b = s + session'.retry + 1
      BY <2>1, <3>1
    <3> QED BY <3>2, <3>3 DEF Counted
  <2>5. session.state = "post-image" => Counted(SurplusReplies)'
    BY <1>2, <1>4 DEF AtBlocks
  <2> QED BY <1>1, <2>1, <2>2, <2>3, <2>4, <2>5 DEF AtBlocks, Counted
<1>5. CASE Receives \/ Drops \/ ControllerActs \/ UNCHANGED vars
  <2>1. Stays
    BY <1>5, ControllerStays DEF Receives, Drops, vars, Stays, SameCounters
  <2>2. CASE Active /\ session.state # "final-status"
    BY <1>4, <1>5, <2>1, <2>2, CountedKept
  <2>3. CASE ~(Active /\ session.state # "final-status")
    BY <2>1, <2>3 DEF Stays, AtBlocks, Active
  <2> QED BY <2>2, <2>3
<1>6. CASE Relinks
  BY <1>6 DEF Relinks, Stays, AtBlocks, Active
<1>7. CASE WaitRow
  <2>1. /\ UNCHANGED <<replyBuffer, fromCtl, toCtl, link, ctl>> /\ Stays /\ Active
    BY <1>7, ConcatEmptySeq, StreamTyped
       DEF WaitRow, Goes, Stays, Waiting, Active
  <2>2. Stream' = Stream
    BY <2>1 DEF Stream
  <2>3. CASE session.state # "final-status"
    BY <1>4, <2>1, <2>2, <2>3 DEF Counted, OnlyByteAnswered, NoScan
  <2>4. CASE session.state = "final-status"
    BY <2>1, <2>4 DEF Stays, AtBlocks
  <2> QED BY <2>3, <2>4
<1>8. CASE HandshakeRow
  <2>1. CASE Goes("handshake", "settle", <<>>) /\ IsBlockReply("ACK")
             /\ replyBuffer' = <<>>
    <3>1. PICK b \in Nat : b = 2 + session.retry
      BY <1>0
    <3>2. Active /\ session.state = "handshake" /\ b <= 2 + MaxConnectionRetries
      BY SMTT(40), <1>0, <2>1, <3>1 DEF Goes, Active, RetriesIn
    <3>3. Handshake(b)
      BY <3>1, <3>2 DEF AtHandshake
    <3>4. Counted(b - 1)'
      BY <2>1, <3>2, <3>3, AckCounts, ConcatEmptySeq, StreamTyped DEF Goes
    <3>5. Counted(1 + MaxConnectionRetries)'
      BY <1>0, <3>2, <3>4, CountedAtMost
    <3> QED BY <2>1, <3>5 DEF Goes, AtBlocks
  <2>2. CASE session'.state \in {"compile", "handshake"}
    BY <2>2 DEF AtBlocks
  <2> QED BY <1>8, <2>1, <2>2 DEF HandshakeRow, Goes
<1>9. CASE BlockRow
  <2>1. ASSUME NEW from \in {"settle", "block-gap"},
               Goes(from, "block-ack", BlockAttempt), SameCounters,
               UNCHANGED replyBuffer
        PROVE  AtBlocks'
    <3>1. Active /\ session.state = from /\ session.retry = 0
          /\ (from = "settle" => session.blockIndex = 0)
      BY <2>1 DEF Goes, Active, RetriesIn
    <3>2. Counted(s)
      BY <1>1, <2>1, <3>1 DEF AtBlocks
    <3>3. Counted(s + 1)'
      BY <2>1, <3>2, BlockWritten DEF Goes
    <3>4. Sent' = s /\ s + 1 = Sent' + session'.retry + 1
      BY <1>1, <2>1, <3>1 DEF SameCounters, Sent
    <3>5. Counted(Sent + session.retry + 1)'
      BY <3>3, <3>4 DEF Counted
    <3> QED BY <2>1, <3>5 DEF Goes, AtBlocks
  <2>2. CASE /\ Goes("block-ack", "block-ack", BlockAttempt)
             /\ Retries(MaxBlockRetries)
             /\ replyBuffer' = replyBuffer
                   \/ (Len(replyBuffer) = 1 /\ replyBuffer' = <<>>)
    <3>1. PICK b \in Int : b = s + session.retry + 1
      BY <1>0
    <3>2. Counted(b)
      BY <1>1, <2>2, <3>1 DEF AtBlocks, Goes, Active
    <3>3. Counted(b + 1)'
      BY <2>2, <3>2, BlockWritten DEF Goes
    <3>4. session'.retry = session.retry + 1 /\ Sent' = s
      BY <1>1, <2>2 DEF Retries, Sent
    <3>5. b + 1 = Sent' + session'.retry + 1
      BY <1>0, <3>1, <3>4
    <3>6. Counted(Sent + session.retry + 1)'
      BY <3>3, <3>5 DEF Counted
    <3> QED BY <2>2, <3>6 DEF Goes, AtBlocks
\* An acknowledged block: its retries are part of what is sent from now on.
  <2>a. ASSUME NEW to, Goes("block-ack", to, <<>>), Len(replyBuffer) = 1,
               replyBuffer' = <<>>
        PROVE  Counted(s + MaxBlockRetries)'
    <3>1. PICK b \in Int : b = s + session.retry + 1
      BY <1>0
    <3>2. Counted(b) /\ session.retry <= MaxBlockRetries
      BY <1>1, <2>a, <3>1 DEF AtBlocks, Goes, Active, RetriesIn
    <3>3. Counted(b - 1)'
      BY <2>a, <3>2, ReplyConsumed, ConcatEmptySeq, StreamTyped DEF Goes
    <3> QED BY <1>0, <3>1, <3>2, <3>3, CountedAtMost
  <2>3. CASE /\ Goes("block-ack", "block-gap", <<>>)
             /\ Len(replyBuffer) = 1 /\ replyBuffer' = <<>>
             /\ session'.blockIndex = session.blockIndex + 1
    <3>1. Sent' = s + MaxBlockRetries
      <4>1. (session.blockIndex + 1) * MaxBlockRetries
              = session.blockIndex * MaxBlockRetries + MaxBlockRetries
            /\ session.blockIndex * MaxBlockRetries \in Nat
        BY <1>0, SentGrows
      <4>2. Sent' = 1 + MaxConnectionRetries
                      + (session.blockIndex + 1) * MaxBlockRetries
        BY <2>3 DEF Sent
      <4> QED BY <1>0, <1>1, <4>1, <4>2
    <3>2. Counted(Sent)'
      BY <2>3, <2>a, <3>1 DEF Counted
    <3> QED BY <2>3, <3>2 DEF Goes, AtBlocks
  <2>4. CASE /\ Goes("block-ack", "post-image", <<>>)
             /\ Len(replyBuffer) = 1 /\ replyBuffer' = <<>>
             /\ session.blockIndex + 1 = BlockCount
    <3>1. SurplusReplies = s + MaxBlockRetries
      <4>1. (session.blockIndex + 1) * MaxBlockRetries
              = session.blockIndex * MaxBlockRetries + MaxBlockRetries
            /\ session.blockIndex * MaxBlockRetries \in Nat
        BY <1>0, SentGrows
      <4>2. SurplusReplies = 1 + MaxConnectionRetries
                               + (session.blockIndex + 1) * MaxBlockRetries
        BY <2>4 DEF SurplusReplies
      <4> QED BY <1>0, <1>1, <4>1, <4>2
    <3>2. Counted(SurplusReplies)'
      BY <2>4, <2>a, <3>1
    <3> QED BY <2>4, <3>2 DEF Goes, AtBlocks
  <2> QED BY <1>9, <2>1, <2>2, <2>3, <2>4 DEF BlockRow
<1>10. CASE CommitRow
  <2>1. session'.state \notin {"settle", "block-gap", "block-ack", "post-image"}
    BY <1>10 DEF CommitRow, Goes
  <2> QED BY <2>1 DEF AtBlocks
<1> QED
  BY <1>3, <1>5, <1>6, <1>7, <1>8, <1>9, <1>10, TickRow, EnvironmentCases DEF Next

-----------------------------------------------------------------------------
(* The commit frame's reply, the query's, and what follows *)

\* While the post-image reply is awaited, only the commit frame brings zeros.
LEMMA StatusKept ==
    ASSUME Typed, NoScan, StatusFrames, Active, session.state # "final-status",
           Receives \/ Drops \/ ControllerActs \/ UNCHANGED vars
    PROVE  NoScan' /\ StatusFrames'
<1>0. StatusLength \in Nat
  BY ConfigTransferAssumption
<1>1. PICK n \in Nat, m \in Nat : n = Len(Stream) /\ m = Len(toCtl)
  BY StreamTyped
<1>2. CASE Receives \/ UNCHANGED vars
  <2>1. Stream' = Stream /\ UNCHANGED <<toCtl, ctl, link>>
    BY <1>2 DEF Receives, vars, Stream
  <2> QED BY <2>1 DEF NoScan, StatusFrames
<1>3. CASE Drops
  <2>1. toCtl' = <<>> /\ link' = "lost" /\ ctl' = ctl
    BY <1>3 DEF Drops
  <2>2. /\ Len(Stream') \in Nat /\ Len(Stream') <= n
        /\ \A i \in 1..Len(Stream') : i \in 1..n /\ Stream'[i] = Stream[i]
    BY <1>1, <1>3, StreamDropped DEF Drops
  <2>3. \A i \in 1..Len(Stream') : i > StatusLength => Stream'[i] = "ZERO"
    <3>1. CASE toCtl = <<>>
      BY <1>1, <2>2, <3>1 DEF StatusFrames
    <3>2. CASE toCtl # <<>>
      <4>1. m > 0 /\ n + m - 1 < StatusLength
        BY <1>1, <3>2, EmptySeq, StreamTyped DEF StatusFrames
      <4> QED BY <1>0, <2>2, <4>1
    <3> QED BY <3>1, <3>2
  <2> QED BY <2>1, <2>3 DEF NoScan, StatusFrames
<1>4. ASSUME ControllerActs PROVE NoScan' /\ StatusFrames'
  <2>0. replyBuffer' = replyBuffer
    BY <1>4, ControllerStays
  <2>1. CASE Answers
    <3>1. PICK family \in ByteAnswered, bytes \in Seq(Reply) :
            /\ Taking(family) /\ Len(bytes) <= 1 /\ fromCtl' = fromCtl \o bytes
            /\ ctl'.mode = IF family = "block" THEN ctl.mode ELSE "transfer"
      BY <2>1 DEF Answers
    <3>2. /\ m > 0 /\ Len(toCtl') = m - 1 /\ link = "up" /\ link' = link
          /\ toCtl[1][1] = family /\ toCtl # <<>>
          /\ \A j \in 1..m - 1 : toCtl'[j] = toCtl[j + 1] /\ j + 1 \in 1..m
      BY <1>1, <3>1, FrameTaken, EmptySeq
    <3>3. /\ toCtl[m] = F("commit") /\ n + m - 1 < StatusLength
          /\ \A j \in 1..m - 1 : toCtl[j][1] \in ByteAnswered
      BY <1>1, <3>2 DEF StatusFrames
    <3>4. m > 1
      BY <3>2, <3>3 DEF F, ByteAnswered
    <3>5. Len(bytes) \in Nat /\ Len(Stream') = n + Len(bytes)
      BY <1>1, <2>0, <3>1, StreamGrows, LenProperties
    <3>6. toCtl'[m - 1] = F("commit")
      <4>1. m - 1 \in 1..m - 1 /\ (m - 1) + 1 = m
        BY <3>4
      <4>2. toCtl'[m - 1] = toCtl[(m - 1) + 1]
        BY <3>2, <4>1
      <4> QED BY <3>3, <4>1, <4>2
    <3>7. \A j \in 1..(m - 1) - 1 : toCtl'[j][1] \in ByteAnswered
      <4>1. \A j \in 1..(m - 1) - 1 : j \in 1..m - 1 /\ j + 1 \in 1..m - 1
        OBVIOUS
      <4> QED BY <3>2, <3>3, <4>1
    <3>8. n + Len(bytes) + (m - 1) - 1 < StatusLength
      BY <1>0, <3>1, <3>3, <3>5
    <3>9. toCtl' # <<>>
      BY <3>2, <3>4
    <3>10. NoScan'
      BY <3>1, <3>2 DEF NoScan
    <3> QED BY <3>2, <3>5, <3>6, <3>7, <3>8, <3>9, <3>10 DEF StatusFrames
  <2>2. CASE AnswersCommit
    <3>1. PICK bytes \in Seq(Reply) :
            /\ Taking("commit") /\ fromCtl' = fromCtl \o bytes /\ ctl'.mode = ctl.mode
            /\ \A i \in 1..Len(bytes) : i > 1 => bytes[i] = "ZERO"
      BY <2>2 DEF AnswersCommit
    <3>2. /\ m > 0 /\ Len(toCtl') = m - 1 /\ link' = link
          /\ toCtl[1][1] = "commit" /\ toCtl # <<>>
      BY <1>1, <3>1, FrameTaken, EmptySeq
    <3>3. m = 1 /\ n < StatusLength
      BY <1>1, <3>2 DEF StatusFrames, ByteAnswered
    <3>4. toCtl' = <<>>
      <4>1. toCtl' \in Seq(Frame)
        BY <3>1, <3>2, StreamTyped, HeadTailProperties DEF Taking
      <4> QED BY <3>2, <3>3, <4>1, EmptySeq
    <3>5. PICK k \in Nat : k = Len(bytes)
      BY LenProperties
    <3>6. /\ Len(Stream') = n + k
          /\ \A i \in 1..k : Stream'[n + i] = bytes[i]
      BY <1>1, <2>0, <3>1, <3>5, StreamGrows
    <3>7. ASSUME NEW i \in 1..n + k, i > StatusLength PROVE Stream'[i] = "ZERO"
      <4>1. i - n \in 1..k /\ i - n > 1 /\ n + (i - n) = i
        BY <1>0, <3>3, <3>7
      <4> QED BY <3>1, <3>5, <3>6, <4>1
    <3> QED BY <3>1, <3>2, <3>4, <3>6, <3>7 DEF NoScan, StatusFrames
  <2>3. CASE AnswersQuery \/ StaysSilent
    <3>1. \E family \in {"query", "begin-users", "user", "all-users",
                         "abort", "reset"} : Taking(family)
      BY <2>3 DEF AnswersQuery, StaysSilent
    <3>2. PICK family \in {"query", "begin-users", "user", "all-users",
                          "abort", "reset"} : Taking(family)
      BY <3>1
    <3>3. m > 0 /\ toCtl[1][1] = family /\ toCtl # <<>>
      BY <1>1, <3>2, FrameTaken, EmptySeq
    <3> QED BY <1>1, <3>3 DEF StatusFrames, ByteAnswered, F
  <2>4. CASE Restarts
    <3>1. Stream' = Stream /\ UNCHANGED <<link, toCtl>> /\ ctl'.mode = "normal"
          /\ link # "up"
      BY <2>0, <2>4 DEF Restarts, Stream, NoScan
    <3> QED BY <3>1 DEF StatusFrames, NoScan
  <2>5. CASE Scans
    BY <2>5 DEF Scans, NoScan
  <2> QED BY <1>4, <2>1, <2>2, <2>3, <2>4, <2>5, ControllerEffects
<1> QED BY <1>2, <1>3, <1>4

\* The buffer taken for the post-image reply reaches its first byte.
LEMMA StatusStep ==
    ASSUME Typed, Linked, AtBlocks, FewReplies, AtStatus, [Next]_vars
    PROVE  AtStatus'
<1>0. StatusLength \in Nat
  BY ConfigTransferAssumption
<1>d. AtStatus <=> (Active /\ session.state = "post-image-status" =>
                      NoScan /\ StatusFrames)
  BY DEF AtStatus
<1>p. AtStatus' <=> (Active' /\ session'.state = "post-image-status" =>
                       NoScan' /\ StatusFrames')
  BY DEF AtStatus
<1>1. CASE Ends
  BY <1>1, <1>p DEF Ends, Active
<1>2. CASE Receives \/ Drops \/ ControllerActs \/ UNCHANGED vars
  <2>1. Stays
    BY <1>2, ControllerStays DEF Receives, Drops, vars, Stays, SameCounters
  <2> QED BY <1>2, <1>d, <1>p, <2>1, StatusKept DEF Stays, Active
<1>3. CASE Relinks
  BY <1>3, <1>p DEF Relinks, Stays, Active
<1>4. CASE WaitRow
  <2>1. /\ UNCHANGED <<replyBuffer, fromCtl, toCtl, link, ctl>> /\ Stays
    BY <1>4, ConcatEmptySeq, StreamTyped DEF WaitRow, Goes, Stays, Waiting
  <2>2. Stream' = Stream
    BY <2>1 DEF Stream
  <2> QED BY <1>d, <1>p, <2>1, <2>2 DEF Stays, Active, NoScan, StatusFrames
<1>5. CASE Goes("post-image", "post-image-status", <<F("commit")>>)
           /\ UNCHANGED replyBuffer
  <2>1. PICK n \in Nat, m \in Nat : n = Len(Stream) /\ m = Len(toCtl)
    BY StreamTyped
  <2>2. n + m < StatusLength /\ NoScan /\ OnlyByteAnswered
    BY <1>5, <2>1 DEF Goes, Active, FewReplies, AtBlocks, Counted
  <2>3. Stream' = Stream /\ NoScan'
    BY <1>5, <2>2 DEF Goes, Stream, NoScan
  <2>4. /\ Len(toCtl') = m + 1 /\ toCtl'[m + 1] = F("commit") /\ toCtl' # <<>>
        /\ \A j \in 1..m : toCtl'[j] = toCtl[j]
    <3>1. F("commit") \in Frame
      BY DEF F, Frame
    <3> QED BY <1>5, <2>1, <3>1, FrameWritten DEF Goes
  <2>5. \A j \in 1..(m + 1) - 1 : toCtl'[j][1] \in ByteAnswered
    BY <2>1, <2>2, <2>4 DEF OnlyByteAnswered
  <2>6. n + (m + 1) - 1 < StatusLength
    BY <1>0, <2>2
  <2> QED BY <1>p, <2>1, <2>3, <2>4, <2>5, <2>6 DEF StatusFrames
<1>6. CASE HandshakeRow \/ BlockRow \/ CommitRow
  <2>1. CASE session'.state = "post-image-status"
    BY <1>5, <1>6, <2>1 DEF HandshakeRow, BlockRow, CommitRow, Goes
  <2>2. CASE session'.state # "post-image-status"
    BY <1>p, <2>2
  <2> QED BY <2>1, <2>2
<1> QED
  BY <1>1, <1>2, <1>3, <1>4, <1>6, TickRow, EnvironmentCases DEF Next

\* While the query's reply is awaited, no other ACK is followed by a zero.
LEMMA QueryKept ==
    ASSUME Typed, QueryFrames, Active, session.state # "final-status",
           Receives \/ Drops \/ ControllerActs \/ UNCHANGED vars
    PROVE  QueryFrames'
<1>1. PICK n \in Nat, m \in Nat : n = Len(Stream) /\ m = Len(toCtl)
  BY StreamTyped
<1>2. CASE Receives \/ UNCHANGED vars
  <2>1. Stream' = Stream /\ UNCHANGED <<toCtl, ctl, link>>
    BY <1>2 DEF Receives, vars, Stream
  <2> QED BY <2>1 DEF QueryFrames
<1>3. CASE Drops
  <2>1. toCtl' = <<>> /\ ctl' = ctl
    BY <1>3 DEF Drops
  <2>2. PICK l \in Nat :
          /\ l = Len(Stream') /\ l <= n
          /\ \A i \in 1..l : i \in 1..n /\ Stream'[i] = Stream[i]
    BY <1>1, <1>3, StreamDropped DEF Drops
  <2>3. ASSUME NEW i \in 1..l - 1, Stream'[i] = "ACK", Stream'[i + 1] = "ZERO"
        PROVE  ctl'.permanent
    <3>1. /\ i \in 1..l /\ i + 1 \in 1..l /\ i \in 1..n /\ i \in 1..n - 1
      BY <2>2
    <3>2. Stream[i] = "ACK" /\ Stream[i + 1] = "ZERO"
      BY <2>2, <2>3, <3>1
    <3> QED BY <1>1, <2>1, <3>1, <3>2 DEF QueryFrames
  <2> QED BY <2>1, <2>2, <2>3 DEF QueryFrames
<1>4. ASSUME ControllerActs PROVE QueryFrames'
  <2>0. replyBuffer' = replyBuffer
    BY <1>4, ControllerStays
  <2>1. CASE AnswersQuery
    <3>1. PICK bytes \in Seq(Reply) :
            /\ Taking("query") /\ fromCtl' = fromCtl \o bytes
            /\ Len(bytes) \in {0, 2}
            /\ Len(bytes) = 2 => (bytes[2] = "ZERO" => ctl'.permanent)
      BY <2>1 DEF AnswersQuery
    <3>2. m > 0 /\ Len(toCtl') = m - 1 /\ toCtl # <<>>
      BY <1>1, <3>1, FrameTaken, EmptySeq
    <3>3. toCtl = <<F("query")>> /\ m = 1 /\ \A i \in 1..n : Stream[i] # "ACK"
      BY <1>1, <3>2 DEF QueryFrames
    <3>4. toCtl' = <<>>
      <4>1. toCtl' \in Seq(Frame)
        BY <3>1, <3>2, StreamTyped, HeadTailProperties DEF Taking
      <4> QED BY <3>2, <3>3, <4>1, EmptySeq
    <3>5. PICK k \in Nat : k = Len(bytes)
      BY LenProperties
    <3>6. /\ Len(Stream') = n + k
          /\ \A i \in 1..n : Stream'[i] = Stream[i]
          /\ \A i \in 1..k : Stream'[n + i] = bytes[i]
      BY <1>1, <2>0, <3>1, <3>5, StreamGrows
    <3>7. ASSUME NEW i \in 1..n + k - 1, Stream'[i] = "ACK", Stream'[i + 1] = "ZERO"
          PROVE  ctl'.permanent
      <4>1. i \notin 1..n
        BY <3>3, <3>6, <3>7
      <4>2. k = 2 /\ i = n + 1
        <5>1. k = 0 \/ k = 2
          BY <3>1, <3>5
        <5>2. i \in Nat /\ i > n /\ i <= n + k - 1
          BY <4>1
        <5> QED BY <5>1, <5>2
      <4>3. bytes[2] = "ZERO"
        <5>1. 2 \in 1..k /\ i + 1 = n + 2
          BY <4>2
        <5> QED BY <3>6, <3>7, <5>1
      <4> QED BY <3>1, <3>5, <4>2, <4>3
    <3> QED BY <3>4, <3>6, <3>7 DEF QueryFrames
  <2>2. CASE Answers \/ AnswersCommit \/ StaysSilent
    <3>1. \E family \in {"setup", "prepare", "block", "commit", "begin-users",
                         "user", "all-users", "abort", "reset"} : Taking(family)
      BY <2>2 DEF Answers, ByteAnswered, AnswersCommit, StaysSilent
    <3>2. PICK family \in {"setup", "prepare", "block", "commit", "begin-users",
                          "user", "all-users", "abort", "reset"} : Taking(family)
      BY <3>1
    <3>3. toCtl[1][1] = family /\ toCtl # <<>>
      BY <3>2, FrameTaken, EmptySeq
    <3> QED BY <3>3 DEF QueryFrames, F
  <2>3. CASE Restarts
    BY <2>0, <2>3 DEF Restarts, Stream, QueryFrames
  <2>4. CASE Scans
    <3>1. /\ UNCHANGED <<link, toCtl, ctl>> /\ <<"STATUS">> \in Seq(Reply)
          /\ Len(<<"STATUS">>) = 1 /\ <<"STATUS">>[1] = "STATUS"
      BY <2>4 DEF Scans, Reply
    <3>2. /\ Len(Stream') = n + 1 /\ \A i \in 1..n : Stream'[i] = Stream[i]
          /\ \A i \in 1..1 : Stream'[n + i] = <<"STATUS">>[i]
      BY <1>1, <2>0, <2>4, <3>1, StreamGrows DEF Scans
    <3>3. Stream'[n + 1] = "STATUS"
      BY <3>1, <3>2
    <3>4. CASE toCtl = <<F("query")>> /\ \A i \in 1..n : Stream[i] # "ACK"
      <4>1. \A i \in 1..n + 1 : Stream'[i] # "ACK"
        <5>1. \A i \in 1..n + 1 : i \in 1..n \/ i = n + 1
          OBVIOUS
        <5> QED BY <3>2, <3>3, <3>4, <5>1
      <4> QED BY <3>1, <3>2, <3>4, <4>1 DEF QueryFrames
    <3>5. CASE toCtl = <<>> /\ \A i \in 1..n - 1 :
                 Stream[i] = "ACK" /\ Stream[i + 1] = "ZERO" => ctl.permanent
      <4>1. ASSUME NEW i \in 1..n + 1 - 1, Stream'[i] = "ACK", Stream'[i + 1] = "ZERO"
            PROVE  ctl'.permanent
        <5>1. i + 1 # n + 1
          BY <3>3, <4>1
        <5>2. i \in 1..n - 1 /\ i \in 1..n /\ i + 1 \in 1..n
          BY <5>1
        <5> QED BY <3>1, <3>2, <3>5, <4>1, <5>2
      <4> QED BY <3>1, <3>2, <3>5, <4>1 DEF QueryFrames
    <3> QED BY <1>1, <3>4, <3>5 DEF QueryFrames
  <2> QED BY <1>4, <2>1, <2>2, <2>3, <2>4, ControllerEffects
<1> QED BY <1>2, <1>3, <1>4

\* What is left of the post-image reply when the query is written is zeros.
LEMMA QueryStep ==
    ASSUME Typed, Linked, AtStatus, AtQuery, [Next]_vars PROVE AtQuery'
<1> USE DEF AtQuery
<1>0. StatusLength \in Nat
  BY ConfigTransferAssumption
<1>1. CASE Ends
  BY <1>1 DEF Ends, Active
<1>2. CASE Receives \/ Drops \/ ControllerActs \/ UNCHANGED vars
  <2>1. Stays
    BY <1>2, ControllerStays DEF Receives, Drops, vars, Stays, SameCounters
  <2> QED BY <1>2, <2>1, QueryKept DEF Stays, Active
<1>3. CASE Relinks
  BY <1>3 DEF Relinks, Stays, Active
<1>4. CASE WaitRow
  <2>1. /\ UNCHANGED <<replyBuffer, fromCtl, toCtl, link, ctl>> /\ Stays
    BY <1>4, ConcatEmptySeq, StreamTyped DEF WaitRow, Goes, Stays, Waiting
  <2>2. Stream' = Stream
    BY <2>1 DEF Stream
  <2> QED BY <2>1, <2>2 DEF Stays, Active, QueryFrames
<1>5. CASE Goes("post-image-status", "f9-ack", <<F("query")>>)
           /\ Len(replyBuffer) >= StatusLength /\ replyBuffer' = <<>>
  <2>1. PICK n \in Nat, m \in Nat : n = Len(Stream) /\ m = Len(toCtl)
    BY StreamTyped
  <2>2. StatusFrames /\ n >= Len(replyBuffer) /\ Len(replyBuffer) \in Nat
    BY <1>5, <2>1, StreamTyped DEF Goes, AtStatus, Active
  <2>3. toCtl = <<>> /\ \A i \in 1..n : i > StatusLength => Stream[i] = "ZERO"
    <3>1. CASE toCtl # <<>>
      <4>1. m > 0 /\ n + m - 1 < StatusLength
        BY <2>1, <2>2, <3>1, EmptySeq, StreamTyped DEF StatusFrames
      <4> QED BY <1>0, <1>5, <2>2, <4>1
    <3> QED BY <2>1, <2>2, <3>1 DEF StatusFrames
  <2>4. toCtl' = <<F("query")>>
    <3>1. <<>> \o <<F("query")>> = <<F("query")>>
      BY ConcatEmptySeq DEF F
    <3> QED BY <1>5, <2>3, <3>1 DEF Goes
  <2>5. PICK k \in Nat :
          /\ k = Len(replyBuffer) /\ Len(Stream') = n - k
          /\ \A i \in 1..n - k : Stream'[i] = Stream[i + k]
    BY <1>5, <2>1, StreamConsumed DEF Goes
  <2>6. ASSUME NEW i \in 1..n - k PROVE Stream'[i] # "ACK"
    <3>1. i + k \in 1..n /\ i + k > StatusLength
      BY <1>0, <1>5, <2>2, <2>5
    <3>2. Stream'[i] = "ZERO"
      BY <2>3, <2>5, <3>1
    <3> QED BY <3>2
  <2> QED BY <2>4, <2>5, <2>6 DEF QueryFrames
<1>6. CASE HandshakeRow \/ BlockRow \/ CommitRow
  <2>1. CASE session'.state = "f9-ack"
    BY <1>5, <1>6, <2>1 DEF HandshakeRow, BlockRow, CommitRow, Goes
  <2>2. CASE session'.state # "f9-ack"
    BY <2>2
  <2> QED BY <2>1, <2>2
<1> QED
  BY <1>1, <1>2, <1>3, <1>4, <1>6, TickRow, EnvironmentCases DEF Next

\* An ACK and a zero are the query's answer, and say the image is permanent.
LEMMA LateStep ==
    ASSUME Typed, Linked, AtQuery, AtLate, [Next]_vars PROVE AtLate'
<1>1. CASE Ends
  BY <1>1 DEF Ends, AtLate
<1>2. CASE Receives \/ Relinks \/ UNCHANGED vars
  BY <1>2 DEF Receives, Relinks, vars, Stays, AtLate
<1>3. CASE Drops
  BY <1>3 DEF Drops, Stays, AtLate
<1>4. CASE ControllerActs
  <2>1. Stays
    BY <1>4, ControllerStays
  <2> SUFFICES ASSUME outcome \in {"none", "completed"}, session.state \in Late,
                      ctl.permanent,
                      \A j \in 1..Len(toCtl) : toCtl[j][1] # "query"
               PROVE  ctl'.permanent /\ \A j \in 1..Len(toCtl') : toCtl'[j][1] # "query"
    BY <2>1 DEF Stays, AtLate
  <2>2. ASSUME NEW family, Taking(family)
        PROVE  /\ \A j \in 1..Len(toCtl') : toCtl'[j][1] # "query"
               /\ family # "query"
    <3>1. 1 \in 1..Len(toCtl) /\ toCtl[1][1] = family
      BY <2>2, FrameTaken
    <3> QED BY <2>2, <3>1, FrameTaken
  <2>3. CASE Answers \/ AnswersCommit \/ StaysSilent
    BY <2>2, <2>3 DEF Answers, AnswersCommit, StaysSilent
  <2>4. CASE AnswersQuery
    BY <2>2, <2>4 DEF AnswersQuery
  <2>5. CASE Restarts \/ Scans
    BY <2>5 DEF Restarts, Scans
  <2> QED BY <1>4, <2>3, <2>4, <2>5, ControllerEffects
<1>5. CASE WaitRow
  <2>1. UNCHANGED <<toCtl, ctl>> /\ Stays
    BY <1>5, ConcatEmptySeq, StreamTyped DEF WaitRow, Goes, Stays, Waiting
  <2> QED BY <2>1 DEF Stays, AtLate
<1>6. ASSUME NEW family \in {"begin-users", "user", "all-users"}, NEW i \in Nat,
             toCtl' = toCtl \o <<<<family, i>>>>,
             \A j \in 1..Len(toCtl) : toCtl[j][1] # "query"
      PROVE  \A j \in 1..Len(toCtl') : toCtl'[j][1] # "query"
  <2> DEFINE f == <<family, i>>
  <2>1. f \in Frame /\ f[1] # "query"
    BY DEF Frame
  <2>2. toCtl' = toCtl \o <<f>>
    BY <1>6
  <2> HIDE DEF f
  <2>3. PICK m \in Nat : m = Len(toCtl)
    BY StreamTyped
  <2>4. /\ Len(toCtl') = m + 1 /\ toCtl'[m + 1] = f
        /\ \A j \in 1..m : toCtl'[j] = toCtl[j]
    BY <2>1, <2>2, <2>3, FrameWritten
  <2>5. \A j \in 1..m + 1 : j \in 1..m \/ j = m + 1
    OBVIOUS
  <2> QED BY <1>6, <2>1, <2>3, <2>4, <2>5
<1>7. CASE Goes("f9-ack", "user-transfer", <<F("begin-users")>>)
           /\ Len(replyBuffer) >= 2
           /\ replyBuffer[1] = "ACK" /\ replyBuffer[2] = "ZERO"
  <2>1. PICK n \in Nat : n = Len(Stream)
    BY StreamTyped
  <2>2. /\ n >= 2 /\ 1 \in 1..Len(replyBuffer) /\ 2 \in 1..Len(replyBuffer)
    BY <1>7, <2>1, StreamTyped
  <2>3. Stream[1] = "ACK" /\ Stream[1 + 1] = "ZERO"
    BY <1>7, <2>2, StreamTyped
  <2>4. toCtl = <<>> /\ ctl.permanent
    <3>1. QueryFrames
      BY <1>7 DEF Goes, Active, AtQuery
    <3>2. 1 \in 1..n /\ 1 \in 1..n - 1
      BY <2>2
    <3> QED BY <2>1, <2>3, <3>1, <3>2 DEF QueryFrames
  <2>5. \A j \in 1..Len(toCtl') : toCtl'[j][1] # "query"
    <3>1. \A j \in 1..Len(toCtl) : toCtl[j][1] # "query"
      BY <2>4
    <3> QED BY <1>6, <1>7, <3>1 DEF Goes, F
  <2> QED BY <1>7, <2>4, <2>5 DEF Goes, AtLate
<1>8. CASE Goes("user-transfer", "user-transfer", <<<<"user", session.userIndex>>>>)
           \/ Goes("user-transfer", "final-status", <<F("all-users")>>)
  <2>1. ctl' = ctl /\ ctl.permanent
        /\ \A j \in 1..Len(toCtl) : toCtl[j][1] # "query"
    BY <1>8 DEF Goes, AtLate, Late
  <2>2. session.userIndex \in Nat
    BY DEF Typed, TypeOK, Session
  <2>3. \A j \in 1..Len(toCtl') : toCtl'[j][1] # "query"
    BY <1>6, <1>8, <2>1, <2>2 DEF Goes, F
  <2> QED BY <2>1, <2>3 DEF AtLate
<1>9. CASE HandshakeRow \/ BlockRow \/ CommitRow
  <2>1. CASE session'.state \notin Late
    BY <2>1 DEF AtLate
  <2>2. CASE session'.state \in Late
    <3>1. CASE /\ session.state = "final-status" /\ outcome = "none"
               /\ UNCHANGED <<toCtl, ctl>>
      BY <3>1 DEF AtLate, Late
    <3> QED BY <1>7, <1>8, <1>9, <2>2, <3>1
            DEF HandshakeRow, BlockRow, CommitRow, Goes, Late
  <2> QED BY <2>1, <2>2
<1> QED
  BY <1>1, <1>2, <1>3, <1>4, <1>5, <1>9, TickRow, EnvironmentCases DEF Next

-----------------------------------------------------------------------------
(* Completed means permanent *)

CountInv == Typed /\ Linked /\ RetriesIn /\ AtCreated /\ AtHandshake /\ AtBlocks

LEMMA CountInvInit == Init => CountInv /\ Permanence
<1> SUFFICES ASSUME Init PROVE CountInv /\ Permanence
  OBVIOUS
<1>1. /\ session.state = "created" /\ session.retry = 0 /\ session.blockIndex = 0
      /\ replyBuffer = <<>> /\ toCtl = <<>> /\ fromCtl = <<>>
      /\ ctl.mode = "normal"
  BY DEF Init
<1>2. RetriesIn /\ AtCreated /\ AtHandshake /\ AtBlocks
  BY <1>1 DEF RetriesIn, AtCreated, AtHandshake, AtBlocks, Active
<1>3. Permanence
  BY <1>1 DEF Permanence, AtStatus, AtQuery, AtLate, Active, Late
<1> QED BY <1>2, <1>3, TypedInit, LifecycleInit DEF CountInv

LEMMA CountInvStep ==
    ASSUME CountInv, [Next]_vars PROVE CountInv'
BY TypedStep, LifecycleStep, RetriesStep, CreatedStep, HandshakeStep,
   BlockCountStep DEF CountInv

LEMMA PermanenceStep ==
    ASSUME CountInv, FewReplies, Permanence, [Next]_vars PROVE Permanence'
BY StatusStep, QueryStep, LateStep DEF CountInv, Permanence

\* The invariant says what the transfer claims.
LEMMA PermanenceHolds ==
    ASSUME CountInv, Permanence PROVE CompletedMeansPermanent
BY DEF CountInv, Permanence, Typed, Linked, AtLate, Late, CompletedMeansPermanent

\* Whatever the waits and retries: a transfer in which never more replies are
\* about, when the commit frame is written, than a post-image reply has bytes
\* is reported completed only if the controller has made its whole image
\* permanent, although the session takes whatever bytes have come for the
\* reply it waits for (transfer-runner.mjs onTick(), config-transfer.mjs
\* acceptsPostImageStatus, acceptsF9Reply).
THEOREM TransferMadePermanent ==
    Spec /\ []FewReplies => []CompletedMeansPermanent
<1>1. Init => CountInv /\ Permanence
  BY CountInvInit
<1>2. CountInv /\ Permanence /\ FewReplies /\ [Next]_vars => CountInv' /\ Permanence'
  BY CountInvStep, PermanenceStep
<1>3. CountInv /\ Permanence => CompletedMeansPermanent
  BY PermanenceHolds
<1> QED BY <1>1, <1>2, <1>3, PTL DEF Spec

\* Whatever the waits and retries, no more late replies can be taken for the
\* post-image reply than there were retries, and one for the setup frame
\* (transfer-runner.mjs onTick(), config-transfer.mjs retries).
THEOREM TransferSurplusBounded == Spec => []SurplusBounded
<1>1. Init => CountInv
  BY CountInvInit
<1>2. CountInv /\ [Next]_vars => CountInv'
  BY CountInvStep
<1>3. CountInv => SurplusBounded
  <2> SUFFICES ASSUME Typed, AtBlocks, Active, session.state = "post-image"
               PROVE  Len(replyBuffer) + Len(fromCtl) + Len(toCtl) <= SurplusReplies
    BY DEF CountInv, SurplusBounded
  <2>1. Len(Stream) + Len(toCtl) <= SurplusReplies
    BY DEF AtBlocks, Counted
  <2> QED BY <2>1, StreamTyped
<1> QED BY <1>1, <1>2, <1>3, PTL DEF Spec
=============================================================================
