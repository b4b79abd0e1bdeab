--------------------------- MODULE ConfigTransfer ---------------------------
(***************************************************************************)
(* One configuration transfer: the state machine of                        *)
(* bridge/config-transfer.mjs (ConfigurationTransferSession) driven by the *)
(* runner of bridge/transfer-runner.mjs, over the TCP connection to a      *)
(* Scene Controller.                                                       *)
(*                                                                         *)
(* The 100 ms timer, the socket's events and the controller interleave     *)
(* freely; each callback is one action.  TCP neither loses nor reorders    *)
(* bytes while it is up, but a reply may be late by any number of ticks,   *)
(* and a dropped link loses whatever was in flight.  Nothing in a reply    *)
(* tells which frame it answers.                                           *)
(***************************************************************************)
EXTENDS Integers, Sequences, FiniteSets

CONSTANTS
    BlockCount,          \* blocks of the image
    UserCount,           \* user payloads
    ConnectionTimeout,   \* CONNECTION_TIMEOUT_TICKS
    SettleTicks,         \* SETTLE_TICKS
    BlockTimeout,        \* BLOCK_TIMEOUT_TICKS
    PostImageTimeout,    \* POST_IMAGE_TIMEOUT_TICKS
    FinalStatusTimeout,  \* FINAL_STATUS_TIMEOUT_TICKS
    FinalStatusCount,    \* FINAL_STATUS_COUNT
    MaxConnectionRetries,
    MaxBlockRetries,
    StatusLength,        \* bytes of a post-image reply, 10 in the code
    MaxInFlight,         \* bound of the model: replies under way at once
    MaxBuffered          \* bound of the model: bytes in the reply buffer

ASSUME ConfigTransferAssumption ==
    /\ BlockCount \in Nat \ {0}
    /\ UserCount \in Nat
    /\ {ConnectionTimeout, SettleTicks, BlockTimeout, PostImageTimeout,
        FinalStatusTimeout, FinalStatusCount} \subseteq Nat \ {0}
    /\ {MaxConnectionRetries, MaxBlockRetries, MaxInFlight,
        MaxBuffered} \subseteq Nat
    /\ StatusLength \in Nat \ {0, 1}

VARIABLES
    session,     \* fields of ConfigurationTransferSession
    replyBuffer, \* bytes received and not consumed by a tick
    connected,   \* the runner's view of the link
    reconnecting,\* its three-second reconnect timer is running
    outcome,     \* what result() reported, "none" until then
    link,        \* the socket: up, lost (close event pending), down, opening
    toCtl,       \* frames on their way to the controller
    fromCtl,     \* replies on their way to the bridge
    ctl          \* the controller

runnerVars == <<session, replyBuffer, connected, reconnecting, outcome>>
netVars == <<link, toCtl, fromCtl>>
vars == <<session, replyBuffer, connected, reconnecting, outcome,
          link, toCtl, fromCtl, ctl>>

-----------------------------------------------------------------------------
(* Data *)

Blocks == 0..BlockCount - 1

SessionTerminal ==
    {"completed", "failed", "aborted", "cancelled", "disconnected",
     "connection-timeout", "post-image-timeout", "f9-timeout",
     "final-status-timeout"}

SessionStates ==
    {"created", "compile", "handshake", "settle", "block-gap", "block-ack",
     "post-image", "post-image-status", "f9-ack", "user-transfer",
     "final-status"} \cup SessionTerminal

RunnerOutcomes ==
    {"transport-write-failed", "invalid-controller-reply",
     "unexpected-disconnect"}

Session ==
    [state: SessionStates, blockIndex: Blocks,
     retry: 0..MaxConnectionRetries + MaxBlockRetries, timeout: Nat,
     settle: 0..SettleTicks, userIndex: 0..UserCount,
     finalStatusCount: 0..FinalStatusCount]

\* A frame family and the block or user it carries.  A block stands for the
\* data block and the poll that is written right behind it.
Frame == {"setup", "prepare", "block", "commit", "query", "begin-users",
          "user", "all-users", "abort", "reset"} \X Nat

F(family) == <<family, 0>>

\* The bytes that make a difference; STATUS is a whole status record.
Reply == {"ACK", "NAK", "ZERO", "OTHER", "STATUS"}

Controller ==
    [mode: {"normal", "transfer", "resetting"}, offered: SUBSET Blocks,
     stored: SUBSET Blocks, verified: BOOLEAN, permanent: BOOLEAN,
     restarted: BOOLEAN]

TypeOK ==
    /\ session \in Session
    /\ replyBuffer \in Seq(Reply)
    /\ connected \in BOOLEAN
    /\ reconnecting \in BOOLEAN
    /\ outcome \in {"none"} \cup SessionTerminal \cup RunnerOutcomes
    /\ link \in {"up", "lost", "down", "opening"}
    /\ toCtl \in Seq(Frame)
    /\ fromCtl \in Seq(Reply)
    /\ ctl \in Controller

Init ==
    /\ session = [state |-> "created", blockIndex |-> 0, retry |-> 0,
                  timeout |-> 0, settle |-> 0, userIndex |-> 0,
                  finalStatusCount |-> 0]
    /\ replyBuffer = <<>>
    /\ connected = TRUE
    /\ reconnecting = FALSE
    /\ outcome = "none"
    /\ link = "up"
    /\ toCtl = <<>>
    /\ fromCtl = <<>>
    /\ ctl = [mode |-> "normal", offered |-> {}, stored |-> {},
              verified |-> FALSE, permanent |-> FALSE, restarted |-> FALSE]

-----------------------------------------------------------------------------
(* The runner *)

Active == session.state # "created" /\ outcome = "none"

\* fail(): close the controller's socket, then report.
Fail(next, why) ==
    /\ session' = next
    /\ outcome' = why
    /\ reconnecting' = FALSE
    /\ link' = "down"
    /\ toCtl' = <<>>
    /\ fromCtl' = <<>>
    /\ UNCHANGED connected

\* apply(): write the transition's frames, then report a terminal state.  The
\* session has moved already when a write throws.  A write while `connected`
\* is false cannot happen: only final-status is left in that condition, and
\* it writes nothing.
Apply(next, frames, ifWriteThrows) ==
    IF frames # <<>> /\ link # "up"
    THEN Fail(next, ifWriteThrows)
    ELSE /\ session' = next
         /\ toCtl' = toCtl \o frames
         /\ outcome' = IF next.state \in SessionTerminal THEN next.state
                       ELSE "none"
         /\ reconnecting' = (reconnecting /\ next.state \notin SessionTerminal)
         /\ UNCHANGED <<connected, link, fromCtl>>

Step(next, frames) == Apply(next, frames, "invalid-controller-reply")

Start ==
    /\ session.state = "created"
    /\ Apply([session EXCEPT !.state = "compile"], <<F("setup")>>,
             "transport-write-failed")
    /\ UNCHANGED <<replyBuffer, ctl>>

\* REPLY_LENGTH: how many bytes the reply of a state has at least.
ReplyLength == [handshake |-> 1, block |-> 1, postImage |-> StatusLength,
                f9 |-> 2]

Required ==
    CASE session.state = "handshake" -> ReplyLength.handshake
      [] session.state = "block-ack" -> ReplyLength.block
      [] session.state = "post-image-status" -> ReplyLength.postImage
      [] session.state = "f9-ack" -> ReplyLength.f9
      [] OTHER -> 0

HasReply == Required > 0 /\ Len(replyBuffer) >= Required

\* A tick that hands the whole buffer to the session.
ConsumesReply(state) ==
    /\ Active /\ session.state = state /\ HasReply
    /\ replyBuffer' = <<>>
    /\ UNCHANGED ctl

\* A tick that finds no complete reply.
Ticks(state) ==
    /\ Active /\ session.state = state /\ ~HasReply
    /\ UNCHANGED <<replyBuffer, ctl>>

\* normalizeBlockReply: exactly one byte, ACK or NAK.
IsBlockReply(byte) == Len(replyBuffer) = 1 /\ replyBuffer[1] = byte

-----------------------------------------------------------------------------
(* Ticks, state by state *)

\* The wait of a state, in ticks.
Limit(state) ==
    CASE state = "handshake" -> ConnectionTimeout
      [] state = "block-ack" -> BlockTimeout
      [] state = "post-image-status" -> PostImageTimeout
      [] OTHER -> FinalStatusTimeout

Waiting == {"handshake", "block-ack", "post-image-status", "f9-ack",
            "final-status"}

LastTick == session.timeout + 1 = Limit(session.state)

WaitTick ==
    \E state \in Waiting :
        /\ Ticks(state)
        /\ ~LastTick
        /\ state = "final-status" =>
              session.finalStatusCount < FinalStatusCount
        /\ Step([session EXCEPT !.timeout = @ + 1], <<>>)

\* The runner empties the buffer before the handshake frame is sent.
CompileTick ==
    /\ Active /\ session.state = "compile"
    /\ replyBuffer' = <<>>
    /\ Step([session EXCEPT !.state = "handshake"], <<F("prepare")>>)
    /\ UNCHANGED ctl

\* Faulty variant, for the mutation checks: retries are not counted.
HandshakeTimeoutUncounted ==
    /\ Ticks("handshake")
    /\ LastTick
    /\ IF session.retry >= MaxConnectionRetries
       THEN Step([session EXCEPT !.timeout = 0,
                                 !.state = "connection-timeout"],
                 <<F("abort")>>)
       ELSE Step([session EXCEPT !.timeout = 0], <<F("prepare")>>)

HandshakeTimeout ==
    /\ Ticks("handshake")
    /\ LastTick
    /\ IF session.retry >= MaxConnectionRetries
       THEN Step([session EXCEPT !.timeout = 0,
                                 !.state = "connection-timeout"],
                 <<F("abort")>>)
       ELSE Step([session EXCEPT !.timeout = 0, !.retry = @ + 1],
                 <<F("prepare")>>)

HandshakeAck ==
    /\ ConsumesReply("handshake")
    /\ IsBlockReply("ACK")
    /\ Step([session EXCEPT !.state = "settle", !.timeout = 0, !.retry = 0],
            <<>>)

\* A reply the session does not take for one throws, and the runner fails.
InvalidReply ==
    /\ \/ ConsumesReply("handshake") /\ ~IsBlockReply("ACK")
       \/ /\ ConsumesReply("block-ack")
          /\ ~IsBlockReply("ACK") /\ ~IsBlockReply("NAK")
    /\ Fail(session, "invalid-controller-reply")

BlockAttempt == <<<<"block", session.blockIndex>>>>

SettleTick ==
    /\ Ticks("settle")
    /\ IF session.settle + 1 = SettleTicks
       THEN Step([session EXCEPT !.settle = @ + 1, !.timeout = 0,
                                 !.state = "block-ack"], BlockAttempt)
       ELSE Step([session EXCEPT !.settle = @ + 1], <<>>)

BlockGapTick ==
    /\ Ticks("block-gap")
    /\ Step([session EXCEPT !.timeout = 0, !.state = "block-ack"],
            BlockAttempt)

RetryOrAbort ==
    IF session.retry >= MaxBlockRetries
    THEN Step([session EXCEPT !.timeout = 0, !.state = "aborted"],
              <<F("abort")>>)
    ELSE Step([session EXCEPT !.timeout = 0, !.retry = @ + 1], BlockAttempt)

\* An accepted block: the image is out, or the next block follows.
AckedBlock(last) ==
    /\ ConsumesReply("block-ack")
    /\ IsBlockReply("ACK")
    /\ IF last
       THEN Step([session EXCEPT !.state = "post-image", !.timeout = 0,
                                 !.retry = 0], <<>>)
       ELSE Step([session EXCEPT !.state = "block-gap", !.timeout = 0,
                                 !.retry = 0, !.blockIndex = @ + 1], <<>>)

\* Faulty variants: the session runs past the last block, or takes the block
\* before it for the last.
BlockAckPastEnd == AckedBlock(session.blockIndex = BlockCount)

BlockAckStopsShort == AckedBlock(session.blockIndex + 2 >= BlockCount)

BlockAck == AckedBlock(session.blockIndex + 1 = BlockCount)

BlockNak == ConsumesReply("block-ack") /\ IsBlockReply("NAK") /\ RetryOrAbort

BlockTimesOut == Ticks("block-ack") /\ LastTick /\ RetryOrAbort

CommitTick ==
    /\ Ticks("post-image")
    /\ Step([session EXCEPT !.state = "post-image-status", !.timeout = 0],
            <<F("commit")>>)

\* acceptsPostImageStatus: long enough, and the first byte decides.
PostImageReply ==
    /\ ConsumesReply("post-image-status")
    /\ IF replyBuffer[1] = "ACK"
       THEN Step([session EXCEPT !.state = "f9-ack", !.timeout = 0],
                 <<F("query")>>)
       ELSE Step([session EXCEPT !.state = "failed"], <<F("abort")>>)

PostImageTimesOut ==
    /\ Ticks("post-image-status")
    /\ LastTick
    /\ Step([session EXCEPT !.timeout = @ + 1, !.state = "post-image-timeout"],
            <<F("abort")>>)

\* Faulty variant: the acknowledgement alone is taken for permanence.
F9ReplyByFirstByte ==
    /\ ConsumesReply("f9-ack")
    /\ IF replyBuffer[1] = "ACK"
       THEN Step([session EXCEPT !.state = "user-transfer", !.timeout = 1],
                 <<F("begin-users")>>)
       ELSE Step([session EXCEPT !.state = "failed"], <<F("reset")>>)

\* acceptsF9Reply: the first two bytes decide.
F9Reply ==
    /\ ConsumesReply("f9-ack")
    /\ IF replyBuffer[1] = "ACK" /\ replyBuffer[2] = "ZERO"
       THEN Step([session EXCEPT !.state = "user-transfer", !.timeout = 1],
                 <<F("begin-users")>>)
       ELSE Step([session EXCEPT !.state = "failed"], <<F("reset")>>)

F9TimesOut ==
    /\ Ticks("f9-ack")
    /\ LastTick
    /\ Step([session EXCEPT !.timeout = @ + 1, !.state = "f9-timeout"],
            <<F("reset")>>)

UserTick ==
    /\ Ticks("user-transfer")
    /\ IF session.userIndex < UserCount
       THEN Step([session EXCEPT !.userIndex = @ + 1],
                 <<<<"user", session.userIndex>>>>)
       ELSE Step([session EXCEPT !.state = "final-status", !.timeout = 0,
                                 !.finalStatusCount = 0], <<F("all-users")>>)

\* The tick that ends the reset wait, one way or the other.
FinalTick ==
    /\ Ticks("final-status")
    /\ \/ /\ session.finalStatusCount >= FinalStatusCount
          /\ Step([session EXCEPT !.timeout = @ + 1, !.state = "completed"],
                  <<>>)
       \/ /\ session.finalStatusCount < FinalStatusCount
          /\ LastTick
          /\ Step([session EXCEPT !.timeout = @ + 1,
                                  !.state = "final-status-timeout"], <<>>)

Tick ==
    \/ WaitTick \/ CompileTick \/ HandshakeTimeout \/ HandshakeAck
    \/ InvalidReply \/ SettleTick \/ BlockGapTick \/ BlockAck \/ BlockNak
    \/ BlockTimesOut \/ CommitTick \/ PostImageReply \/ PostImageTimesOut
    \/ F9Reply \/ F9TimesOut \/ UserTick \/ FinalTick

-----------------------------------------------------------------------------
(* Socket events *)

\* parseControllerReplies on one chunk: bytes of an unknown kind swallow the
\* rest of it, so only the status records in front of them count.
StatusesIn(chunk) ==
    Cardinality({k \in 1..Len(chunk) :
                    \A j \in 1..k : chunk[j] = "STATUS"})

\* receive(): TCP hands over any part of what has arrived.  Statuses past
\* FinalStatusCount make no difference and are not counted.
Receive ==
    /\ link = "up"
    /\ \E n \in 1..Len(fromCtl) :
        LET chunk == SubSeq(fromCtl, 1, n)
            count == session.finalStatusCount + StatusesIn(chunk) IN
        /\ fromCtl' = SubSeq(fromCtl, n + 1, Len(fromCtl))
        /\ IF Active /\ session.state = "final-status"
           THEN /\ session' = [session EXCEPT !.finalStatusCount =
                       IF count > FinalStatusCount THEN FinalStatusCount
                       ELSE count]
                /\ UNCHANGED replyBuffer
           ELSE /\ Len(replyBuffer) + n <= MaxBuffered
                /\ replyBuffer' = IF Active THEN replyBuffer \o chunk
                                  ELSE replyBuffer
                /\ UNCHANGED session
    /\ UNCHANGED <<connected, reconnecting, outcome, link, toCtl, ctl>>

\* The connection drops; what was in flight either way is gone.
LinkDrops ==
    /\ link = "up"
    /\ link' = "lost"
    /\ toCtl' = <<>>
    /\ fromCtl' = <<>>
    /\ UNCHANGED <<runnerVars, ctl>>

\* Faulty variant: every phase waits for a reconnection.
LinkClosesAndWaits ==
    /\ link = "lost"
    /\ IF Active /\ connected
       THEN connected' = FALSE /\ reconnecting' = TRUE
       ELSE UNCHANGED <<connected, reconnecting>>
    /\ link' = "down"
    /\ UNCHANGED <<session, outcome, replyBuffer, toCtl, fromCtl, ctl>>

\* The socket's close event, and disconnected().
LinkCloses ==
    /\ link = "lost"
    /\ IF Active /\ connected
       THEN /\ connected' = FALSE
            /\ IF session.state = "final-status"
               THEN /\ reconnecting' = TRUE
                    /\ UNCHANGED <<session, outcome>>
               ELSE /\ session' = [session EXCEPT !.state = "disconnected"]
                    /\ outcome' = "unexpected-disconnect"
                    /\ UNCHANGED reconnecting
       ELSE UNCHANGED <<session, connected, reconnecting, outcome>>
    /\ link' = "down"
    /\ UNCHANGED <<replyBuffer, toCtl, fromCtl, ctl>>

ReconnectTimer ==
    /\ reconnecting
    /\ reconnecting' = FALSE
    /\ link' = "opening"
    /\ UNCHANGED <<session, replyBuffer, connected, outcome, toCtl, fromCtl,
                   ctl>>

\* reconnected()
LinkOpens ==
    /\ link = "opening"
    /\ link' = "up"
    /\ connected' = (connected \/ (Active /\ session.state = "final-status"))
    /\ UNCHANGED <<session, replyBuffer, reconnecting, outcome, toCtl,
                   fromCtl, ctl>>

\* reconnectFailed() starts the three seconds over.
LinkRefused ==
    /\ link = "opening"
    /\ link' = "down"
    /\ reconnecting' = (Active /\ ~connected)
    /\ UNCHANGED <<session, replyBuffer, connected, outcome, toCtl, fromCtl,
                   ctl>>

\* cancel(): by the operator, or because the browser has gone.
Cancel ==
    /\ Active
    /\ Fail([session EXCEPT !.state = "cancelled"], "cancelled")
    /\ UNCHANGED <<replyBuffer, ctl>>

-----------------------------------------------------------------------------
(* The controller, as the sender's protocol and the repository's emulator
   describe it.  It may be arbitrarily slow, may refuse anything and may stay
   silent, but it ACKs only what it has stored and only ever makes permanent
   an image it has verified. *)

Taking(family) ==
    /\ link = "up" /\ toCtl # <<>> /\ Head(toCtl)[1] = family
    /\ toCtl' = Tail(toCtl)
    /\ UNCHANGED <<runnerVars, link>>

Says(bytes) ==
    /\ Len(fromCtl) + Len(bytes) <= MaxInFlight
    /\ fromCtl' = fromCtl \o bytes

CtlPrepares ==
    /\ Taking("setup") \/ Taking("prepare")
    /\ \E bytes \in {<<>>, <<"ACK">>, <<"NAK">>} : Says(bytes)
    /\ ctl' = [ctl EXCEPT !.mode = "transfer"]

CtlTakesBlock ==
    /\ Taking("block")
    /\ LET i == Head(toCtl)[2] IN
       \E accepted, silent \in BOOLEAN :
          /\ ctl' = [ctl EXCEPT !.offered = @ \cup {i},
                                !.stored = IF accepted THEN @ \cup {i} ELSE @]
          /\ Says(IF silent THEN <<>>
                  ELSE IF accepted THEN <<"ACK">> ELSE <<"NAK">>)

CtlCommits ==
    /\ Taking("commit")
    /\ ctl' = [ctl EXCEPT !.verified = (ctl.stored = Blocks)]
    /\ \E silent \in BOOLEAN :
          Says(IF silent THEN <<>>
               ELSE [i \in 1..StatusLength |->
                       IF i > 1 THEN "ZERO"
                       ELSE IF ctl.stored = Blocks THEN "ACK" ELSE "NAK"])

CtlAnswersQuery ==
    /\ Taking("query")
    /\ \E kept, silent \in BOOLEAN :
          /\ kept => ctl.verified
          /\ ctl' = [ctl EXCEPT !.permanent = kept]
          /\ Says(IF silent THEN <<>>
                  ELSE <<"ACK", IF kept THEN "ZERO" ELSE "OTHER">>)

CtlTakesUsers ==
    /\ Taking("begin-users") \/ Taking("user")
    /\ UNCHANGED <<fromCtl, ctl>>

CtlEnds ==
    /\ Taking("all-users") \/ Taking("abort") \/ Taking("reset")
    /\ ctl' = [ctl EXCEPT !.mode = "resetting"]
    /\ UNCHANGED fromCtl

\* Back to normal operation: at once, or across a lost connection.
CtlRestarts ==
    /\ ctl.mode = "resetting" \/ (ctl.mode = "transfer" /\ link # "up")
    /\ ctl' = [ctl EXCEPT !.mode = "normal", !.restarted = (link # "up")]
    /\ UNCHANGED <<runnerVars, netVars>>

\* The continuous level scan of a controller in normal operation.
CtlScans ==
    /\ ctl.mode = "normal" /\ link = "up"
    /\ Len(fromCtl) < MaxInFlight
    /\ fromCtl' = Append(fromCtl, "STATUS")
    /\ UNCHANGED <<runnerVars, link, toCtl, ctl>>

Environment ==
    \/ Receive \/ LinkDrops \/ LinkCloses \/ ReconnectTimer \/ LinkOpens
    \/ LinkRefused \/ Cancel
    \/ CtlPrepares \/ CtlTakesBlock \/ CtlCommits \/ CtlAnswersQuery
    \/ CtlTakesUsers \/ CtlEnds \/ CtlRestarts \/ CtlScans

Next == Start \/ Tick \/ Environment

Spec == Init /\ [][Next]_vars

\* setInterval keeps firing while the runner is active.  Nothing is assumed of
\* the controller or of the link.
FairSpec == Spec /\ WF_vars(Tick)

-----------------------------------------------------------------------------
(* Properties *)

\* Replies that can be surplus: one to the setup frame and one to each retry.
SurplusReplies == 1 + MaxConnectionRetries + BlockCount * MaxBlockRetries

\* However late the controller answers, what may still be taken for the post-
\* image reply when the commit is due is one byte for the setup frame and for
\* each retry: what the session has not yet seen, what is on its way and what
\* the controller has yet to answer, after all waits and reconnections.
SurplusBounded ==
    Active /\ session.state = "post-image" =>
        Len(replyBuffer) + Len(fromCtl) + Len(toCtl) <= SurplusReplies

\* A completed transfer left its whole image verified and permanent on the
\* controller, although the runner may take a late reply for the reply to a
\* later frame and hands the session buffers that hold parts of two replies.
\* (It needs fewer late replies than the post-image reply has bytes: late ACKs
\* alone must not fill it.)
CompletedMeansPermanent ==
    outcome = "completed" => ctl.permanent /\ ctl.stored = Blocks

\* The controller is never told to commit before every block has been put to
\* it, whatever the ACKs that moved the session on were replies to.
CommitFollowsWholeImage ==
    \A i \in 1..Len(toCtl) :
        toCtl[i][1] = "commit" =>
            Blocks \subseteq ctl.offered
                     \cup {toCtl[j][2] : j \in {k \in 1..i - 1 :
                                                   toCtl[k][1] = "block"}}

\* A started transfer ends, whatever the controller and the link do.
Terminates == Active ~> ~Active

\* The transfer is a TransferLifecycle: it implements what the bridge relies
\* on, step by step.
Lifecycle == INSTANCE TransferLifecycle WITH
    Enough <- FinalStatusCount,
    stage <- IF outcome # "none" THEN "done"
             ELSE CASE session.state = "created" -> "ready"
                    [] session.state = "final-status" -> "resetWait"
                    [] OTHER -> "writing",
    linked <- connected,
    heard <- session.finalStatusCount,
    result <- CASE outcome = "none" -> "none"
                [] outcome = "completed" -> "success"
                [] OTHER -> "failure"

KeepsLifecycle == Lifecycle!Spec

\* config-transfer.test.mjs:430: a rejecting post-image reply is terminal.
RejectedImageStops ==
    [][ session.state = "post-image-status" /\ session'.state = "f9-ack" =>
          ctl.verified ]_vars

\* PROTOCOL.md:958-960: success is not reported before the controller has
\* restarted and the bridge has reconnected to it.
SuccessFollowsRestart == outcome = "completed" => ctl.restarted
=============================================================================
