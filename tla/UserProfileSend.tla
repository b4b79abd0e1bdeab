--------------------------- MODULE UserProfileSend ---------------------------
(***************************************************************************)
(* The user-profile-only send (bridge/user-profile-runner.mjs over         *)
(* bridge/user-transfer.mjs): one tick writes the frames of one user, the  *)
(* last two frames end it, and a bounded window listens for a reply.       *)
(***************************************************************************)
EXTENDS ControllerLink, SequencesExt

CONSTANTS
    UserCount,  \* how many profiles the send has
    MaxUsers    \* 0xe0 in the code, and the index of the terminator

ASSUME ProfileAssumption ==
    UserCount \in Nat /\ MaxUsers \in Nat /\ UserCount <= MaxUsers

VARIABLE runner  \* the browser's send, the last one when it is over
\* The frames of one user are one element, with its zero-based index.
Prepare == [kind |-> "fc", user |-> 0]
UserFrame(i) == [kind |-> "f2", user |-> i]
Terminator == UserFrame(MaxUsers)
Permanent == [kind |-> "fe", user |-> 0]

\* compileUserProfileTranscript(): a whole send.
Transcript ==
    <<Prepare>> \o [i \in 1..UserCount |-> UserFrame(i - 1)]
                \o <<Terminator, Permanent>>

SentOutcomes == {"completed", "reset-started", "sent-no-reply"}

\* replySeen is set by the first bytes after the last frame; strayed is history:
\* frames went to another socket than the send began on.
NoRunner == [phase |-> "idle", sock |-> 0, started |-> FALSE, userIndex |-> 0,
             frames |-> <<>>, strayed |-> FALSE, replySeen |-> FALSE,
             outcome |-> "none"]

RunnerInit == runner = NoRunner

Sending == runner.phase = "sending"
Listening == runner.phase = "listening"
RunnerActive == Sending \/ Listening

\* finish(): what is not reported is dead.
Finished(r, outcome) ==
    [NoRunner EXCEPT !.phase = "stopped", !.frames = r.frames,
                     !.strayed = r.strayed, !.outcome = outcome]

\* start(), on the socket the browser has.
RunnerStarts ==
    runner' = [NoRunner EXCEPT !.phase = "sending", !.sock = current]

\* Faulty variant: the frame that prepares the controller goes out each tick.
NextFramesUnprepared(r) ==
    <<Prepare>> \o
    (IF r.userIndex < UserCount THEN <<UserFrame(r.userIndex)>>
                                ELSE <<Terminator, Permanent>>)

\* UserProfileTransferSession.next(): the frames of one tick.
NextFrames(r) ==
    (IF r.started THEN <<>> ELSE <<Prepare>>) \o
    (IF r.userIndex < UserCount THEN <<UserFrame(r.userIndex)>>
                                ELSE <<Terminator, Permanent>>)

\* tick(): a write without a socket throws.
RunnerTick ==
    /\ Settled /\ Sending
    /\ LET frames == NextFrames(runner)
           complete == runner.userIndex >= UserCount IN
       IF phase[current] = "up"
       THEN /\ Writes(Last(frames).kind)
            /\ runner' = [runner EXCEPT
                  !.started = TRUE,
                  !.userIndex = IF complete THEN @ ELSE @ + 1,
                  !.frames = @ \o frames,
                  !.strayed = @ \/ current # runner.sock,
                  !.phase = IF complete THEN "listening" ELSE @]
       ELSE /\ runner' = Finished(runner, "failed")
            /\ UNCHANGED linkVars

\* receive(): everything is consumed; the first bytes after the last frame
\* stop the window and start the settling time.
RunnerReceives ==
    runner' = [runner EXCEPT !.replySeen = @ \/ Listening]

\* replyWindowTimer
WindowCloses ==
    /\ Settled /\ Listening /\ ~runner.replySeen
    /\ runner' = Finished(runner, "sent-no-reply")
    /\ UNCHANGED linkVars

\* Faulty variant: the settling time is armed while frames are still sent.
SettlesUnarmed ==
    /\ Settled /\ Sending /\ runner.replySeen
    /\ runner' = Finished(runner, "completed")
    /\ UNCHANGED linkVars

\* settleTimer
Settles ==
    /\ Settled /\ Listening /\ runner.replySeen
    /\ runner' = Finished(runner, "completed")
    /\ UNCHANGED linkVars

\* disconnected(), from the close event of the socket it was set on.
RunnerDisconnected(k) ==
    runner' = IF ~RunnerActive \/ runner.sock # k THEN runner
              ELSE Finished(runner, IF Listening THEN "reset-started"
                                    ELSE "unexpected-disconnect")

-----------------------------------------------------------------------------
(* Properties *)

\* A send that is reported as sent wrote every frame, in order and once, and
\* all of them to one connection of the controller, although each write goes
\* to whatever socket its browser has by then.
SentMeansTranscript ==
    runner.outcome \in SentOutcomes =>
        runner.frames = Transcript /\ ~runner.strayed
=============================================================================
