-------------------------- MODULE ControllerSession --------------------------
(***************************************************************************)
(* A user-profile send and Compares of one browser on its controller       *)
(* sockets (bridge/server.mjs): who hears the controller's bytes, what the *)
(* close event ends, and which message is refused when.                    *)
(*                                                                         *)
(* The transfer lock is not here: Bridge has it.  The controller is        *)
(* external and may answer or not, at any time.                            *)
(***************************************************************************)
EXTENDS VerifySession, UserProfileSend

CONSTANTS
    CellMax   \* bound of the model: cells under way or buffered

ASSUME SessionAssumption == CellMax \in Nat

sessionVars == <<linkVars, verifyVars, runner>>

SessionTypeOK ==
    /\ current \in Socks
    /\ phase \in [Socks -> {"dialing", "up", "closing", "closed"}]
    /\ verify \in [Socks -> Session]
    /\ \A k \in Socks : Len(verify[k].buffer) <= CellMax
    /\ answer \in {"none", "waits", "cut", "match", "different", "error"}
    /\ runner.userIndex \in 0..UserCount
    /\ RunnerActive => runner.sock \in login

SessionInit ==
    /\ LinkInit /\ VerifyInit /\ RunnerInit

-----------------------------------------------------------------------------
(* Messages of the browser *)

\* connect: a socket whose Compare has outlived it is not dialled again.
Connect ==
    \E k \in Socks :
        /\ ~Comparing(k)
        /\ Dial(k)
        /\ verify' = [verify EXCEPT ![k] = NewSession]
        /\ UNCHANGED <<answer, runner>>

\* verify: the login is asked for, not that the socket is still there.
Verify ==
    /\ IF current \notin login \/ Comparing(current)
       THEN Answers("error") /\ UNCHANGED <<linkVars, verify>>
       ELSE VerifyStarts(current) /\ answer' = "waits"
    /\ UNCHANGED runner

\* Faulty variant: the connection may still be on its way.
SendUserProfilesUnchecked ==
    /\ ~Comparing(current) /\ ~RunnerActive
    /\ RunnerStarts
    /\ UNCHANGED <<linkVars, verifyVars>>

\* userProfiles: a Compare is waited for; a send that runs holds the lock.
SendUserProfiles ==
    /\ phase[current] = "up" /\ ~Comparing(current) /\ ~RunnerActive
    /\ RunnerStarts
    /\ UNCHANGED <<linkVars, verifyVars>>

-----------------------------------------------------------------------------
(* The controller sockets *)

SocketOpens(k) == Opens(k) /\ UNCHANGED <<verifyVars, runner>>

SocketFails(k) ==
    /\ Fails(k)
    /\ UNCHANGED <<verifyVars, runner>>

\* Faulty variant: the Compare is left running.
SocketClosesUncancelled(k) ==
    /\ phase[k] = "closing"
    /\ phase' = [phase EXCEPT ![k] = "closed"]
    /\ RunnerDisconnected(k)
    /\ UNCHANGED <<current, login, last, down, verifyVars>>

\* The close event ends the Compare and the send on the socket.
SocketCloses(k) ==
    /\ phase[k] = "closing"
    /\ phase' = [phase EXCEPT ![k] = "closed"]
    /\ VerifyCancelled(k)
    /\ RunnerDisconnected(k)
    /\ UNCHANGED <<current, login, last, down>>

\* The data event: the send hears the controller, or else the Compare.  The
\* ordinary records go on to the status parser.
SocketReceives ==
    \E n \in 1..Len(down) :
        /\ phase[current] = "up"
        /\ down' = SubSeq(down, n + 1, Len(down))
        /\ IF RunnerActive /\ runner.sock = current
           THEN RunnerReceives /\ UNCHANGED verify
           ELSE /\ IF Comparing(current)
                   THEN VerifyReceives(current, SubSeq(down, 1, n))
                   ELSE UNCHANGED verify
                /\ UNCHANGED runner
        /\ UNCHANGED <<current, phase, login, last, answer>>

-----------------------------------------------------------------------------
(* Timers *)

ComparisonTick(k) ==
    Settled /\ VerifyTick(k) /\ UNCHANGED runner

SendTick ==
    /\ RunnerTick \/ WindowCloses \/ Settles
    /\ UNCHANGED verifyVars

-----------------------------------------------------------------------------
(* The controller *)

Says(cells) ==
    /\ Len(down) + Len(verify[current].buffer) + Len(cells) <= CellMax
    /\ down' = down \o cells

Reply(cell) == <<cell>> \o [i \in 1..ReplyLength - 1 |-> "x"]

\* It may acknowledge at any time, asked or not, and gives its verdict when
\* that is what it was asked last.
ControllerAnswers ==
    /\ phase[current] = "up"
    /\ \/ Says(<<"06">>)
       \/ last = "f5" /\ \E cell \in {"06", "x"} : Says(Reply(cell))
    /\ UNCHANGED <<current, phase, login, last, verifyVars, runner>>

\* Its scan goes on at any time, with normal and abnormal records; the level
\* that could pass for an acknowledgement is the one that matters.
ControllerScans ==
    /\ phase[current] = "up"
    /\ Says(<<"f2", "06">>) \/ Says(<<"f3", "x">>)
    /\ UNCHANGED <<current, phase, login, last, verifyVars, runner>>

-----------------------------------------------------------------------------

SessionNext ==
    \/ Connect \/ Verify \/ SendUserProfiles
    \/ \E k \in Socks : SocketOpens(k) \/ SocketFails(k) \/ SocketCloses(k)
                        \/ ComparisonTick(k)
    \/ SocketReceives \/ SendTick
    \/ ControllerAnswers \/ ControllerScans

SessionSpec == SessionInit /\ [][SessionNext]_sessionVars

\* Every iteration of the loop delivers its close events, and the timers fire;
\* closing sockets keep interrupting them, so their fairness is strong.
SessionFairSpec ==
    /\ SessionSpec
    /\ []<>Settled
    /\ \A k \in Socks : SF_sessionVars(ComparisonTick(k))
    /\ SF_sessionVars(SendTick)

-----------------------------------------------------------------------------
(* Properties *)

\* A browser that still waits for its Compare has one running or has lost it to
\* a close event, which tells it nothing: an answer is never lost otherwise.
WaitsForSomething == answer = "waits" => \E k \in Socks : Comparing(k)

\* A verdict, as opposed to an error, is only ever given over a socket that is
\* up: a Compare that was started on a closed socket, or that its socket left
\* behind, never finds one, whatever it still writes to the socket that took
\* its place.
VerdictOverLiveSocket ==
    [][ answer' # answer /\ answer' \in {"match", "different"} =>
            phase[current] = "up" ]_sessionVars

\* Whatever the controller does, a send is over in the end: no wait of it
\* depends on a reply.
SendEnds == RunnerActive ~> ~RunnerActive

\* The frame that makes the profiles permanent is the last thing written to the
\* controller until the send has ended (bridge/user-profile-runner.mjs:22).
QuietAfterPermanent ==
    [][ Listening /\ Listening' => last' \in {last, "none"} ]_sessionVars
=============================================================================
