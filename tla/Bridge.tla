------------------------------- MODULE Bridge -------------------------------
(***************************************************************************)
(* The bridge process (bridge/server.mjs): browsers on WebSockets, one     *)
(* controller socket for each, the live sends that run on them and the     *)
(* process-wide TransferSafety coordinator.                                *)
(*                                                                         *)
(* Every callback of the event loop is one action.  A destroyed socket     *)
(* emits its close event later, in the closing phase of the same loop      *)
(* iteration: messages and socket events of that iteration may still come  *)
(* before it, timers and new connections not.  The inside of a send is in  *)
(* ConfigTransfer; here it is its stage.                                   *)
(***************************************************************************)
EXTENDS TransferSafety

CONSTANTS
    SockCount,  \* bound of the model: controller sockets at once
    SendCount,  \* bound of the model: live sends at once
    Verdict,    \* bound of the model: what a Compare finds, if anything
    Polite      \* a browser starts no send while one of its own is running

ASSUME BridgeAssumption ==
    /\ SockCount \in Nat \ {0} /\ SendCount \in Nat \ {0}
    /\ Verdict \subseteq {"match", "different"} /\ Polite \in BOOLEAN

VARIABLES
    open,     \* browsers whose WebSocket is open
    current,  \* controllers: the socket of each browser, or 0; a closed one
              \* left in the map counts as none, every write tests for it
    sock,     \* controller sockets and what hangs on them
    send,     \* the runners
    xferOf,   \* transfers: the configuration runner of each browser, or 0
    profOf    \* userProfileSends: the same for user profiles

bridgeVars == <<open, current, sock, send, xferOf, profOf>>
allVars == <<safetyVars, bridgeVars>>

Socks == 1..SockCount
Sends == 1..SendCount

\* xfer and prof are the active runners set on the socket, verify says that a
\* Compare is active on it.
Socket == [phase: {"connecting", "up", "closing", "closed"},
           xfer: 0..SendCount, prof: 0..SendCount, verify: BOOLEAN]

\* linked and timer are the runner's `connected` and `reconnectTimer`.
Send == [kind: {"config", "profiles"}, client: Owner,
         stage: {"writing", "resetWait", "listening"},
         linked: BOOLEAN, timer: BOOLEAN]

NoSend == [stage |-> "done"]

BridgeTypeOK ==
    /\ TypeOK
    /\ open \subseteq Owner
    /\ current \in [Owner -> 0..SockCount]
    /\ sock \in [Socks -> Socket]
    /\ send \in [Sends -> Send \cup {NoSend}]
    /\ xferOf \in [Owner -> 0..SendCount]
    /\ profOf \in [Owner -> 0..SendCount]

NewSocket(runner) ==
    [phase |-> "connecting", xfer |-> runner, prof |-> 0, verify |-> FALSE]

ClosedSocket == [NewSocket(0) EXCEPT !.phase = "closed"]

BridgeInit ==
    /\ SafetyInit
    /\ open = Owner
    /\ current = [c \in Owner |-> 0]
    /\ sock = [k \in Socks |-> ClosedSocket]
    /\ send = [s \in Sends |-> NoSend]
    /\ xferOf = [c \in Owner |-> 0]
    /\ profOf = [c \in Owner |-> 0]

-----------------------------------------------------------------------------
(* Parts of callbacks *)

Running(s) == send[s] # NoSend

RunningOf(c) == {s \in Sends : Running(s) /\ send[s].client = c}

Live(k) == sock[k].phase \in {"connecting", "up"}

\* No close event is pending: timers may fire, connections come up.
Settled == \A k \in Socks : sock[k].phase # "closing"

\* destroy() on the socket of every browser in C.
Destroyed(C) ==
    [k \in Socks |-> IF Live(k) /\ \E c \in C : current[c] = k
                     THEN [sock[k] EXCEPT !.phase = "closing"]
                     ELSE sock[k]]

\* The result callbacks of the sends in E: each gives the lock back in its
\* way, a configuration only its own lock, user profiles whoever's it is.
GiveBack(E) ==
    \/ \E s \in E : send[s].kind = "profiles"
                    /\ FinishLiveUserProfiles(send[s].client)
    \/ \E s \in E : send[s].kind = "config" /\ FinishLive(send[s].client)
    \/ /\ \A s \in E : /\ send[s].kind = "config"
                       /\ ~(Held /\ active.owner = send[s].client)
       /\ UNCHANGED safetyVars

\* finish() of the sends in E, over the sockets S and the other sends in T:
\* nothing refers to them any longer, and the map entry of their browser
\* goes, whoever it names.
FinishOver(E, S, T) ==
    /\ send' = [s \in Sends |-> IF s \in E THEN NoSend ELSE T[s]]
    /\ sock' = [k \in Socks |->
          [S[k] EXCEPT !.xfer = IF @ \in E THEN 0 ELSE @,
                       !.prof = IF @ \in E THEN 0 ELSE @]]
    /\ xferOf' = [c \in Owner |->
          IF \E s \in E : send[s].kind = "config" /\ send[s].client = c
          THEN 0 ELSE xferOf[c]]
    /\ profOf' = [c \in Owner |->
          IF \E s \in E : send[s].kind = "profiles" /\ send[s].client = c
          THEN 0 ELSE profOf[c]]
    /\ GiveBack(E)

Finish(E, S) == FinishOver(E, S, send)

\* connectController: the old socket goes, a new one is dialled.
Dial(c, runner) ==
    \E k \in Socks :
        /\ sock[k].phase = "closed"
        /\ \A j \in 1..k - 1 : sock[j].phase # "closed"
        /\ sock' = [Destroyed({c}) EXCEPT ![k] = NewSocket(runner)]
        /\ current' = [current EXCEPT ![c] = k]

\* The socket a send or a Compare needs: logged in, not destroyed, and no
\* Compare on it.
SocketReady(c) ==
    LET k == current[c] IN
    k # 0 /\ sock[k].phase = "up" /\ ~sock[k].verify

-----------------------------------------------------------------------------
(* Messages of a browser *)

\* connect, and a discover that found a controller.  A malformed address is
\* refused only after the old socket is gone.
Connect(c) ==
    /\ c \in open
    /\ \/ Dial(c, 0)
       \/ sock' = Destroyed({c}) /\ UNCHANGED current
    /\ UNCHANGED <<safetyVars, open, send, xferOf, profOf>>

\* verify: the socket's Compare starts unless it is running.  (Only the login
\* is asked for: on a socket that has closed since a Compare starts as well,
\* hears nothing and records nothing.)
Verify(c) ==
    /\ c \in open /\ SocketReady(c)
    /\ sock' = [sock EXCEPT ![current[c]].verify = TRUE]
    /\ UNCHANGED <<safetyVars, open, current, send, xferOf, profOf>>

\* transferDryRun
DryRunMessage(c, req) ==
    /\ c \in open
    /\ DryRun(c, req)
    /\ UNCHANGED bridgeVars

\* userProfileDryRun
UserProfileDryRunMessage(c) ==
    /\ c \in open
    /\ UserProfileDryRun
    /\ UNCHANGED bridgeVars

MayStart(c) == c \in open /\ (Polite => RunningOf(c) = {})

\* The runner is built, entered in its map and set on the socket, over
\* whatever runner either has.
StartRunner(c, kind) ==
    \E s \in Sends :
        /\ ~Running(s) /\ \A t \in 1..s - 1 : Running(t)
        /\ send' = [send EXCEPT ![s] =
              [kind |-> kind, client |-> c, stage |-> "writing",
               linked |-> TRUE, timer |-> FALSE]]
        /\ IF kind = "config"
           THEN /\ xferOf' = [xferOf EXCEPT ![c] = s]
                /\ sock' = [sock EXCEPT ![current[c]].xfer = s]
                /\ UNCHANGED profOf
           ELSE /\ profOf' = [profOf EXCEPT ![c] = s]
                /\ sock' = [sock EXCEPT ![current[c]].prof = s]
                /\ UNCHANGED xferOf
        /\ UNCHANGED <<open, current>>

\* Faulty variant, for the mutation checks: only the lock is asked for.
SyncUnchecked(c, req) ==
    /\ MayStart(c) /\ SocketReady(c) /\ req.supported
    /\ Acquire(c, BindingOf(req), "transferring")
    /\ UNCHANGED <<comparisons, preflights>>
    /\ StartRunner(c, "config")

\* sync that passes every check
Sync(c, req) ==
    /\ MayStart(c) /\ SocketReady(c) /\ req.supported
    /\ BeginLive(c, req)
    /\ StartRunner(c, "config")

\* Faulty variant: the lock stays behind.
SyncUnsupportedKeepsLock(c, req) ==
    /\ MayStart(c) /\ SocketReady(c) /\ ~req.supported
    /\ BeginLive(c, req)
    /\ UNCHANGED bridgeVars

\* The runner's constructor throws on an unsupported profile, with the lock
\* just taken; the catch gives it back.
SyncUnsupported(c, req) ==
    /\ MayStart(c) /\ SocketReady(c) /\ ~req.supported
    /\ CanBeginLive(c, req)
    /\ AcquireAndRelease
    /\ UNCHANGED <<comparisons, preflights, bridgeVars>>

\* sync that is refused, for whichever reason, a missing confirmation
\* included: the catch gives back whatever lock this browser holds, that of a
\* send it is running as well.
SyncRefused(c) ==
    /\ MayStart(c)
    /\ FinishLive(c)
    /\ UNCHANGED bridgeVars

\* userProfiles, with the operator's opt-in
SendUserProfiles(c, users) ==
    /\ MayStart(c) /\ SocketReady(c) /\ xferOf[c] = 0
    /\ BeginLiveUserProfiles(c, users)
    /\ StartRunner(c, "profiles")

\* userProfiles that is refused
UserProfilesRefused(c) ==
    /\ MayStart(c)
    /\ Held /\ active.owner = c /\ active.state = "sending-user-profiles"
    /\ FinishLiveUserProfiles(c)
    /\ UNCHANGED bridgeVars

\* fail() of a configuration runner closes its browser's socket, whichever
\* that is by now.
Fails(s) == Finish({s}, Destroyed({send[s].client}))

\* transferCancel
CancelTransfer(c) ==
    /\ c \in open
    /\ xferOf[c] # 0
    /\ Fails(xferOf[c])
    /\ UNCHANGED <<open, current>>

\* transferEmergencyStop: every browser's controller socket is destroyed.
StopMessage(c) ==
    /\ c \in open
    /\ EmergencyStop
    /\ sock' = Destroyed(Owner)
    /\ UNCHANGED <<open, current, send, xferOf, profOf>>

\* transferSafetyReset
ResetMessage(c) ==
    /\ c \in open
    /\ ResetEmergencyStop
    /\ UNCHANGED bridgeVars

\* Faulty variant: the configuration runner is not cancelled.
BrowserClosesUncancelled(c) ==
    /\ c \in open
    /\ open' = open \ {c}
    /\ Finish({profOf[c]} \ {0}, Destroyed({c}))
    /\ current' = [current EXCEPT ![c] = 0]

\* The WebSocket closes: the runners in the maps are cancelled.
BrowserCloses(c) ==
    /\ c \in open
    /\ open' = open \ {c}
    /\ Finish({xferOf[c], profOf[c]} \ {0}, Destroyed({c}))
    /\ current' = [current EXCEPT ![c] = 0]

-----------------------------------------------------------------------------
(* The controller sockets *)

\* The connection is made, in a later iteration than it was asked for.
SocketOpens(k) ==
    /\ Settled /\ sock[k].phase = "connecting"
    /\ sock' = [sock EXCEPT ![k].phase = "up"]
    /\ LET s == sock[k].xfer IN  \* reconnected()
       send' = IF s # 0 /\ send[s].stage = "resetWait"
               THEN [send EXCEPT ![s].linked = TRUE] ELSE send
    /\ UNCHANGED <<safetyVars, open, current, xferOf, profOf>>

\* Refused, timed out, reset, ended by the controller.
SocketFails(k) ==
    /\ Live(k)
    /\ sock' = [sock EXCEPT ![k].phase = "closing"]
    /\ UNCHANGED <<safetyVars, open, current, send, xferOf, profOf>>

\* The close event: Compare is cancelled, the runners set on the socket are
\* told, and a redial that never got through is reported as failed.  The loss
\* is fatal to a configuration in one of the stages given.
ClosesFatally(k, fatal) ==
    LET s == sock[k].xfer
        waits == s # 0 /\ send[s].stage \notin fatal
        fails == s # 0 /\ send[s].stage \in fatal
        ended == {sock[k].prof} \cup (IF fails THEN {s} ELSE {}) IN
    /\ sock[k].phase = "closing"
    /\ FinishOver(ended \ {0},
          [Destroyed(IF fails THEN {send[s].client} ELSE {})
             EXCEPT ![k] = ClosedSocket],
          IF waits
          THEN [send EXCEPT ![s].linked = FALSE, ![s].timer = TRUE]
          ELSE send)
    /\ current' = [c \in Owner |-> IF current[c] = k THEN 0 ELSE current[c]]
    /\ UNCHANGED open

\* Faulty variant: a transfer waits out the loss of its socket in any stage.
SocketClosesUnnoticed(k) == ClosesFatally(k, {})

SocketCloses(k) == ClosesFatally(k, {"writing"})

-----------------------------------------------------------------------------
(* Timers *)

\* A Compare ends.  The controller's bytes reach it only on a socket that is
\* up and has no runner.
CompareEnds(k) ==
    /\ sock[k].verify
    /\ sock' = [sock EXCEPT ![k].verify = FALSE]
    /\ \/ UNCHANGED safetyVars
       \/ /\ sock[k].phase = "up" /\ sock[k].xfer = 0 /\ sock[k].prof = 0
          /\ \E c \in Owner :
                /\ current[c] = k
                /\ \E local, ctl \in Checksum, st \in Verdict,
                      version \in Version :
                      RecordComparison(c, local, ctl, st, version)
    /\ UNCHANGED <<open, current, send, xferOf, profOf>>

CanWrite(s) ==
    LET k == current[send[s].client] IN k # 0 /\ sock[k].phase = "up"

\* The last frame is written: a configuration waits for the restart, user
\* profiles for a reply.
WritesLast(s) ==
    /\ Settled /\ Running(s) /\ send[s].stage = "writing" /\ CanWrite(s)
    /\ send' = [send EXCEPT ![s].stage =
          IF send[s].kind = "config" THEN "resetWait" ELSE "listening"]
    /\ UNCHANGED <<safetyVars, open, current, sock, xferOf, profOf>>

\* A send comes to an end by itself.  A configuration that throws, be it on
\* a write without a socket, closes the socket; every other end leaves it.
SendEnds(s) ==
    /\ Settled /\ Running(s)
    /\ \/ Finish({s}, sock)
       \/ send[s].kind = "config" /\ send[s].stage = "writing" /\ Fails(s)
    /\ UNCHANGED <<open, current>>

\* The runner's reconnect timer; nobody looks whether the browser is there.
Redial(s) ==
    /\ Settled /\ Running(s) /\ send[s].timer
    /\ send' = [send EXCEPT ![s].timer = FALSE]
    /\ IF send[s].linked THEN UNCHANGED <<current, sock>>
       ELSE Dial(send[s].client, s)
    /\ UNCHANGED <<safetyVars, open, xferOf, profOf>>

\* Time passes in units of minutes: longer than a user-profile send takes.
TimePasses ==
    /\ Settled
    /\ \A s \in Sends : Running(s) => send[s].kind = "config"
    /\ Advance
    /\ UNCHANGED bridgeVars

-----------------------------------------------------------------------------

BridgeNext ==
    \/ \E c \in Owner :
          \/ Connect(c) \/ Verify(c)
          \/ \E req \in Request :
                \/ DryRunMessage(c, req) \/ Sync(c, req)
                \/ SyncUnsupported(c, req)
          \/ \E users \in UserList : SendUserProfiles(c, users)
          \/ UserProfileDryRunMessage(c)
          \/ SyncRefused(c) \/ UserProfilesRefused(c)
          \/ CancelTransfer(c) \/ StopMessage(c) \/ ResetMessage(c)
          \/ BrowserCloses(c)
    \/ \E k \in Socks :
          SocketOpens(k) \/ SocketFails(k) \/ SocketCloses(k) \/ CompareEnds(k)
    \/ \E s \in Sends : WritesLast(s) \/ SendEnds(s) \/ Redial(s)
    \/ TimePasses

BridgeSpec == BridgeInit /\ [][BridgeNext]_allVars

\* Every iteration of the loop ends, with the close events delivered, and every
\* send ends: ConfigTransfer checks that for a configuration, a user-profile
\* send is bounded by its timers.  Pending close events keep interrupting a
\* timer without holding it up, so the fairness of SendEnds is strong.
BridgeFairSpec ==
    /\ BridgeSpec
    /\ []<>Settled
    /\ \A s \in Sends : SF_allVars(SendEnds(s))

-----------------------------------------------------------------------------
(* Properties *)

\* The bridge calls the coordinator as its specification allows: whatever
\* callbacks do to it in one go is one of its operations.
KeepsSafety == SafetySpec

\* A held lock is the lock of a send that is running: no failed start,
\* cancelled send, closed browser or stopped controller leaves it behind.
LockHasSend == Held => RunningOf(active.owner) # {}

Holds(s) == Held /\ active.owner = send[s].client

\* A send keeps the lock as long as it runs, unless the stop is latched:
\* neither another browser's sends and messages nor its own release it.
LockOutlivesSend ==
    [][ \A s \in Sends : Running(s) /\ Holds(s) /\ Running(s)' =>
            Holds(s)' \/ emergencyStopped' ]_allVars

\* A send that still writes has the controller socket its browser uses now,
\* and is the one that hears from it; a reconnection by the operator or by
\* another send never puts a different socket under it.
SendOwnsSocket ==
    Settled =>
        \A s \in Sends : Running(s) /\ send[s].stage = "writing" =>
            LET k == current[send[s].client] IN
            /\ k # 0 /\ sock[k].phase = "up"
            /\ s \in {sock[k].xfer, sock[k].prof}

\* A closed browser leaves nothing behind: no send, no lock, no controller
\* socket, once the close events are through.
ClosedBrowserHoldsNothing ==
    Settled =>
        \A c \in Owner \ open :
            /\ RunningOf(c) = {}
            /\ current[c] = 0
            /\ ~(Held /\ active.owner = c)

\* A lock that is taken is released in the end.
LockIsReleased == Held ~> ~Held

\* PROTOCOL.md:1004: a global lock prevents concurrent transfers.
OneTransferAtATime ==
    \A s, t \in Sends : Running(s) /\ Running(t) => s = t

\* server.mjs:493: after the emergency stop no transfer runs.
StopHaltsTransfers ==
    emergencyStopped /\ Settled => \A s \in Sends : ~Running(s)
=============================================================================
