------------------------------ MODULE Heartbeat ------------------------------
(***************************************************************************)
(* WebSocketHeartbeat (bridge/websocket.mjs): one timer pings every client *)
(* and reaps those that have been silent for too long, so that a browser   *)
(* which is gone does not keep the controller's only session.              *)
(*                                                                         *)
(* Time is counted in units of the model; a browser that is alive answers  *)
(* a ping within AnswerMax of them, one that is gone never.                *)
(***************************************************************************)
EXTENDS Naturals, FiniteSets

CONSTANTS
    Clients,     \* WebSockets of the bridge
    Interval,    \* intervalMs
    Timeout,     \* timeoutMs
    AnswerMax    \* the longest a browser takes to answer a ping

\* The constructor refuses a timeout that does not exceed the interval; what
\* an answer may take is the rest.
HeartbeatAssumption ==
    /\ Interval \in Nat \ {0} /\ Timeout \in Nat /\ Timeout > Interval
    /\ AnswerMax \in Nat /\ Interval + AnswerMax < Timeout

VARIABLES
    alive,     \* the browsers that answer
    silent,    \* time since each tracked client was heard of (lastSeen)
    tracked,   \* the clients of lastSeen
    untilTick, \* time left on the timer, 0 when due; Interval when stopped
    owed,      \* for each client, how long ago it was sent the pings not answered
    reaped     \* history: clients that were reaped

beatVars == <<alive, silent, tracked, untilTick, owed, reaped>>

BeatTypeOK ==
    /\ tracked \subseteq Clients /\ alive \subseteq Clients /\ reaped \subseteq Clients
    /\ silent \in [Clients -> 0..(Timeout + Interval)]
    /\ untilTick \in 0..Interval
    /\ owed \in [Clients -> SUBSET (0..(Timeout + Interval))]

BeatInit ==
    /\ alive \in SUBSET Clients
    /\ silent = [c \in Clients |-> 0] /\ owed = [c \in Clients |-> {}]
    /\ tracked = {} /\ reaped = {} /\ untilTick = Interval

-----------------------------------------------------------------------------
\* add: the timer is started with the first client.
Add(c) ==
    /\ c \notin tracked \cup reaped
    /\ tracked' = tracked \cup {c}
    /\ silent' = [silent EXCEPT ![c] = 0]
    /\ UNCHANGED <<alive, untilTick, owed, reaped>>

\* remove, when the WebSocket closes: with the last client the timer stops.
Remove(c) ==
    /\ c \in tracked
    /\ tracked' = tracked \ {c}
    /\ untilTick' = IF tracked' = {} THEN Interval ELSE untilTick
    /\ owed' = [owed EXCEPT ![c] = {}]
    /\ UNCHANGED <<alive, silent, reaped>>

\* The browser crashes, or its machine is suspended.
Vanish(c) ==
    /\ c \in alive
    /\ alive' = alive \ {c}
    /\ UNCHANGED <<silent, tracked, untilTick, owed, reaped>>

\* Faulty variant: only a message counts as activity, a pong does not.
AnswerUnseen(c) ==
    /\ c \in alive \cap tracked /\ owed[c] # {}
    /\ owed' = [owed EXCEPT ![c] = @ \ {CHOOSE a \in @ : \A b \in @ : a >= b}]
    /\ UNCHANGED <<alive, silent, tracked, untilTick, reaped>>

\* The pong to the oldest ping arrives: touch.
Answer(c) ==
    /\ c \in alive \cap tracked /\ owed[c] # {}
    /\ owed' = [owed EXCEPT ![c] = @ \ {CHOOSE a \in @ : \A b \in @ : a >= b}]
    /\ silent' = [silent EXCEPT ![c] = 0]
    /\ UNCHANGED <<alive, tracked, untilTick, reaped>>

\* Faulty variant: measured against the timeout and one more interval.
OverdueLate(c) == silent[c] > Timeout + Interval

Overdue(c) == silent[c] >= Timeout

\* tick: the silent ones are reaped, the others pinged.
Tick ==
    /\ tracked # {} /\ untilTick = 0
    /\ LET gone == {c \in tracked : Overdue(c)}
       IN  /\ tracked' = tracked \ gone
           /\ reaped' = reaped \cup gone
           /\ owed' = [c \in Clients |-> IF c \in gone THEN {}
                                         ELSE IF c \in tracked THEN owed[c] \cup {0}
                                         ELSE owed[c]]
    /\ untilTick' = Interval
    /\ UNCHANGED <<alive, silent>>

\* Time passes, but neither past a tick that is due nor past the moment by
\* which a live browser answers.
TimePasses ==
    /\ tracked # {} /\ untilTick > 0
    /\ \A c \in alive \cap tracked : \A a \in owed[c] : a < AnswerMax
    /\ untilTick' = untilTick - 1
    /\ silent' = [c \in Clients |-> IF c \in tracked THEN silent[c] + 1 ELSE silent[c]]
    /\ owed' = [c \in Clients |-> {a + 1 : a \in owed[c]}]
    /\ UNCHANGED <<alive, tracked, reaped>>

BeatNext ==
    \/ Tick \/ TimePasses
    \/ \E c \in Clients : Add(c) \/ Remove(c) \/ Vanish(c) \/ Answer(c)

BeatSpec == BeatInit /\ [][BeatNext]_beatVars

-----------------------------------------------------------------------------
(* Properties *)

\* A browser that answers is never reaped, though the timer it shares with
\* other clients may ping it late and its answers may overlap.
AnsweringIsKept == alive \cap reaped = {}

\* A client that is silent is reaped by the first tick after the timeout.
SilentIsReaped == \A c \in tracked : silent[c] < Timeout + Interval
=============================================================================
