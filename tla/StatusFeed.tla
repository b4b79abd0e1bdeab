----------------------------- MODULE StatusFeed -----------------------------
(***************************************************************************)
(* Channel levels from the controller to the page (queueControllerStatus   *)
(* in bridge/server.mjs): a controller socket gathers levels for half a    *)
(* second and sends them in one message.  Its close event stops the timer, *)
(* and what was gathered goes with the socket.  Destroying a socket and    *)
(* its close event are one action: no timer fires between them, as close   *)
(* callbacks run in the same turn of the event loop.  The connection to    *)
(* the page is EditorLink's matter.                                        *)
(***************************************************************************)
EXTENDS Naturals

CONSTANTS
    Outputs,      \* channels of the controller
    LevelsSeen    \* levels it reports

FeedAssumption == "unknown" \notin LevelsSeen

VARIABLES
    open,      \* the browser has a controller socket
    gathered,  \* flexidimPendingLevels of that socket
    timer,     \* flexidimStatusTimer runs
    page,      \* the levels on the page
    actual,    \* history: the level last reported for each channel
    lost       \* history: channels whose last report went with a socket

feedVars == <<open, gathered, timer, page, actual, lost>>

Unknown == "unknown"
LevelMaps == [Outputs -> LevelsSeen \cup {Unknown}]
Nothing == [o \in Outputs |-> Unknown]

FeedTypeOK ==
    /\ open \in BOOLEAN /\ timer \in BOOLEAN
    /\ gathered \in LevelMaps /\ page \in LevelMaps /\ actual \in LevelMaps
    /\ lost \subseteq Outputs

FeedInit ==
    /\ open = TRUE /\ timer = FALSE
    /\ gathered = Nothing /\ page = Nothing /\ actual = Nothing
    /\ lost = {}

-----------------------------------------------------------------------------
\* Faulty variant: a level the page already shows is not gathered.
ReportedIfChanged(o, level) ==
    /\ open
    /\ actual' = [actual EXCEPT ![o] = level]
    /\ gathered' = IF page[o] = level THEN gathered ELSE [gathered EXCEPT ![o] = level]
    /\ timer' = TRUE
    /\ lost' = lost \ {o}
    /\ UNCHANGED <<open, page>>

\* queueControllerStatus, for one record: the timer starts with the first.
Reported(o, level) ==
    /\ open
    /\ actual' = [actual EXCEPT ![o] = level]
    /\ gathered' = [gathered EXCEPT ![o] = level]
    /\ timer' = TRUE
    /\ lost' = lost \ {o}
    /\ UNCHANGED <<open, page>>

\* The timer fires: what was gathered goes to the page in one message.
Flush ==
    /\ timer
    /\ page' = [o \in Outputs |-> IF gathered[o] = Unknown THEN page[o] ELSE gathered[o]]
    /\ timer' = FALSE /\ gathered' = Nothing
    /\ UNCHANGED <<open, actual, lost>>

\* The close handler stops the timer; nobody sends what was gathered.
Dropped ==
    /\ timer' = FALSE /\ gathered' = Nothing
    /\ lost' = lost \cup {o \in Outputs : gathered[o] # Unknown}
    /\ UNCHANGED <<page, actual>>

\* The controller or the bridge ends the connection.
SocketCloses == open /\ open' = FALSE /\ Dropped

\* connectController: the socket there is is destroyed, another is dialled.
DialAgain == open' = TRUE /\ Dropped

FeedNext ==
    \/ Flush \/ SocketCloses \/ DialAgain
    \/ \E o \in Outputs, level \in LevelsSeen : Reported(o, level)

FeedSpec == FeedInit /\ [][FeedNext]_feedVars

-----------------------------------------------------------------------------
(* Properties *)

\* The page shows what was reported last of a channel, or a running timer is
\* about to tell it, or the report went with its socket within the half second
\* and the channel has not been reported since (bridge/server.mjs:111, :237).
PageCatchesUp ==
    \A o \in Outputs :
       \/ page[o] = actual[o] /\ gathered[o] = Unknown
       \/ timer /\ gathered[o] = actual[o] /\ gathered[o] # Unknown
       \/ o \in lost /\ gathered[o] = Unknown
=============================================================================
