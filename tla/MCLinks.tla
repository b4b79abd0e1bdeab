------------------------------ MODULE MCLinks ------------------------------
(***************************************************************************)
(* The connections around the transfers: the page and its WebSocket        *)
(* (EditorLink), the bridge's heartbeat, the host's proxy, the supervisor, *)
(* the discovery of a controller and the feed of its levels.  They share   *)
(* no state in the model: one run checks all of them, and the initial      *)
(* state says which part moves.  The others stay as they are.              *)
(***************************************************************************)
EXTENDS EditorLink

CONSTANTS
    Clients, Interval, Timeout, AnswerMax,
    Browsers,
    Hosts, Private, Concurrency,
    Outputs, LevelsSeen

VARIABLES
    part,
    alive, silent, tracked, untilTick, owed, reaped,
    browser, client, upstream, paired, joined, graces, session, host,
    child, children, stopping, exitCode, killDue, supervisor,
    controllers, preferred, fallback, own, phase, cursor, probes, failed, found, app,
    open, gathered, timer, page, actual, lost

beatVars == <<alive, silent, tracked, untilTick, owed, reaped>>
proxyVars == <<browser, client, upstream, paired, joined, graces, session, host>>
supervisorVars == <<child, children, stopping, exitCode, killDue, supervisor>>
discoveryVars == <<controllers, preferred, fallback, own, phase, cursor, probes, failed,
                   found, app>>
feedVars == <<open, gathered, timer, page, actual, lost>>
vars == <<part, linkVars, beatVars, proxyVars, supervisorVars, discoveryVars, feedVars>>

Beat == INSTANCE Heartbeat
Proxy == INSTANCE HostProxy
Super == INSTANCE Supervisor
Find == INSTANCE Discovery
Feed == INSTANCE StatusFeed

ASSUME ServiceAssumption ==
    Beat!HeartbeatAssumption /\ Find!DiscoveryAssumption /\ Feed!FeedAssumption

-----------------------------------------------------------------------------
Parts == {"link", "beat", "proxy", "supervisor", "discovery", "feed"}

\* A part that does not move has one initial state.
MCInit ==
    /\ part \in Parts
    /\ LinkInit
    /\ part # "link" => settings = NoSettings
    /\ Beat!BeatInit
    /\ part # "beat" => alive = {}
    /\ Proxy!ProxyInit /\ Super!SupervisorInit
    /\ Find!DiscoveryInit
    /\ part # "discovery" =>
          controllers = {} /\ own = {} /\ preferred = Find!NoHost /\ fallback = Find!NoHost
    /\ Feed!FeedInit

MCNext ==
    /\ UNCHANGED part
    /\ \/ part = "link" /\ LinkNext
       \/ part # "link" /\ UNCHANGED linkVars
    /\ \/ part = "beat" /\ Beat!BeatNext
       \/ part # "beat" /\ UNCHANGED beatVars
    /\ \/ part = "proxy" /\ Proxy!ProxyNext
       \/ part # "proxy" /\ UNCHANGED proxyVars
    /\ \/ part = "supervisor" /\ Super!SupervisorNext
       \/ part # "supervisor" /\ UNCHANGED supervisorVars
    /\ \/ part = "discovery" /\ Find!DiscoveryNext
       \/ part # "discovery" /\ UNCHANGED discoveryVars
    /\ \/ part = "feed" /\ Feed!FeedNext
       \/ part # "feed" /\ UNCHANGED feedVars

\* The fairness of the parts, LinkFairness, ProxyFairness and
\* SupervisorFairness, each for the behaviors in which the part moves.
MCFairness ==
    /\ WF_linkVars(part = "link" /\ CountdownEnds)
    /\ WF_linkVars(part = "link" /\ SyncTimesOut)
    /\ WF_proxyVars(part = "proxy" /\ Proxy!StopsCleanly)
    /\ WF_proxyVars(part = "proxy" /\ Proxy!DeadlineEnds)
    /\ \A c \in Browsers :
          /\ WF_proxyVars(part = "proxy" /\ Proxy!BridgeReaps(c))
          /\ WF_proxyVars(part = "proxy" /\ Proxy!UpstreamCloses(c))
          /\ \A side \in Proxy!Sides :
                WF_proxyVars(part = "proxy" /\ Proxy!GraceEnds(c, side))
    /\ WF_supervisorVars(part = "supervisor" /\ Super!Escalate)
    /\ \A c \in Super!Children : WF_supervisorVars(part = "supervisor" /\ Super!SeeExit(c))

MCSpec == MCInit /\ [][MCNext]_vars /\ MCFairness

-----------------------------------------------------------------------------
(* What the run checks.  RecoverySettles is that of EditorLink.             *)

\* EditorLink: only the current socket delivers, and the pill promises a
\* session only over an open one (connect, onclose in app/page.tsx).
SocketsFit == OnlyCurrentIsOpen /\ PillNeedsSocket

\* EditorLink: the recovery succeeds only by its own read-back from the
\* controller that got the profiles (user-profile-recovery.ts).
RecoveryIsOwn == [][part = "link" => SucceedsByItself /\ StaysHome]_vars

\* EditorLink: an answer ends the dialog that waits for it (app/page.tsx).
DialogEndsByAnswer == [][part = "link" => DialogsAnswered]_vars

\* Heartbeat: the silent are reaped in time and the others kept.  Discovery:
\* what is offered answered.  StatusFeed: the page catches up with every
\* level that did not go with its socket.
ServiceFits ==
    /\ part = "beat" => Beat!AnsweringIsKept /\ Beat!SilentIsReaped
    /\ part = "discovery" => Find!OffersWhatAnswered
    /\ part = "feed" => Feed!PageCatchesUp

\* HostProxy: pairs die together, sessions are released, the host stops
\* (server/host.mjs).
PairDiesTogether == Proxy!PairDiesTogether /\ Proxy!SessionReleased /\ Proxy!HostStops

\* Supervisor: never a half-working pair (server/start-all.mjs).
WholeOrNothing == Super!WholeOrNothing

\* EditorLink, as the README says: Send only after a Compare from the same
\* connection.
SendNeedsCompare == part = "link" => SendOfferedFresh
=============================================================================
