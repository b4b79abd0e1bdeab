------------------------------ MODULE HostProxy ------------------------------
(***************************************************************************)
(* The web host's proxy between browsers and the bridge (server/host.mjs), *)
(* from the upgrade request to the end of both sockets, and the shutdown   *)
(* of the host.  What goes through the proxy is left out.                  *)
(*                                                                         *)
(* A socket the host has ended is closed when the other side ends as well; *)
(* a browser that has vanished (a crash, a lost link) does not, and the    *)
(* bridge finds out by its Heartbeat.                                      *)
(***************************************************************************)
EXTENDS Naturals

CONSTANTS Browsers     \* connections of browsers to /bridge

VARIABLES
    browser,   \* the other end of each connection
    client,    \* clientSocket
    upstream,  \* upstreamRequest, then bridgeSocket
    paired,    \* the connections in bridgeProxySockets
    joined,    \* those whose sockets have listeners for close and error
    graces,    \* the teardown timers: <<connection, side>>
    session,   \* connections the bridge holds a controller session for
    host       \* the process

proxyVars == <<browser, client, upstream, paired, joined, graces, session, host>>

Sides == {"client", "upstream"}

ProxyTypeOK ==
    /\ browser \in [Browsers -> {"away", "there", "vanished", "gone"}]
    /\ client \in [Browsers -> {"none", "open", "ended", "closed"}]
    /\ upstream \in [Browsers -> {"none", "asking", "open", "ended", "closed"}]
    /\ paired \subseteq joined /\ joined \subseteq Browsers /\ session \subseteq Browsers
    /\ graces \subseteq Browsers \X Sides
    /\ host \in {"running", "stopping", "stopped", "deadline", "crashed"}

ProxyInit ==
    /\ browser = [c \in Browsers |-> "away"]
    /\ client = [c \in Browsers |-> "none"]
    /\ upstream = [c \in Browsers |-> "none"]
    /\ paired = {} /\ joined = {} /\ graces = {} /\ session = {}
    /\ host = "running"

Alive == host \in {"running", "stopping"}
Live(socket) == socket \in {"open", "ended"}
Ended(socket) == IF socket = "open" THEN "ended" ELSE socket

-----------------------------------------------------------------------------
(* The upgrade request *)

\* A request for another path or from another origin is answered and ended.
Upgrade(c) ==
    /\ host = "running" /\ browser[c] = "away"
    /\ browser' = [browser EXCEPT ![c] = "there"]
    /\ \/ /\ client' = [client EXCEPT ![c] = "open"]
          /\ upstream' = [upstream EXCEPT ![c] = "asking"]
       \/ client' = [client EXCEPT ![c] = "ended"] /\ UNCHANGED upstream
    /\ UNCHANGED <<paired, joined, graces, session, host>>

\* upgrade of the upstream request: the two sockets are a pair.
BridgeAccepts(c) ==
    /\ Alive /\ upstream[c] = "asking"
    /\ upstream' = [upstream EXCEPT ![c] = "open"]
    /\ paired' = paired \cup {c} /\ joined' = joined \cup {c}
    /\ session' = session \cup {c}
    /\ UNCHANGED <<browser, client, graces, host>>

\* response and error of the upstream request.
BridgeRefuses(c) ==
    /\ Alive /\ upstream[c] = "asking"
    /\ upstream' = [upstream EXCEPT ![c] = "closed"]
    /\ client' = [client EXCEPT ![c] = Ended(@)]
    /\ UNCHANGED <<browser, paired, joined, graces, session, host>>

-----------------------------------------------------------------------------
(* The end of a pair *)

\* Faulty variant: end() alone, without the timer that destroys the socket.
TeardownGraceless(c, now) ==
    /\ paired' = paired \ {c}
    /\ client' = [client EXCEPT ![c] = Ended(now.client)]
    /\ upstream' = [upstream EXCEPT ![c] = Ended(now.upstream)]
    /\ UNCHANGED <<joined, graces>>

\* teardown, with closeProxyPeer for what is left of the two sockets.
Teardown(c, now) ==
    /\ paired' = paired \ {c}
    /\ client' = [client EXCEPT ![c] = Ended(now.client)]
    /\ upstream' = [upstream EXCEPT ![c] = Ended(now.upstream)]
    /\ graces' = (graces \ ({c} \X Sides))
                   \cup {<<c, side>> : side \in {s \in Sides : Live(now[s])}}
    /\ UNCHANGED joined

Now(c) == [client |-> client[c], upstream |-> upstream[c]]
Destroyed(c, side) == [Now(c) EXCEPT ![side] = "closed"]

\* The browser closes its socket, crashes, or answers an end with its own.
BrowserLeaves(c) ==
    /\ browser[c] = "there"
    /\ browser' \in {[browser EXCEPT ![c] = "gone"], [browser EXCEPT ![c] = "vanished"]}
    /\ UNCHANGED <<client, upstream, paired, joined, graces, session, host>>

\* The end of the browser's side, forwarded by pipe; not read before the pair.
ClientEnds(c) ==
    /\ Alive /\ browser[c] = "gone" /\ client[c] = "open" /\ c \in paired
    /\ upstream' = [upstream EXCEPT ![c] = Ended(@)]
    /\ UNCHANGED <<browser, client, paired, joined, graces, session, host>>

\* close and error of clientSocket.
ClientCloses(c) ==
    /\ Alive /\ browser[c] = "gone" /\ Live(client[c])
    /\ IF c \in joined THEN Teardown(c, Destroyed(c, "client"))
       ELSE /\ client[c] = "ended"
            /\ client' = [client EXCEPT ![c] = "closed"]
            /\ UNCHANGED <<upstream, paired, joined, graces>>
    /\ UNCHANGED <<browser, session, host>>

\* The bridge's socket closes: it was ended or destroyed by the host, ...
BridgeNotices(c) ==
    /\ c \in session /\ upstream[c] \in {"ended", "closed"}
    /\ session' = session \ {c}
    /\ UNCHANGED <<browser, client, upstream, paired, joined, graces, host>>

\* ... the heartbeat reaped it, or the browser asked for the close.
BridgeReaps(c) ==
    /\ c \in session /\ browser[c] # "there"
    /\ session' = session \ {c}
    /\ UNCHANGED <<browser, client, upstream, paired, joined, graces, host>>

\* close and error of bridgeSocket.
UpstreamCloses(c) ==
    /\ Alive /\ Live(upstream[c]) /\ c \notin session
    /\ Teardown(c, Destroyed(c, "upstream"))
    /\ UNCHANGED <<browser, session, host>>

\* closeProxyPeer's timer: the peer is destroyed, which closes it.
GraceEnds(c, side) ==
    /\ Alive /\ <<c, side>> \in graces
    /\ Teardown(c, Destroyed(c, side))
    /\ UNCHANGED <<browser, session, host>>

-----------------------------------------------------------------------------
(* shutdown *)

\* The pairs are ended, without a timer of their own.
Shutdown ==
    /\ host = "running" /\ host' = "stopping"
    /\ client' = [c \in Browsers |-> IF c \in paired \/ upstream[c] = "asking"
                                     THEN Ended(client[c]) ELSE client[c]]
    /\ upstream' = [c \in Browsers |-> IF upstream[c] = "asking" THEN "closed"
                                       ELSE IF c \in paired THEN Ended(upstream[c])
                                       ELSE upstream[c]]
    /\ UNCHANGED <<browser, paired, joined, graces, session>>

\* The sockets of a process that exits are closed by the system.
Exit(how) ==
    /\ host' = how
    /\ client' = [c \in Browsers |-> IF Live(client[c]) THEN "closed" ELSE client[c]]
    /\ upstream' = [c \in Browsers |-> IF upstream[c] = "none" THEN "none" ELSE "closed"]
    /\ paired' = {} /\ graces' = {}
    /\ UNCHANGED <<browser, joined, session>>

\* A reset from the browser while clientSocket has no listener for it is an
\* unhandled error of the process.
ResetUnheard(c) ==
    /\ Alive /\ browser[c] = "gone" /\ Live(client[c]) /\ c \notin joined
    /\ Exit("crashed")

\* The callback of server.close: no connection of a browser is left.
StopsCleanly ==
    /\ host = "stopping" /\ \A c \in Browsers : ~Live(client[c])
    /\ Exit("stopped")

DeadlineEnds == host = "stopping" /\ Exit("deadline")

ProxyNext ==
    \/ Shutdown \/ StopsCleanly \/ DeadlineEnds
    \/ \E c \in Browsers :
          \/ Upgrade(c) \/ BridgeAccepts(c) \/ BridgeRefuses(c)
          \/ BrowserLeaves(c) \/ ClientEnds(c) \/ ClientCloses(c) \/ ResetUnheard(c)
          \/ BridgeNotices(c) \/ BridgeReaps(c) \/ UpstreamCloses(c)
          \/ \E side \in Sides : GraceEnds(c, side)

ProxySpec == ProxyInit /\ [][ProxyNext]_proxyVars

\* Timers fire and closes of the other side's system are seen; no browser
\* has to leave, and the bridge need not answer an end.
ProxyFairness ==
    /\ WF_proxyVars(StopsCleanly) /\ WF_proxyVars(DeadlineEnds)
    /\ \A c \in Browsers :
          /\ WF_proxyVars(BridgeReaps(c)) /\ WF_proxyVars(UpstreamCloses(c))
          /\ \A side \in Sides : WF_proxyVars(GraceEnds(c, side))

-----------------------------------------------------------------------------
(* Properties *)

\* Neither half of a pair outlives the other: not the upstream socket when
\* the bridge never answers the end, nor the browser's when it has vanished.
PairDiesTogether ==
    \A c \in Browsers :
        c \in joined /\ "closed" \in {upstream[c], client[c]}
          ~> upstream[c] = "closed" /\ client[c] = "closed"

\* A browser that is gone without a word does not keep its session.
SessionReleased ==
    \A c \in Browsers : browser[c] = "vanished" ~> c \notin session

\* A host told to stop does, whatever connections are left.
HostStops == host = "stopping" ~> host \in {"stopped", "deadline", "crashed"}
=============================================================================
