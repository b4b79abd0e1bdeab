------------------------------ MODULE Discovery ------------------------------
(***************************************************************************)
(* Auto Detect (bridge/discovery.mjs and the discover message in           *)
(* bridge/server.mjs): a UDP broadcast first, then a scan of candidate     *)
(* addresses by a few probes at a time, which share a cursor and what was  *)
(* found.                                                                  *)
(***************************************************************************)
EXTENDS Naturals, Sequences, FiniteSets, SequencesExt

CONSTANTS
    Hosts,        \* addresses of a small network
    Private,      \* those of the private ranges
    Concurrency   \* probes at a time

DiscoveryAssumption ==
    /\ IsFiniteSet(Hosts) /\ Private \subseteq Hosts /\ "none" \notin Hosts
    /\ Concurrency \in Nat \ {0}

VARIABLES
    controllers, \* addresses where a controller listens, of the preferred port
    preferred,   \* the address the site has
    fallback,    \* FLEXIDIM_DISCOVERY_SEED
    own,         \* addresses of the bridge's interfaces
    phase,       \* "udp", "scan" or "done"
    cursor,      \* the next candidate
    probes,      \* the candidate of each probe, or NoHost
    failed,      \* history: candidates that were probed in vain
    found,       \* found, or the answer to the broadcast
    app          \* the browser: "waiting", "left", "offered" or "refused"

discoveryVars == <<controllers, preferred, fallback, own, phase, cursor, probes,
                   failed, found, app>>

NoHost == "none"
Probes == 1..Concurrency

\* The /24 of an address; in the model all hosts are of one network.
Network(h) == Hosts

\* lanCandidates: the preferred address first if it is a private one, its
\* network or that of the fallback, and the networks of the interfaces, each
\* address where it comes first.
Candidates ==
    LET first == IF preferred \in Private THEN {preferred} ELSE {}
        near == IF preferred \in Private THEN Network(preferred)
                ELSE IF fallback \in Private THEN Network(fallback) ELSE {}
        local == UNION {Network(h) \ {h} : h \in own \cap Private}
    IN  SetToSeq(first) \o SetToSeq(near \ first) \o SetToSeq(local \ (first \cup near))

DiscoveryTypeOK ==
    /\ controllers \subseteq Hosts /\ own \subseteq Hosts
    /\ {preferred, fallback, found} \subseteq Hosts \cup {NoHost}
    /\ phase \in {"udp", "scan", "done"} /\ cursor \in 1..(Cardinality(Hosts) + 1)
    /\ probes \in [Probes -> Hosts \cup {NoHost}] /\ failed \subseteq Hosts
    /\ app \in {"waiting", "left", "offered", "refused"}

DiscoveryInit ==
    /\ controllers \in SUBSET Hosts
    /\ preferred \in Hosts \cup {NoHost} /\ fallback \in Hosts \cup {NoHost}
    /\ own \in {{}} \cup {{h} : h \in Hosts}
    /\ phase = "udp" /\ cursor = 1 /\ found = NoHost /\ failed = {}
    /\ probes = [n \in Probes |-> NoHost] /\ app = "waiting"

Setup == <<controllers, preferred, fallback, own>>
-----------------------------------------------------------------------------
\* discoverControllerUdp: an answer from a private address, or none in time.
UdpAnswered(h) ==
    /\ phase = "udp" /\ h \in controllers \cap Private
    /\ found' = h /\ phase' = "done"
    /\ UNCHANGED <<Setup, cursor, probes, failed, app>>

UdpEnds ==
    /\ phase = "udp" /\ phase' = "scan"
    /\ UNCHANGED <<Setup, cursor, probes, failed, found, app>>

\* A worker takes the next candidate, unless one was found.
Probe(n) ==
    /\ phase = "scan" /\ probes[n] = NoHost
    /\ found = NoHost /\ cursor <= Len(Candidates)
    /\ probes' = [probes EXCEPT ![n] = Candidates[cursor]]
    /\ cursor' = cursor + 1
    /\ UNCHANGED <<Setup, phase, failed, found, app>>

\* Faulty variant: a probe that fails takes back what another one found.
ProbeEndsOverwriting(n) ==
    /\ phase = "scan" /\ probes[n] # NoHost
    /\ found' = IF probes[n] \in controllers THEN probes[n] ELSE NoHost
    /\ failed' = IF probes[n] \in controllers THEN failed ELSE failed \cup {probes[n]}
    /\ probes' = [probes EXCEPT ![n] = NoHost]
    /\ UNCHANGED <<Setup, phase, cursor, app>>

\* connect, or timeout and error.
ProbeEnds(n) ==
    /\ phase = "scan" /\ probes[n] # NoHost
    /\ found' = IF probes[n] \in controllers THEN probes[n] ELSE found
    /\ failed' = IF probes[n] \in controllers THEN failed ELSE failed \cup {probes[n]}
    /\ probes' = [probes EXCEPT ![n] = NoHost]
    /\ UNCHANGED <<Setup, phase, cursor, app>>

ScanEnds ==
    /\ phase = "scan"
    /\ \A n \in Probes : probes[n] = NoHost
    /\ found # NoHost \/ cursor > Len(Candidates)
    /\ phase' = "done"
    /\ UNCHANGED <<Setup, cursor, probes, failed, found, app>>

AppLeaves ==
    /\ app = "waiting" /\ app' = "left"
    /\ UNCHANGED <<Setup, phase, cursor, probes, failed, found>>

\* The handler: a browser that has left is not answered.
Report ==
    /\ phase = "done" /\ app = "waiting"
    /\ app' = IF found = NoHost THEN "refused" ELSE "offered"
    /\ UNCHANGED <<Setup, phase, cursor, probes, failed, found>>

DiscoveryNext ==
    \/ UdpEnds \/ ScanEnds \/ AppLeaves \/ Report
    \/ \E h \in Hosts : UdpAnswered(h)
    \/ \E n \in Probes : Probe(n) \/ ProbeEnds(n)

DiscoverySpec == DiscoveryInit /\ [][DiscoveryNext]_discoveryVars

-----------------------------------------------------------------------------
(* Properties *)

\* What is offered is a controller that answered; a browser is told there is
\* none only when every candidate, the preferred private address among them,
\* was probed in vain.
OffersWhatAnswered ==
    /\ app = "offered" => found \in controllers
    /\ app = "refused" => /\ \A k \in DOMAIN Candidates : Candidates[k] \in failed
                          /\ preferred \in Private => preferred \notin controllers
=============================================================================
