--------------------------- MODULE MCLinks_proofs ---------------------------
(***************************************************************************)
(* The safety of the connections around the transfers, for any number of   *)
(* sockets, clients, hosts, probes and channels and any lengths of the     *)
(* heartbeat that its constructor accepts.  Each part has an inductive     *)
(* invariant of its own; the parts share no variables, so that a step of   *)
(* one leaves the others' invariants alone.                                *)
(***************************************************************************)
EXTENDS MCLinks, FiniteSetTheorems, TLAPS

-----------------------------------------------------------------------------
(* The invariants *)

\* The connection's requests and messages are records, per socket.
LinkTyped ==
    /\ settings \in Settings /\ dialled \in Settings /\ image \in Images
    /\ socket \in 0..SocketCount
    /\ ready \in [Socks -> {"none", "connecting", "open", "closing", "failing", "closed"}]
    /\ asked \in [Socks -> SUBSET Requests]
    /\ inbox \in [Socks -> Seq(Messages)]
    /\ recovery \in Recoveries(Settings)
    /\ dialogs \in [users : {"closed", "running", "recovering", "result"},
                    transfer : {"closed", "running", "result"}]

\* Only the current socket is up or on its way up, and it was dialled with
\* settings connect accepts; one that has not opened carries nothing.
OneSocket ==
    /\ \A s \in Socks : ready[s] \in {"connecting", "open"} => s = socket
    /\ \A s \in Socks : ready[s] \in {"none", "connecting"} => asked[s] = {} /\ inbox[s] = <<>>
    /\ socket # 0 => dialled # NoSettings /\ ready[socket] # "none"

\* A recovery has its dialog and the settings of the controller it left.
RecoveryAtHome ==
    \/ recovery.phase = "none" /\ recovery.timers = {}
    \/ dialogs.users = "recovering" /\ recovery.home = dialled /\ dialled # NoSettings

\* While it syncs, what is compared over the new socket was asked by itself.
OwnReadBack ==
    recovery.phase = "syncing" =>
        /\ socket # 0
        /\ \A r \in asked[socket] : r.type = "verify" => r.by = "recovery"
        /\ \A n \in 1..Len(inbox[socket]) :
              inbox[socket][n].type \in Answers("verify")
                => inbox[socket][n].by = "recovery"

\* The request of a dialog, or its answer, is the only one, is on an open
\* socket, and the dialog runs.
OneOutstanding(dialog, type) ==
    /\ \A s \in Socks :
          /\ \A r \in asked[s] :
                r.type = type => dialogs[dialog] = "running" /\ ready[s] = "open"
          /\ \A n \in 1..Len(inbox[s]) :
                inbox[s][n].type \in Answers(type)
                  => dialogs[dialog] = "running" /\ ready[s] = "open"
          /\ \A r, q \in asked[s] : r.type = type /\ q.type = type => r = q
          /\ \A r \in asked[s] : r.type = type =>
                \A n \in 1..Len(inbox[s]) : inbox[s][n].type \notin Answers(type)
          /\ \A m, n \in 1..Len(inbox[s]) :
                inbox[s][m].type \in Answers(type) /\ inbox[s][n].type \in Answers(type)
                  => m = n

OneDialog == dialogs.users = "closed" \/ dialogs.transfer = "closed"

LinkInv ==
    /\ LinkTyped /\ OneSocket /\ PillNeedsSocket
    /\ RecoveryAtHome /\ OwnReadBack /\ OneDialog
    /\ OneOutstanding("users", "userProfiles") /\ OneOutstanding("transfer", "sync")

\* Heartbeat: the next tick finds a client that answers in time: its silence is
\* explained by the time since the last tick or by a ping on its way.
BeatInv ==
    /\ tracked \subseteq Clients /\ alive \subseteq Clients
    /\ silent \in [Clients -> Nat] /\ untilTick \in 0..Interval
    /\ owed \in [Clients -> SUBSET Nat]
    /\ \A c \in Clients \ tracked : owed[c] = {}
    /\ \A c \in tracked : silent[c] + untilTick < Timeout + Interval
    /\ \A c \in alive \cap tracked :
          /\ \A a \in owed[c] : a <= AnswerMax
          /\ IF owed[c] = {} THEN silent[c] + untilTick <= Interval
             ELSE \E a \in owed[c] : silent[c] <= Interval + a
    /\ alive \cap reaped = {}

\* Discovery: every candidate before the cursor is being probed, has failed or
\* has brought a controller.
FindInv ==
    /\ preferred \in Hosts \cup {Find!NoHost} /\ fallback \in Hosts \cup {Find!NoHost}
    /\ own \subseteq Hosts
    /\ cursor \in Nat \ {0} /\ cursor <= Len(Find!Candidates) + 1
    /\ probes \in [Find!Probes -> Hosts \cup {Find!NoHost}]
    /\ found # Find!NoHost => found \in controllers
    /\ failed \cap controllers = {}
    /\ phase \in {"scan", "done"} /\ found = Find!NoHost =>
          \A k \in 1..(cursor - 1) :
              \/ Find!Candidates[k] \in failed
              \/ \E n \in Find!Probes : probes[n] = Find!Candidates[k]
    /\ phase = "done" /\ found = Find!NoHost =>
          /\ cursor = Len(Find!Candidates) + 1
          /\ \A n \in Find!Probes : probes[n] = Find!NoHost
    /\ phase = "udp" => cursor = 1 /\ found = Find!NoHost
    /\ app \in {"offered", "refused"} => phase = "done"
    /\ app = "offered" => found # Find!NoHost
    /\ app = "refused" => found = Find!NoHost

\* StatusFeed: what the feed promises is inductive, given its types.
FeedInv == Feed!FeedTypeOK /\ Feed!PageCatchesUp

-----------------------------------------------------------------------------
(* Heartbeat *)

\* What the heartbeat's constructor accepts.
LEMMA BeatFacts ==
    /\ Interval \in Nat \ {0} /\ Timeout \in Nat /\ Timeout > Interval
    /\ AnswerMax \in Nat /\ Interval + AnswerMax < Timeout
BY ServiceAssumption DEF Beat!HeartbeatAssumption

\* The heartbeat starts with no client and no timer.
LEMMA BeatInvInit == Beat!BeatInit => BeatInv
BY BeatFacts DEF Beat!BeatInit, BeatInv

\* Every step of the heartbeat keeps BeatInv: a tick finds a client that
\* answers with a silence of at most an interval and an answer.
LEMMA BeatInvStep == BeatInv /\ Beat!BeatNext => BeatInv'
<1> SUFFICES ASSUME BeatInv, Beat!BeatNext PROVE BeatInv'
  OBVIOUS
<1> USE BeatFacts
<1>1. CASE Beat!Tick
  <2> DEFINE gone == {c \in tracked : Beat!Overdue(c)}
  <2>1. \A c \in alive \cap tracked : c \notin gone
    BY DEF BeatInv, Beat!Overdue
  <2>2. owed' \in [Clients -> SUBSET Nat]
    BY <1>1 DEF BeatInv, Beat!Tick
  <2>3. \A c \in Clients \ tracked' : owed'[c] = {}
    BY <1>1 DEF BeatInv, Beat!Tick
  <2>4. \A c \in tracked' : silent'[c] + untilTick' < Timeout + Interval
    BY <1>1 DEF BeatInv, Beat!Tick, Beat!Overdue
  <2>5. ASSUME NEW c \in alive' \cap tracked'
        PROVE  /\ \A a \in owed'[c] : a <= AnswerMax
               /\ owed'[c] # {}
               /\ \E a \in owed'[c] : silent'[c] <= Interval + a
    <3>1. c \in alive \cap tracked /\ c \notin gone /\ c \in Clients
      BY <1>1, <2>1 DEF BeatInv, Beat!Tick
    <3>2. owed'[c] = owed[c] \cup {0} /\ silent'[c] = silent[c]
      BY <1>1, <3>1 DEF Beat!Tick
    <3>3. \A a \in owed'[c] : a <= AnswerMax
      BY <3>1, <3>2 DEF BeatInv
    <3>4. CASE owed[c] = {}
      <4>1. silent[c] <= Interval + 0
        BY <3>1, <3>4 DEF BeatInv
      <4> QED BY <4>1, <3>2, <3>3
    <3>5. CASE owed[c] # {}
      BY <3>1, <3>2, <3>3, <3>5 DEF BeatInv
    <3> QED BY <3>4, <3>5
  <2>6. alive' \cap reaped' = {}
    BY <1>1, <2>1 DEF BeatInv, Beat!Tick
  <2>7. /\ tracked' \subseteq Clients /\ alive' \subseteq Clients
        /\ silent' \in [Clients -> Nat] /\ untilTick' \in 0..Interval
    BY <1>1 DEF BeatInv, Beat!Tick
  <2> QED BY <2>2, <2>3, <2>4, <2>5, <2>6, <2>7 DEF BeatInv
<1>2. CASE Beat!TimePasses
  <2>1. silent' \in [Clients -> Nat] /\ untilTick' \in 0..Interval
    BY <1>2 DEF BeatInv, Beat!TimePasses
  <2>2. owed' \in [Clients -> SUBSET Nat] /\ \A c \in Clients \ tracked' : owed'[c] = {}
    BY <1>2 DEF BeatInv, Beat!TimePasses
  <2>3. \A c \in tracked' : silent'[c] + untilTick' < Timeout + Interval
    BY <1>2 DEF BeatInv, Beat!TimePasses
  <2>4. ASSUME NEW c \in alive' \cap tracked'
        PROVE  /\ \A a \in owed'[c] : a <= AnswerMax
               /\ IF owed'[c] = {} THEN silent'[c] + untilTick' <= Interval
                  ELSE \E a \in owed'[c] : silent'[c] <= Interval + a
    <3>1. c \in alive \cap tracked /\ c \in Clients
      BY <1>2 DEF BeatInv, Beat!TimePasses
    <3>2. owed'[c] = {a + 1 : a \in owed[c]} /\ silent'[c] = silent[c] + 1
          /\ untilTick' = untilTick - 1
      BY <1>2, <3>1 DEF BeatInv, Beat!TimePasses
    <3>3. \A a \in owed[c] : a \in Nat /\ a < AnswerMax
      BY <1>2, <3>1 DEF BeatInv, Beat!TimePasses
    <3>4. \A a \in owed'[c] : a <= AnswerMax
      BY <3>2, <3>3
    <3>5. CASE owed[c] = {}
      BY <3>1, <3>2, <3>4, <3>5 DEF BeatInv
    <3>6. CASE owed[c] # {}
      <4>1. PICK a \in owed[c] : silent[c] <= Interval + a
        BY <3>1, <3>6 DEF BeatInv
      <4>2. a + 1 \in owed'[c] /\ silent'[c] <= Interval + (a + 1)
        BY <4>1, <3>1, <3>2, <3>3 DEF BeatInv
      <4> QED BY <4>2, <3>4
    <3> QED BY <3>5, <3>6
  <2> QED BY <1>2, <2>1, <2>2, <2>3, <2>4 DEF BeatInv, Beat!TimePasses
<1>3. ASSUME NEW c \in Clients, Beat!Add(c) PROVE BeatInv'
  BY <1>3 DEF BeatInv, Beat!Add
<1>4. ASSUME NEW c \in Clients, Beat!Remove(c) PROVE BeatInv'
  <2>1. owed' \in [Clients -> SUBSET Nat] /\ \A d \in Clients \ tracked' : owed'[d] = {}
    BY <1>4 DEF BeatInv, Beat!Remove
  <2>2. \A d \in tracked' : untilTick' = untilTick /\ d \in tracked /\ owed'[d] = owed[d]
    BY <1>4 DEF BeatInv, Beat!Remove
  <2> QED BY <1>4, <2>1, <2>2 DEF BeatInv, Beat!Remove
<1>5. ASSUME NEW c \in Clients, Beat!Vanish(c) PROVE BeatInv'
  BY <1>5 DEF BeatInv, Beat!Vanish
<1>6. ASSUME NEW c \in Clients, Beat!Answer(c) PROVE BeatInv'
  <2>1. owed'[c] \subseteq owed[c] /\ silent'[c] = 0
    BY <1>6 DEF BeatInv, Beat!Answer
  <2>2. \A d \in Clients \ {c} : owed'[d] = owed[d] /\ silent'[d] = silent[d]
    BY <1>6 DEF BeatInv, Beat!Answer
  <2>3. owed' \in [Clients -> SUBSET Nat] /\ silent' \in [Clients -> Nat]
    <3>1. owed[c] \ {CHOOSE a \in owed[c] : \A b \in owed[c] : a >= b} \in SUBSET Nat
      BY <1>6 DEF BeatInv
    <3> QED BY <1>6, <3>1 DEF BeatInv, Beat!Answer
  <2>4. \A d \in alive \cap tracked :
          IF owed'[d] = {} THEN silent'[d] + untilTick <= Interval
          ELSE \E a \in owed'[d] : silent'[d] <= Interval + a
    <3>1. IF owed'[c] = {} THEN silent'[c] + untilTick <= Interval
          ELSE \E a \in owed'[c] : silent'[c] <= Interval + a
      BY <2>1, <2>3 DEF BeatInv
    <3> QED BY <2>2, <3>1 DEF BeatInv
  <2>5. \A d \in alive \cap tracked : \A a \in owed'[d] : a <= AnswerMax
    BY <2>1, <2>2 DEF BeatInv
  <2>6. \A d \in Clients : owed'[d] \subseteq owed[d] /\ silent'[d] <= silent[d]
    BY <2>1, <2>2, <2>3 DEF BeatInv
  <2>7. UNCHANGED <<alive, tracked, untilTick, reaped>>
    BY <1>6 DEF Beat!Answer
  <2>8. \A d \in tracked' : silent'[d] + untilTick' < Timeout + Interval
    BY <2>3, <2>6, <2>7 DEF BeatInv
  <2> QED BY <2>3, <2>4, <2>5, <2>6, <2>7, <2>8 DEF BeatInv
<1> QED BY <1>1, <1>2, <1>3, <1>4, <1>5, <1>6 DEF Beat!BeatNext

\* BeatInv gives what the heartbeat promises.
LEMMA BeatInvKeeps == BeatInv => Beat!AnsweringIsKept /\ Beat!SilentIsReaped
BY BeatFacts DEF BeatInv, Beat!AnsweringIsKept, Beat!SilentIsReaped

-----------------------------------------------------------------------------
(* StatusFeed *)

\* A reported level is none of the unknown ones.
LEMMA FeedFacts == Feed!Unknown \notin LevelsSeen
BY ServiceAssumption DEF Feed!FeedAssumption, Feed!Unknown

\* Nothing is known and nothing is on its way.
LEMMA FeedInvInit == Feed!FeedInit => FeedInv
BY DEF Feed!FeedInit, FeedInv, Feed!FeedTypeOK, Feed!PageCatchesUp, Feed!Nothing, Feed!LevelMaps

\* What goes with a socket is what it had gathered: the rest the page has.
LEMMA FeedInvDropped == FeedInv /\ Feed!Dropped /\ open' \in BOOLEAN => FeedInv'
<1> SUFFICES ASSUME FeedInv, Feed!Dropped, open' \in BOOLEAN PROVE FeedInv'
  OBVIOUS
<1>1. /\ timer' = FALSE /\ gathered' = Feed!Nothing /\ UNCHANGED <<page, actual>>
      /\ lost' = lost \cup {o \in Outputs : gathered[o] # Feed!Unknown}
  BY DEF Feed!Dropped
<1>2. Feed!FeedTypeOK'
  BY <1>1 DEF FeedInv, Feed!FeedTypeOK, Feed!LevelMaps, Feed!Nothing
<1>3. ASSUME NEW o \in Outputs
      PROVE  gathered'[o] = Feed!Unknown /\ (page'[o] = actual'[o] \/ o \in lost')
  BY <1>1 DEF FeedInv, Feed!PageCatchesUp, Feed!Nothing
<1> QED BY <1>2, <1>3 DEF FeedInv, Feed!PageCatchesUp

\* A report waits for a running timer, and the timer tells the page all of it.
LEMMA FeedInvStep == FeedInv /\ Feed!FeedNext => FeedInv'
<1> SUFFICES ASSUME FeedInv, Feed!FeedNext PROVE FeedInv'
  OBVIOUS
<1>1. CASE Feed!Flush
  <2>1. /\ timer' = FALSE /\ gathered' = Feed!Nothing /\ UNCHANGED <<open, actual, lost>>
        /\ page' = [o \in Outputs |-> IF gathered[o] = Feed!Unknown THEN page[o]
                                      ELSE gathered[o]]
    BY <1>1 DEF Feed!Flush
  <2>2. Feed!FeedTypeOK'
    BY <2>1 DEF FeedInv, Feed!FeedTypeOK, Feed!LevelMaps, Feed!Nothing
  <2>3. ASSUME NEW o \in Outputs
        PROVE  gathered'[o] = Feed!Unknown /\ (page'[o] = actual'[o] \/ o \in lost')
    BY <2>1 DEF FeedInv, Feed!PageCatchesUp, Feed!Nothing
  <2> QED BY <2>2, <2>3 DEF FeedInv, Feed!PageCatchesUp
<1>2. CASE Feed!SocketCloses \/ Feed!DialAgain
  BY <1>2, FeedInvDropped DEF Feed!SocketCloses, Feed!DialAgain
<1>3. ASSUME NEW o \in Outputs, NEW level \in LevelsSeen, Feed!Reported(o, level)
      PROVE  FeedInv'
  <2>1. /\ actual' = [actual EXCEPT ![o] = level] /\ gathered' = [gathered EXCEPT ![o] = level]
        /\ timer' = TRUE /\ lost' = lost \ {o} /\ UNCHANGED <<open, page>>
    BY <1>3 DEF Feed!Reported
  <2>2. Feed!FeedTypeOK'
    BY <2>1 DEF FeedInv, Feed!FeedTypeOK, Feed!LevelMaps
  <2>3. gathered'[o] = level /\ actual'[o] = level /\ level # Feed!Unknown
    BY <2>1, FeedFacts DEF FeedInv, Feed!FeedTypeOK, Feed!LevelMaps
  <2>4. ASSUME NEW p \in Outputs, p # o
        PROVE  gathered'[p] = gathered[p] /\ actual'[p] = actual[p] /\ (p \in lost => p \in lost')
    BY <2>1, <2>4 DEF FeedInv, Feed!FeedTypeOK, Feed!LevelMaps
  <2> QED BY <2>1, <2>2, <2>3, <2>4 DEF FeedInv, Feed!PageCatchesUp
<1> QED BY <1>1, <1>2, <1>3 DEF Feed!FeedNext

\* FeedInv holds what the feed promises.
LEMMA FeedInvKeeps == FeedInv => Feed!PageCatchesUp
BY DEF FeedInv

-----------------------------------------------------------------------------
(* Discovery *)

\* The network is finite, and no host is the null one.
LEMMA FindFacts ==
    /\ IsFiniteSet(Hosts) /\ Private \subseteq Hosts /\ Find!NoHost \notin Hosts
    /\ Concurrency \in Nat \ {0}
<1>1. Find!DiscoveryAssumption
  BY ServiceAssumption
<1> QED BY <1>1 DEF Find!DiscoveryAssumption, Find!NoHost, Find!IsFiniteSet, IsFiniteSet

\* The cardinality of FiniteSets, as Discovery has it.
LEMMA SameCardinality == \A S : Find!Cardinality(S) = Cardinality(S)
BY DEF Find!Cardinality, Cardinality, Find!IsFiniteSet, IsFiniteSet

\* SetToSeq lists members of a finite set, and a single one as it is.
LEMMA SeqOfSet ==
    ASSUME NEW S, IsFiniteSet(S)
    PROVE  Find!SetToSeq(S) \in Seq(S)
<1>1. Cardinality(S) \in Nat /\ ExistsBijection(1..Cardinality(S), S)
  BY FS_CardinalityType
<1>2. \E f \in [1..Cardinality(S) -> S] : Find!IsInjective(f)
  BY <1>1 DEF ExistsBijection, Bijection, Injection, IsInjective, Find!IsInjective
<1>3. Find!SetToSeq(S) \in [1..Cardinality(S) -> S]
  <2>1. (CHOOSE f \in [1..Cardinality(S) -> S] : Find!IsInjective(f))
            \in [1..Cardinality(S) -> S]
    BY <1>2, Zenon
  <2> QED BY <2>1, SameCardinality, Zenon DEF Find!SetToSeq
<1> QED BY <1>1, <1>3

\* A single host is listed once.
LEMMA SeqOfOne ==
    ASSUME NEW x
    PROVE  Find!SetToSeq({x}) \in Seq({x}) /\ Len(Find!SetToSeq({x})) = 1
<1>1. Cardinality({x}) = 1 /\ IsFiniteSet({x})
  BY FS_Singleton
<1>2. ExistsBijection(1..1, {x})
  BY <1>1, FS_CardinalityType
<1>3. \E f \in [1..1 -> {x}] : Find!IsInjective(f)
  BY <1>2 DEF ExistsBijection, Bijection, Injection, IsInjective, Find!IsInjective
<1>4. Find!SetToSeq({x}) \in [1..1 -> {x}]
  <2>1. (CHOOSE f \in [1..1 -> {x}] : Find!IsInjective(f)) \in [1..1 -> {x}]
    BY <1>3, Zenon
  <2> QED BY <2>1, <1>1, SameCardinality, Zenon DEF Find!SetToSeq
<1>5. Find!SetToSeq({x}) \in Seq({x})
  BY <1>1, SeqOfSet
<1>6. Len(Find!SetToSeq({x})) = 1
  <2> DEFINE q == Find!SetToSeq({x})
  <2>0. q \in Seq({x})
    BY <1>5
  <2>1. DOMAIN q = 1..1
    BY <1>4
  <2> HIDE DEF q
  <2>2. Len(q) \in Nat /\ DOMAIN q = 1..Len(q)
    BY <2>0
  <2>3. 1 \in 1..Len(q) /\ (Len(q) \in 1..Len(q) \/ Len(q) = 0)
    BY <2>1, <2>2
  <2>4. \A n \in 1..Len(q) : n \in 1..1
    BY <2>1, <2>2
  <2>5. Len(q) = 1
    BY <2>2, <2>3, <2>4
  <2> QED BY <2>5 DEF q
<1> QED BY <1>5, <1>6

\* lanCandidates gives hosts, a private preferred address first.
LEMMA CandidatesType ==
    ASSUME own \subseteq Hosts, preferred \in Hosts \cup {Find!NoHost}
    PROVE  /\ Find!Candidates \in Seq(Hosts)
           /\ preferred \in Private =>
                 Len(Find!Candidates) >= 1 /\ Find!Candidates[1] = preferred
<1> DEFINE first == IF preferred \in Private THEN {preferred} ELSE {}
           near == IF preferred \in Private THEN Find!Network(preferred)
                   ELSE IF fallback \in Private THEN Find!Network(fallback) ELSE {}
           local == UNION {Find!Network(h) \ {h} : h \in own \cap Private}
           a == Find!SetToSeq(first)
           b == Find!SetToSeq(near \ first)
           c == Find!SetToSeq(local \ (first \cup near))
<1>1. Find!Candidates = a \o b \o c
  BY Zenon DEF Find!Candidates
<1>2. first \subseteq Hosts /\ near \subseteq Hosts /\ local \subseteq Hosts
  BY FindFacts DEF Find!Network
<1>3. \A S \in SUBSET Hosts : IsFiniteSet(S)
  BY FindFacts, FS_Subset
<1>4. a \in Seq(first) /\ b \in Seq(near \ first) /\ c \in Seq(local \ (first \cup near))
  <2>1. IsFiniteSet(first) /\ IsFiniteSet(near \ first) /\ IsFiniteSet(local \ (first \cup near))
    BY <1>2, <1>3
  <2> QED BY <2>1, SeqOfSet
<1>5. preferred \in Private => a \in Seq({preferred}) /\ Len(a) = 1
  BY SeqOfOne
<1> HIDE DEF first, near, local, a, b, c
<1>6. a \in Seq(Hosts) /\ b \in Seq(Hosts) /\ c \in Seq(Hosts)
  BY <1>2, <1>4
<1>7. a \o b \o c \in Seq(Hosts)
  BY <1>6
<1>8. preferred \in Private => Len(a \o b \o c) >= 1 /\ (a \o b \o c)[1] = preferred
  BY SMTT(40), <1>5, <1>6
<1> QED BY <1>1, <1>7, <1>8


\* The scan starts at the first candidate.
LEMMA FindInvInit == Find!DiscoveryInit => FindInv
<1> SUFFICES ASSUME Find!DiscoveryInit PROVE FindInv
  OBVIOUS
<1>1. own \subseteq Hosts /\ preferred \in Hosts \cup {Find!NoHost}
  BY DEF Find!DiscoveryInit
<1>2. Len(Find!Candidates) \in Nat
  BY <1>1, CandidatesType
<1> QED BY <1>1, <1>2 DEF Find!DiscoveryInit, FindInv, Find!NoHost

\* A candidate keeps its place: the site, the seed and the interfaces are read
\* once.
LEMMA CandidatesStay ==
    ASSUME UNCHANGED Find!Setup PROVE Find!Candidates' = Find!Candidates
BY DEF Find!Setup, Find!Candidates, Find!Network

\* A worker takes the candidate at the cursor, and a probe leaves its
\* candidate failed or found.
LEMMA FindInvStep == FindInv /\ Find!DiscoveryNext => FindInv'
<1> SUFFICES ASSUME FindInv, Find!DiscoveryNext PROVE FindInv'
  OBVIOUS
<1>s. UNCHANGED Find!Setup
  BY DEF Find!DiscoveryNext, Find!UdpEnds, Find!ScanEnds, Find!AppLeaves, Find!Report,
         Find!UdpAnswered, Find!Probe, Find!ProbeEnds
<1>c. /\ Find!Candidates' = Find!Candidates
      /\ UNCHANGED <<controllers, preferred, fallback, own>>
  BY <1>s, CandidatesStay DEF Find!Setup
<1>t. /\ Find!Candidates \in Seq(Hosts) /\ Len(Find!Candidates) \in Nat
      /\ \A k \in 1..Len(Find!Candidates) : Find!Candidates[k] \in Hosts
  <2>1. Find!Candidates \in Seq(Hosts)
    BY CandidatesType DEF FindInv
  <2> QED BY <2>1
<1>1. CASE Find!UdpEnds
  BY <1>1, <1>c DEF FindInv, Find!UdpEnds
<1>2. CASE Find!ScanEnds
  BY <1>2, <1>c, <1>t DEF FindInv, Find!ScanEnds
<1>3. CASE Find!AppLeaves
  BY <1>3, <1>c DEF FindInv, Find!AppLeaves
<1>4. CASE Find!Report
  BY <1>4, <1>c DEF FindInv, Find!Report
<1>5. ASSUME NEW h \in Hosts, Find!UdpAnswered(h) PROVE FindInv'
  BY <1>5, <1>c, FindFacts DEF FindInv, Find!UdpAnswered
<1>6. ASSUME NEW n \in Find!Probes, Find!Probe(n) PROVE FindInv'
  <2>1. /\ cursor \in 1..Len(Find!Candidates) /\ cursor' = cursor + 1
        /\ probes[n] = Find!NoHost /\ found = Find!NoHost /\ phase = "scan"
        /\ UNCHANGED <<phase, failed, found, app>>
    BY <1>6, <1>t DEF FindInv, Find!Probe
  <2>2. /\ probes' \in [Find!Probes -> Hosts \cup {Find!NoHost}]
        /\ probes'[n] = Find!Candidates[cursor]
        /\ \A m \in Find!Probes \ {n} : probes'[m] = probes[m]
    BY <1>6, <1>t, <2>1 DEF FindInv, Find!Probe
  <2>3. ASSUME NEW k \in 1..(cursor' - 1)
        PROVE  \/ Find!Candidates[k] \in failed
               \/ \E m \in Find!Probes : probes'[m] = Find!Candidates[k]
    <3>1. CASE k = cursor
      BY <3>1, <2>2
    <3>2. CASE k # cursor
      <4>1. k \in 1..(cursor - 1) /\ Find!Candidates[k] # Find!NoHost
        BY <3>2, <2>1, <1>t, FindFacts
      <4>2. \/ Find!Candidates[k] \in failed
            \/ \E m \in Find!Probes : probes[m] = Find!Candidates[k]
        BY <4>1, <2>1 DEF FindInv
      <4> QED BY <4>1, <4>2, <2>1, <2>2
    <3> QED BY <3>1, <3>2
  <2> QED BY <1>c, <1>t, <2>1, <2>2, <2>3 DEF FindInv
<1>7. ASSUME NEW n \in Find!Probes, Find!ProbeEnds(n) PROVE FindInv'
  <2>1. /\ probes[n] \in Hosts /\ phase = "scan"
        /\ found' = IF probes[n] \in controllers THEN probes[n] ELSE found
        /\ failed' = IF probes[n] \in controllers THEN failed ELSE failed \cup {probes[n]}
        /\ UNCHANGED <<phase, cursor, app>>
    BY <1>7 DEF FindInv, Find!ProbeEnds
  <2>2. /\ probes' \in [Find!Probes -> Hosts \cup {Find!NoHost}]
        /\ \A m \in Find!Probes \ {n} : probes'[m] = probes[m]
    BY <1>7 DEF FindInv, Find!ProbeEnds
  <2>3. found' = Find!NoHost => found = Find!NoHost /\ probes[n] \in failed'
    BY <2>1, FindFacts
  <2>4. failed \subseteq failed' /\ failed' \cap controllers = {}
    BY <2>1 DEF FindInv
  <2>5. ASSUME NEW k \in 1..(cursor - 1), found' = Find!NoHost
        PROVE  \/ Find!Candidates[k] \in failed'
               \/ \E m \in Find!Probes : probes'[m] = Find!Candidates[k]
    <3>1. \/ Find!Candidates[k] \in failed
          \/ \E m \in Find!Probes : probes[m] = Find!Candidates[k]
      BY <2>1, <2>3, <2>5 DEF FindInv
    <3> QED BY <3>1, <2>2, <2>3, <2>4, <2>5
  <2> QED BY <1>c, <2>1, <2>2, <2>3, <2>4, <2>5, FindFacts DEF FindInv
<1> QED BY <1>1, <1>2, <1>3, <1>4, <1>5, <1>6, <1>7 DEF Find!DiscoveryNext

\* FindInv gives what the browser is told.
LEMMA FindInvKeeps == FindInv => Find!OffersWhatAnswered
<1> SUFFICES ASSUME FindInv PROVE Find!OffersWhatAnswered
  OBVIOUS
<1>t. /\ Find!Candidates \in Seq(Hosts) /\ Len(Find!Candidates) \in Nat
      /\ DOMAIN Find!Candidates = 1..Len(Find!Candidates)
      /\ \A k \in 1..Len(Find!Candidates) : Find!Candidates[k] \in Hosts
  <2>1. Find!Candidates \in Seq(Hosts)
    BY CandidatesType DEF FindInv
  <2> QED BY <2>1
<1>1. app = "offered" => found \in controllers
  BY DEF FindInv
<1>2. ASSUME app = "refused", NEW k \in 1..Len(Find!Candidates)
      PROVE  Find!Candidates[k] \in failed
  <2>1. phase = "done" /\ found = Find!NoHost /\ cursor - 1 = Len(Find!Candidates)
        /\ \A n \in Find!Probes : probes[n] = Find!NoHost
    BY <1>2, <1>t DEF FindInv
  <2>2. \/ Find!Candidates[k] \in failed
        \/ \E n \in Find!Probes : probes[n] = Find!Candidates[k]
    BY <2>1 DEF FindInv
  <2> QED BY <2>1, <2>2, <1>t, FindFacts
<1>3. ASSUME app = "refused", preferred \in Private PROVE preferred \notin controllers
  <2>1. Len(Find!Candidates) >= 1 /\ Find!Candidates[1] = preferred
    BY <1>3, CandidatesType DEF FindInv
  <2>2. Find!Candidates[1] \in failed
    BY <2>1, <1>2, <1>3, <1>t
  <2> QED BY <2>1, <2>2 DEF FindInv
<1> QED BY <1>t, <1>1, <1>2, <1>3 DEF Find!OffersWhatAnswered

-----------------------------------------------------------------------------
(* EditorLink *)

\* The page starts without a socket, a recovery and an open dialog.
LEMMA LinkInvInit == LinkInit => LinkInv
BY LinkAssumption
   DEF LinkInit, LinkInv, LinkTyped, OneSocket, PillNeedsSocket, RecoveryAtHome, OwnReadBack,
       OneDialog, OneOutstanding, Settings, Recoveries, NoRecovery, Phases, Timers, Socks

\* Of a record of UserProfileRecovery: each operation keeps the type, and none
\* but Started and Syncs moves a recovery that was not on.
LEMMA RecoveryTyped ==
    ASSUME NEW r \in Recoveries(Settings)
    PROVE  /\ BecomesReady(r) \in Recoveries(Settings)
           /\ Syncs(r) \in Recoveries(Settings)
           /\ Established(r) \in Recoveries(Settings)
           /\ Fails(r) \in Recoveries(Settings)
           /\ \A state : Compared(r, state) \in Recoveries(Settings)
BY DEF Recoveries, BecomesReady, Syncs, Established, Fails, Compared, Phases, Timers

\* What the operations do to the phase and the home of a recovery.
LEMMA RecoveryMoves ==
    ASSUME NEW r \in Recoveries(Settings)
    PROVE  /\ r.phase # "syncing" =>
                 Established(r) = r /\ Fails(r) = r /\ \A state : Compared(r, state) = r
           /\ BecomesReady(r).phase = "ready" /\ BecomesReady(r).home = r.home
           /\ Syncs(r).phase = "syncing" /\ Syncs(r).home = r.home
           /\ Established(r).phase = r.phase /\ Established(r).home = r.home
           /\ Fails(r).phase = (IF r.phase = "syncing" THEN "failed" ELSE r.phase)
           /\ Fails(r).home = r.home
           /\ \A state :
                /\ Compared(r, state).home = r.home
                /\ Compared(r, state).phase \in {r.phase, "failed", "success"}
                /\ Compared(r, state).phase # "syncing"
                /\ Compared(r, state).phase # r.phase => r.phase = "syncing"
                /\ Compared(r, state).phase = "success" /\ r.phase # "success" =>
                      r.phase = "syncing" /\ state \in {"match", "different"}
BY DEF Recoveries, BecomesReady, Syncs, Established, Fails, Compared, Phases, Timers

\* A recovery begins by waiting, and is dropped whole.
LEMMA RecoveryStarts ==
    ASSUME NEW site \in Settings
    PROVE  /\ Started(site) \in Recoveries(Settings)
           /\ Started(site).phase = "waiting" /\ Started(site).home = site
           /\ NoRecovery(site) \in Recoveries(Settings)
           /\ NoRecovery(site).phase = "none" /\ NoRecovery(site).timers = {}
BY DEF Recoveries, Started, NoRecovery, Phases, Timers

DialogTypes == {"userProfiles", "sync"}

\* Nothing new of a type is with the bridge or under way.
NothingNew(type) ==
    \A s \in Socks :
        /\ \A r \in asked'[s] : r.type = type => r \in asked[s]
        /\ inbox'[s] = inbox[s] \/ inbox'[s] = <<>>
        /\ asked'[s] # {} \/ inbox'[s] # <<>> => (ready[s] = "open" => ready'[s] = "open")

\* Requests and messages that only go, or are lost with their socket, leave at
\* most one outstanding.
LEMMA OutstandingStays ==
    ASSUME NEW dialog, NEW type, OneOutstanding(dialog, type), NothingNew(type),
           dialogs[dialog] = "running" => dialogs'[dialog] = "running"
    PROVE  OneOutstanding(dialog, type)'
<1> SUFFICES ASSUME NEW s \in Socks
             PROVE  /\ \A r \in asked'[s] :
                          r.type = type => dialogs'[dialog] = "running" /\ ready'[s] = "open"
                    /\ \A n \in 1..Len(inbox'[s]) :
                          inbox'[s][n].type \in Answers(type)
                            => dialogs'[dialog] = "running" /\ ready'[s] = "open"
                    /\ \A r, q \in asked'[s] : r.type = type /\ q.type = type => r = q
                    /\ \A r \in asked'[s] : r.type = type =>
                          \A n \in 1..Len(inbox'[s]) : inbox'[s][n].type \notin Answers(type)
                    /\ \A m, n \in 1..Len(inbox'[s]) :
                          inbox'[s][m].type \in Answers(type) /\ inbox'[s][n].type \in Answers(type)
                            => m = n
  BY DEF OneOutstanding
<1>1. Len(<<>>) = 0
  OBVIOUS
<1>2. CASE inbox'[s] = inbox[s]
  BY <1>1, <1>2 DEF OneOutstanding, NothingNew
<1>3. CASE inbox'[s] = <<>>
  BY <1>1, <1>3 DEF OneOutstanding, NothingNew
<1> QED BY <1>2, <1>3 DEF NothingNew

\* Nothing is outstanding while no dialog is open, and no recovery is on.
LEMMA Quiet ==
    ASSUME LinkInv, NoDialog
    PROVE  /\ recovery.phase = "none"
           /\ \A s \in Socks :
                 /\ \A r \in asked[s] : r.type \notin DialogTypes
                 /\ \A type \in DialogTypes : \A n \in 1..Len(inbox[s]) :
                       inbox[s][n].type \notin Answers(type)
BY DEF LinkInv, NoDialog, RecoveryAtHome, OneOutstanding, DialogTypes

\* The pill, the settings, the recovery and the dialogs change.
LEMMA PageStep ==
    ASSUME LinkInv, UNCHANGED <<socket, ready, dialled, asked, inbox>>,
           settings' \in Settings, image' \in Images,
           recovery' \in Recoveries(Settings),
           dialogs' \in [users : {"closed", "running", "recovering", "result"},
                         transfer : {"closed", "running", "result"}],
           connection' = connection \/ connection' \in {"offline", "error"},
           RecoveryAtHome', OneDialog',
           recovery'.phase = "syncing" => recovery.phase = "syncing",
           dialogs.users = "running" => dialogs'.users = "running",
           dialogs.transfer = "running" => dialogs'.transfer = "running"
    PROVE  LinkInv'
<1>1. LinkTyped' /\ OneSocket' /\ PillNeedsSocket' /\ OwnReadBack'
  BY DEF LinkInv, LinkTyped, OneSocket, PillNeedsSocket, Open, OwnReadBack
<1>2. NothingNew("userProfiles") /\ NothingNew("sync")
  BY DEF NothingNew
<1>3. OneOutstanding("users", "userProfiles")' /\ OneOutstanding("transfer", "sync")'
  BY <1>2, OutstandingStays DEF LinkInv
<1> QED BY <1>1, <1>3 DEF LinkInv

\* An edit is none of the connection's business.
LEMMA EditKeeps == LinkInv /\ EditSite => LinkInv'
<1> SUFFICES ASSUME LinkInv, EditSite PROVE LinkInv'
  OBVIOUS
<1>1. LinkTyped /\ RecoveryAtHome /\ OneDialog
  BY DEF LinkInv
<1> QED BY <1>1, PageStep DEF EditSite, LinkTyped, pageVars, RecoveryAtHome, OneDialog

\* Closing a result or stopping a recovery, which goes with its dialog.
LEMMA CloseKeeps == LinkInv /\ CloseDialog => LinkInv'
<1> SUFFICES ASSUME LinkInv, CloseDialog PROVE LinkInv'
  OBVIOUS
<1>1. LinkTyped /\ RecoveryAtHome /\ OneDialog
  BY DEF LinkInv
<1>2. /\ NoRecovery(NoSettings) \in Recoveries(Settings)
      /\ NoRecovery(NoSettings).phase = "none" /\ NoRecovery(NoSettings).timers = {}
  BY RecoveryStarts DEF Settings
<1>3. /\ recovery' \in Recoveries(Settings)
      /\ \/ recovery' = recovery /\ (dialogs.users = "recovering" => dialogs'.users = "recovering")
         \/ recovery'.phase = "none" /\ recovery'.timers = {}
  BY <1>1, <1>2 DEF CloseDialog, LinkTyped, OneDialog
<1>4. /\ dialogs' \in [users : {"closed", "running", "recovering", "result"},
                       transfer : {"closed", "running", "result"}]
      /\ dialogs.users = "running" => dialogs'.users = "running"
      /\ dialogs.transfer = "running" => dialogs'.transfer = "running"
      /\ OneDialog'
  BY <1>1 DEF CloseDialog, LinkTyped, OneDialog
<1>5. UNCHANGED <<settings, image, socket, ready, dialled, asked, inbox, connection>>
  BY DEF CloseDialog
<1>6. RecoveryAtHome' /\ (recovery'.phase = "syncing" => recovery.phase = "syncing")
  BY <1>1, <1>3, <1>5 DEF RecoveryAtHome
<1>7. settings' \in Settings /\ image' \in Images
  BY <1>1, <1>5 DEF LinkTyped
<1> QED BY <1>3, <1>4, <1>5, <1>6, <1>7, PageStep

\* The countdown belongs to a recovery that is on.
LEMMA CountdownKeeps == LinkInv /\ CountdownEnds => LinkInv'
<1> SUFFICES ASSUME LinkInv, CountdownEnds PROVE LinkInv'
  OBVIOUS
<1>1. LinkTyped /\ RecoveryAtHome /\ OneDialog
  BY DEF LinkInv
<1>2. /\ recovery' \in Recoveries(Settings) /\ recovery'.phase = "ready"
      /\ recovery'.home = recovery.home
  BY <1>1, RecoveryTyped, RecoveryMoves DEF CountdownEnds, LinkTyped
<1>3. UNCHANGED <<settings, image, socket, ready, dialled, asked, inbox, connection, dialogs>>
  BY DEF CountdownEnds
<1>4. dialogs.users = "recovering" /\ recovery.home = dialled /\ dialled # NoSettings
  BY <1>1 DEF CountdownEnds, RecoveryAtHome
<1>5. RecoveryAtHome' /\ OneDialog'
  BY <1>1, <1>2, <1>3, <1>4 DEF RecoveryAtHome, OneDialog
<1> QED BY <1>1, <1>2, <1>3, <1>5, PageStep DEF LinkTyped

\* A failed recovery stays in its dialog.
LEMMA TimeOutKeeps == LinkInv /\ SyncTimesOut => LinkInv'
<1> SUFFICES ASSUME LinkInv, SyncTimesOut PROVE LinkInv'
  OBVIOUS
<1>1. LinkTyped /\ RecoveryAtHome /\ OneDialog
  BY DEF LinkInv
<1>2. /\ recovery' \in Recoveries(Settings) /\ recovery'.home = recovery.home
      /\ recovery'.phase = (IF recovery.phase = "syncing" THEN "failed" ELSE recovery.phase)
  BY <1>1, RecoveryTyped, RecoveryMoves DEF SyncTimesOut, LinkTyped
<1>3. UNCHANGED <<settings, image, socket, ready, dialled, asked, inbox, connection, dialogs>>
  BY DEF SyncTimesOut
<1>4. dialogs.users = "recovering" /\ recovery.home = dialled /\ dialled # NoSettings
  <2>1. recovery.timers # {}
    BY DEF SyncTimesOut
  <2> QED BY <1>1, <2>1 DEF RecoveryAtHome
<1>5. RecoveryAtHome' /\ OneDialog'
  BY <1>1, <1>2, <1>3, <1>4 DEF RecoveryAtHome, OneDialog
<1> QED BY <1>1, <1>2, <1>3, <1>5, PageStep DEF LinkTyped

\* Dialling: the new socket is fresh, and the old one, if it is up, closes.
LEMMA DialStep ==
    ASSUME LinkInv, NEW with \in SiteSettings, Dial(with),
           UNCHANGED <<settings, image, asked, inbox, dialogs>>,
           recovery' \in Recoveries(Settings), RecoveryAtHome',
           dialogs.users # "running" /\ dialogs.transfer # "running"
    PROVE  LinkInv' /\ socket' # socket /\ dialled' = with
<1>1. PICK k \in Socks :
          /\ ready[k] = "none" /\ socket' = k
          /\ ready' = [Closed(ready, socket) EXCEPT ![k] = "connecting"]
  BY DEF Dial
<1>2. LinkTyped /\ OneSocket /\ OneDialog /\ OneOutstanding("users", "userProfiles")
      /\ OneOutstanding("transfer", "sync") /\ OwnReadBack
  BY DEF LinkInv
<1>3. dialled' = with /\ connection' = "connecting"
  BY DEF Dial
<1>4. /\ Closed(ready, socket)
            \in [Socks -> {"none", "connecting", "open", "closing", "failing", "closed"}]
      /\ \A s \in Socks :
            /\ Closed(ready, socket)[s] \notin {"open", "connecting"}
            /\ Closed(ready, socket)[s] = "none" => ready[s] = "none"
  BY <1>2 DEF Closed, LinkTyped, OneSocket, Socks
<1>5. /\ ready' \in [Socks -> {"none", "connecting", "open", "closing", "failing", "closed"}]
      /\ ready'[k] = "connecting"
      /\ \A s \in Socks \ {k} :
            /\ ready'[s] \notin {"open", "connecting"}
            /\ ready'[s] = "none" => ready[s] = "none"
  BY <1>1, <1>4
<1>6. LinkTyped'
  BY <1>1, <1>2, <1>3, <1>5 DEF LinkTyped, Settings, Socks
<1>7. OneSocket'
  BY <1>1, <1>2, <1>3, <1>5, LinkAssumption DEF OneSocket
<1>8. socket' # socket
  BY <1>1, <1>2, LinkAssumption DEF Socks, OneSocket, LinkTyped
<1>9. PillNeedsSocket' /\ OneDialog'
  BY <1>2, <1>3 DEF PillNeedsSocket, OneDialog
<1>10. OwnReadBack'
  <2>1. asked'[socket'] = {} /\ inbox'[socket'] = <<>> /\ socket' # 0 /\ Len(<<>>) = 0
    BY <1>1, <1>2 DEF OneSocket, Socks
  <2> QED BY <2>1 DEF OwnReadBack
<1>11. /\ \A r \in UNION {asked[s] : s \in Socks} : r.type \notin DialogTypes
       /\ \A s \in Socks, type \in DialogTypes : \A n \in 1..Len(inbox[s]) :
             inbox[s][n].type \notin Answers(type)
  BY <1>2 DEF OneOutstanding, DialogTypes
<1>12. OneOutstanding("users", "userProfiles")' /\ OneOutstanding("transfer", "sync")'
  BY <1>11 DEF OneOutstanding, DialogTypes
<1> QED BY <1>3, <1>6, <1>7, <1>8, <1>9, <1>10, <1>12 DEF LinkInv

\* Connect is pressed while no dialog is open: no recovery is on.
LEMMA ConnectKeeps == LinkInv /\ PressConnect => LinkInv'
<1> SUFFICES ASSUME LinkInv, PressConnect PROVE LinkInv'
  OBVIOUS
<1>1. LinkTyped /\ RecoveryAtHome /\ OneDialog /\ OneSocket
  BY DEF LinkInv
<1>2. NoDialog /\ UNCHANGED <<settings, image, asked, inbox, recovery, dialogs>>
  BY DEF PressConnect
<1>3. dialogs.users # "running" /\ dialogs.transfer # "running" /\ dialogs.users # "recovering"
  BY <1>2 DEF NoDialog
<1>4. recovery.phase = "none" /\ recovery.timers = {}
  BY <1>1, <1>3 DEF RecoveryAtHome
<1>5. RecoveryAtHome' /\ OneDialog'
  BY <1>1, <1>2, <1>4 DEF RecoveryAtHome, OneDialog
<1>6. PICK auto \in BOOLEAN : Connect(settings, auto)
  BY DEF PressConnect
<1>7. CASE settings = NoSettings
  <2>1. UNCHANGED <<socket, ready, dialled>> /\ (connection' = connection \/ connection' \in {"offline", "error"})
    BY <1>6, <1>7 DEF Connect, Refuse
  <2> QED BY <2>1, <1>1, <1>2, <1>3, <1>4, <1>5, PageStep DEF LinkTyped
<1>8. CASE settings # NoSettings
  <2>1. settings \in SiteSettings /\ Dial(settings)
    BY <1>1, <1>6, <1>8 DEF Connect, LinkTyped, Settings
  <2> QED BY <2>1, <1>1, <1>2, <1>3, <1>5, DialStep DEF LinkTyped
<1> QED BY <1>7, <1>8

\* Reconnect & Sync dials, and dials where the profiles went.
LEMMA ReconnectDials ==
    ASSUME LinkInv, ReconnectAndSync
    PROVE  LinkInv' /\ socket' # socket /\ dialled' = dialled
<1>1. LinkTyped /\ RecoveryAtHome /\ OneDialog /\ OneSocket
  BY DEF LinkInv
<1>2. /\ dialogs.users = "recovering" /\ CanSync(recovery) /\ recovery' = Syncs(recovery)
      /\ Connect(recovery.home, TRUE)
      /\ UNCHANGED <<settings, image, asked, inbox, dialogs>>
  BY DEF ReconnectAndSync
<1>3. recovery.home = dialled /\ dialled # NoSettings
  BY <1>1, <1>2 DEF RecoveryAtHome, CanSync
<1>4. dialled \in SiteSettings /\ Dial(dialled)
  BY <1>1, <1>2, <1>3 DEF Connect, LinkTyped, Settings
<1>5. /\ recovery' \in Recoveries(Settings) /\ recovery'.phase = "syncing"
      /\ recovery'.home = recovery.home
  BY <1>1, <1>2, RecoveryTyped, RecoveryMoves DEF LinkTyped
<1>6. dialled' = dialled
  BY <1>4 DEF Dial
<1>7. RecoveryAtHome'
  BY <1>2, <1>3, <1>5, <1>6 DEF RecoveryAtHome
<1>8. dialogs.users # "running" /\ dialogs.transfer # "running"
  BY <1>1, <1>2 DEF OneDialog, LinkTyped
<1> QED BY <1>2, <1>4, <1>5, <1>7, <1>8, DialStep

\* Another site closes the socket in use.
LEMMA SelectKeeps == LinkInv /\ SelectSite => LinkInv'
<1> SUFFICES ASSUME LinkInv, SelectSite PROVE LinkInv'
  OBVIOUS
<1>1. LinkTyped /\ RecoveryAtHome /\ OneDialog /\ OneSocket
  BY DEF LinkInv
<1>2. /\ NoDialog /\ UNCHANGED <<socket, dialled, asked, inbox, recovery, dialogs>>
      /\ settings' \in Settings /\ image' \in Images /\ connection' = "offline"
      /\ ready' = Closed(ready, socket)
  BY DEF SelectSite
<1>3. recovery.phase = "none" /\ recovery.timers = {}
  BY <1>1, <1>2 DEF RecoveryAtHome, NoDialog
<1>4. /\ ready' \in [Socks -> {"none", "connecting", "open", "closing", "failing", "closed"}]
      /\ \A s \in Socks :
            /\ ready'[s] \in {"open", "connecting"} => FALSE
            /\ ready'[s] = "none" => ready[s] = "none"
  BY <1>1, <1>2 DEF Closed, LinkTyped, OneSocket, Socks
<1>5. LinkTyped' /\ RecoveryAtHome' /\ OneDialog' /\ PillNeedsSocket' /\ OwnReadBack'
  BY <1>1, <1>2, <1>3, <1>4 DEF LinkTyped, RecoveryAtHome, OneDialog, PillNeedsSocket, OwnReadBack
<1>6. OneSocket'
  BY <1>1, <1>2, <1>4, LinkAssumption DEF OneSocket, LinkTyped, Socks
<1>7. OneOutstanding("users", "userProfiles")' /\ OneOutstanding("transfer", "sync")'
  BY <1>2, Quiet DEF OneOutstanding, DialogTypes
<1> QED BY <1>5, <1>6, <1>7 DEF LinkInv

\* Events of the WebSockets.
LEMMA OpensKeeps == ASSUME LinkInv, NEW s \in Socks, SocketOpens(s) PROVE LinkInv'
<1>1. LinkTyped /\ OneSocket /\ RecoveryAtHome /\ OwnReadBack /\ OneDialog
  BY DEF LinkInv
<1> DEFINE new == Request("connect", NoImage, "operator")
<1>2. new \in Requests /\ new.type = "connect"
  BY DEF Request, Requests
<1> HIDE DEF new
<1>3. /\ ready[s] = "connecting" /\ ready' = [ready EXCEPT ![s] = "open"]
      /\ connection' = "bridge" /\ asked' = [asked EXCEPT ![s] = @ \cup {new}]
      /\ UNCHANGED <<settings, image, socket, dialled, inbox, recovery, dialogs>>
  BY DEF SocketOpens, new
<1>4. s = socket
  BY <1>1, <1>3 DEF OneSocket
<1>5. LinkTyped'
  BY <1>1, <1>2, <1>3 DEF LinkTyped
<1>6. OneSocket' /\ PillNeedsSocket'
  BY <1>1, <1>3, <1>4 DEF OneSocket, PillNeedsSocket, Open, LinkTyped, Socks
<1>7. RecoveryAtHome' /\ OwnReadBack' /\ OneDialog'
  BY <1>1, <1>2, <1>3, <1>4 DEF RecoveryAtHome, OwnReadBack, OneDialog, LinkTyped
<1>8. NothingNew("userProfiles") /\ NothingNew("sync")
  BY <1>1, <1>2, <1>3 DEF NothingNew, LinkTyped
<1>9. OneOutstanding("users", "userProfiles")' /\ OneOutstanding("transfer", "sync")'
  BY <1>3, <1>8, OutstandingStays DEF LinkInv
<1> QED BY <1>5, <1>6, <1>7, <1>9 DEF LinkInv

\* A socket that closes takes its requests and messages with it.
LEMMA ClosesKeeps == ASSUME LinkInv, NEW s \in Socks, SocketCloses(s) PROVE LinkInv'
<1>1. LinkTyped /\ OneSocket /\ RecoveryAtHome /\ OwnReadBack /\ OneDialog
  BY DEF LinkInv
<1>2. /\ ready[s] # "none" /\ ready' = [ready EXCEPT ![s] = "closed"]
      /\ asked' = [asked EXCEPT ![s] = {}] /\ inbox' = [inbox EXCEPT ![s] = <<>>]
      /\ connection' \in {"error", "offline"}
      /\ UNCHANGED <<settings, image, socket, dialled, recovery, dialogs>>
  BY DEF SocketCloses
<1>3. LinkTyped'
  BY <1>1, <1>2 DEF LinkTyped
<1>4. OneSocket' /\ PillNeedsSocket'
  BY <1>1, <1>2 DEF OneSocket, PillNeedsSocket, LinkTyped, Socks
<1>5. OwnReadBack'
  <2>1. CASE s = socket
    <3>1. asked'[s] = {} /\ inbox'[s] = <<>> /\ Len(<<>>) = 0
      BY <1>1, <1>2 DEF LinkTyped
    <3> QED BY <2>1, <3>1, <1>1, <1>2 DEF OwnReadBack
  <2>2. CASE s # socket
    BY <2>2, <1>1, <1>2 DEF OwnReadBack, LinkTyped
  <2> QED BY <2>1, <2>2
<1>6. RecoveryAtHome' /\ OneDialog'
  BY <1>1, <1>2 DEF RecoveryAtHome, OneDialog
<1>8. NothingNew("userProfiles") /\ NothingNew("sync")
  BY <1>1, <1>2 DEF NothingNew, LinkTyped
<1>9. OneOutstanding("users", "userProfiles")' /\ OneOutstanding("transfer", "sync")'
  BY <1>2, <1>8, OutstandingStays DEF LinkInv
<1> QED BY <1>3, <1>4, <1>5, <1>6, <1>9 DEF LinkInv

\* A dropped Compare is no dialog's request.
LEMMA DropKeeps == ASSUME LinkInv, NEW s \in Socks, BridgeDropsVerify(s) PROVE LinkInv'
<1>1. LinkTyped /\ OneSocket /\ RecoveryAtHome /\ OwnReadBack /\ OneDialog
  BY DEF LinkInv
<1>2. PICK r \in asked[s] : asked' = [asked EXCEPT ![s] = @ \ {r}]
  BY DEF BridgeDropsVerify
<1>3. UNCHANGED <<settings, image, socket, ready, dialled, inbox, connection, recovery, dialogs>>
  BY DEF BridgeDropsVerify, pageVars
<1>4. LinkTyped' /\ \A t \in Socks : asked'[t] \subseteq asked[t]
  BY <1>1, <1>2, <1>3 DEF LinkTyped
<1>5. OneSocket' /\ PillNeedsSocket' /\ RecoveryAtHome' /\ OneDialog'
  BY <1>1, <1>3, <1>4
     DEF LinkInv, OneSocket, PillNeedsSocket, Open, RecoveryAtHome, OneDialog
<1>6. OwnReadBack'
  BY <1>1, <1>3, <1>4 DEF OwnReadBack, LinkTyped, Socks
<1>8. NothingNew("userProfiles") /\ NothingNew("sync")
  BY <1>3, <1>4 DEF NothingNew
<1>9. OneOutstanding("users", "userProfiles")' /\ OneOutstanding("transfer", "sync")'
  BY <1>3, <1>8, OutstandingStays DEF LinkInv
<1> QED BY <1>4, <1>5, <1>6, <1>9 DEF LinkInv

\* A message that is put into an inbox; whose request, if it had one, is gone.
LEMMA OutstandingAppend ==
    ASSUME NEW dialog, NEW type, OneOutstanding(dialog, type), LinkTyped,
           NEW s \in Socks, NEW m \in Messages,
           inbox' = [inbox EXCEPT ![s] = Append(@, m)],
           UNCHANGED <<ready, dialogs>>,
           \A t \in Socks : asked'[t] \subseteq asked[t],
           m.type \in Answers(type) =>
              \E r \in asked[s] : r.type = type /\ r \notin asked'[s]
    PROVE  OneOutstanding(dialog, type)'
<1>1. /\ inbox[s] \in Seq(Messages) /\ Len(inbox[s]) \in Nat
      /\ inbox'[s] = Append(inbox[s], m)
      /\ \A t \in Socks \ {s} : inbox'[t] = inbox[t]
  BY DEF LinkTyped
<1>2. /\ Len(inbox'[s]) = Len(inbox[s]) + 1 /\ inbox'[s][Len(inbox[s]) + 1] = m
      /\ \A n \in 1..Len(inbox[s]) : inbox'[s][n] = inbox[s][n]
  BY <1>1
<1>3. \A n \in 1..Len(inbox'[s]) :
          \/ n \in 1..Len(inbox[s]) /\ inbox'[s][n] = inbox[s][n]
          \/ n = Len(inbox[s]) + 1 /\ inbox'[s][n] = m
  BY <1>1, <1>2
<1>4. m.type \in Answers(type) =>
          /\ dialogs[dialog] = "running" /\ ready[s] = "open"
          /\ \A r \in asked'[s] : r.type # type
          /\ \A n \in 1..Len(inbox[s]) : inbox[s][n].type \notin Answers(type)
  BY DEF OneOutstanding
<1> HIDE DEF Messages
<1>5. ASSUME NEW t \in Socks, t # s
      PROVE  /\ \A r \in asked'[t] :
                  r.type = type => dialogs'[dialog] = "running" /\ ready'[t] = "open"
             /\ \A n \in 1..Len(inbox'[t]) :
                   inbox'[t][n].type \in Answers(type)
                     => dialogs'[dialog] = "running" /\ ready'[t] = "open"
             /\ \A r, q \in asked'[t] : r.type = type /\ q.type = type => r = q
             /\ \A r \in asked'[t] : r.type = type =>
                   \A n \in 1..Len(inbox'[t]) : inbox'[t][n].type \notin Answers(type)
             /\ \A k, n \in 1..Len(inbox'[t]) :
                   inbox'[t][k].type \in Answers(type) /\ inbox'[t][n].type \in Answers(type)
                     => k = n
  <2>1. inbox'[t] = inbox[t] /\ asked'[t] \subseteq asked[t]
    BY <1>1, <1>5
  <2> QED BY <2>1 DEF OneOutstanding
<1>6. /\ \A r \in asked'[s] :
            r.type = type => dialogs'[dialog] = "running" /\ ready'[s] = "open"
      /\ \A r, q \in asked'[s] : r.type = type /\ q.type = type => r = q
  BY DEF OneOutstanding
<1>7. \A n \in 1..Len(inbox'[s]) :
          inbox'[s][n].type \in Answers(type)
            => dialogs'[dialog] = "running" /\ ready'[s] = "open"
  BY <1>3, <1>4 DEF OneOutstanding
<1>8. \A r \in asked'[s] : r.type = type =>
          \A n \in 1..Len(inbox'[s]) : inbox'[s][n].type \notin Answers(type)
  BY <1>3, <1>4 DEF OneOutstanding
<1>9. \A k, n \in 1..Len(inbox'[s]) :
          inbox'[s][k].type \in Answers(type) /\ inbox'[s][n].type \in Answers(type)
            => k = n
  BY <1>3, <1>4 DEF OneOutstanding
<1> QED BY <1>5, <1>6, <1>7, <1>8, <1>9 DEF OneOutstanding

\* The bridge puts m into the inbox of an open socket.
LEMMA AppendStep ==
    ASSUME LinkInv, NEW s \in Socks, NEW m \in Messages, ready[s] = "open",
           inbox' = [inbox EXCEPT ![s] = Append(@, m)],
           UNCHANGED <<settings, image, socket, ready, dialled, connection, recovery, dialogs>>,
           asked' \in [Socks -> SUBSET Requests],
           \A t \in Socks : asked'[t] \subseteq asked[t],
           \A type \in DialogTypes : m.type \in Answers(type) =>
              \E r \in asked[s] : r.type = type /\ r \notin asked'[s],
           m.type \in Answers("verify") =>
              \E r \in asked[s] : r.type = "verify" /\ r.by = m.by
    PROVE  LinkInv'
<1>1. LinkTyped /\ OneSocket /\ RecoveryAtHome /\ OwnReadBack /\ OneDialog
  BY DEF LinkInv
<1> HIDE DEF Messages
<1>2. LinkTyped'
  <2>1. inbox' \in [Socks -> Seq(Messages)]
    BY <1>1 DEF LinkTyped
  <2> QED BY <2>1, <1>1 DEF LinkTyped
<1>3. s = socket
  BY <1>1 DEF OneSocket
<1>4. OneSocket' /\ PillNeedsSocket' /\ RecoveryAtHome' /\ OneDialog'
  BY <1>1, <1>3 DEF LinkInv, OneSocket, PillNeedsSocket, Open, RecoveryAtHome, OneDialog, LinkTyped
<1>5. OwnReadBack'
  <2> SUFFICES ASSUME recovery.phase = "syncing" PROVE OwnReadBack'
    BY DEF OwnReadBack
  <2>1. inbox[s] \in Seq(Messages) /\ inbox'[s] = Append(inbox[s], m) /\ Len(inbox[s]) \in Nat
    BY <1>1 DEF LinkTyped
  <2>2. \A n \in 1..Len(inbox'[s]) :
            \/ inbox'[s][n] = m
            \/ n \in 1..Len(inbox[s]) /\ inbox'[s][n] = inbox[s][n]
    <3>1. /\ Len(inbox'[s]) = Len(inbox[s]) + 1 /\ inbox'[s][Len(inbox[s]) + 1] = m
          /\ \A n \in 1..Len(inbox[s]) : inbox'[s][n] = inbox[s][n]
      BY <2>1
    <3>2. Len(inbox[s]) \in Nat
      BY <2>1
    <3>3. \A n \in 1..(Len(inbox[s]) + 1) : n \in 1..Len(inbox[s]) \/ n = Len(inbox[s]) + 1
      BY <3>2
    <3> QED BY <3>1, <3>3
  <2>3. m.type \in Answers("verify") => m.by = "recovery"
    BY <1>1, <1>3 DEF OwnReadBack
  <2>4. \A n \in 1..Len(inbox'[s]) :
            inbox'[s][n].type \in Answers("verify") => inbox'[s][n].by = "recovery"
    BY <2>2, <2>3, <1>1, <1>3 DEF OwnReadBack
  <2> QED BY <2>4, <1>1, <1>3 DEF OwnReadBack
<1>6. OneOutstanding("users", "userProfiles")' /\ OneOutstanding("transfer", "sync")'
  BY <1>1, OutstandingAppend DEF LinkInv, DialogTypes
<1> QED BY <1>2, <1>4, <1>5, <1>6 DEF LinkInv

\* The bridge's answer takes the place of the request.
LEMMA AnswersKeep ==
    ASSUME LinkInv, NEW s \in Socks,
           NEW type \in {"connect", "verify", "userProfiles", "dryRun", "sync"},
           BridgeAnswers(s, type)
    PROVE  LinkInv'
<1>1. PICK r \in asked[s], a \in Answers(type) :
          /\ r.type = type /\ inbox' = [inbox EXCEPT ![s] = Append(@, Message(a, r))]
          /\ asked' = [asked EXCEPT ![s] = @ \ {r}]
  BY DEF BridgeAnswers
<1>2. /\ ready[s] = "open"
      /\ UNCHANGED <<settings, image, socket, ready, dialled, connection, recovery, dialogs>>
  BY DEF BridgeAnswers, pageVars
<1>3. r \in Requests /\ asked' \in [Socks -> SUBSET Requests]
      /\ (\A t \in Socks : asked'[t] \subseteq asked[t]) /\ r \notin asked'[s]
  BY <1>1 DEF LinkInv, LinkTyped
<1>4. Message(a, r).type = a /\ Message(a, r).by = r.by /\ Message(a, r) \in Messages
  BY <1>1, <1>3 DEF Message, Messages, Requests
<1>5. \A t \in {"verify", "userProfiles", "sync"} : a \in Answers(t) => t = type
  BY DEF Answers
<1> DEFINE m == Message(a, r)
<1>6. \A t \in DialogTypes : m.type \in Answers(t) =>
          \E q \in asked[s] : q.type = t /\ q \notin asked'[s]
  BY <1>1, <1>3, <1>4, <1>5 DEF DialogTypes
<1>7. m.type \in Answers("verify") => \E q \in asked[s] : q.type = "verify" /\ q.by = m.by
  BY <1>1, <1>4, <1>5
<1>8. inbox' = [inbox EXCEPT ![s] = Append(@, m)] /\ m \in Messages
  BY <1>1, <1>4
<1> HIDE DEF m
<1> QED BY <1>2, <1>3, <1>6, <1>7, <1>8, AppendStep

\* A status answers no dialog and no Compare.
LEMMA ReportsKeep ==
    ASSUME LinkInv, NEW s \in Socks, BridgeReports(s) PROVE LinkInv'
<1>1. PICK a \in Reports :
          inbox' = [inbox EXCEPT ![s] = Append(@, Message(a, Request(a, NoImage, "operator")))]
  BY DEF BridgeReports
<1>2. /\ ready[s] = "open"
      /\ UNCHANGED <<settings, image, socket, ready, dialled, asked, connection, recovery, dialogs>>
  BY DEF BridgeReports, pageVars
<1> DEFINE m == Message(a, Request(a, NoImage, "operator"))
<1>3. m.type = a /\ m \in Messages
  BY DEF Message, Messages, Request, Statuses
<1>4. \A t \in {"verify", "userProfiles", "sync"} : a \notin Answers(t)
  BY DEF Answers, Reports
<1>5. asked' \in [Socks -> SUBSET Requests] /\ \A t \in Socks : asked'[t] \subseteq asked[t]
  BY <1>2 DEF LinkInv, LinkTyped
<1>6. inbox' = [inbox EXCEPT ![s] = Append(@, m)]
  BY <1>1
<1> HIDE DEF m
<1> QED BY <1>2, <1>3, <1>4, <1>5, <1>6, AppendStep DEF DialogTypes

\* The page sends a request no dialog waits for.
LEMMA SendStep ==
    ASSUME LinkInv, NEW request \in Requests, Send(request), NoDialog,
           UNCHANGED <<settings, image, socket, ready, dialled, inbox, connection, recovery>>,
           \/ request.type \notin DialogTypes /\ UNCHANGED dialogs
           \/ request.type = "userProfiles" /\ dialogs' = [dialogs EXCEPT !.users = "running"]
           \/ request.type = "sync" /\ dialogs' = [dialogs EXCEPT !.transfer = "running"]
    PROVE  LinkInv'
<1>1. LinkTyped /\ OneSocket /\ RecoveryAtHome /\ OwnReadBack /\ OneDialog
  BY DEF LinkInv
<1>2. /\ recovery.phase = "none" /\ recovery.timers = {}
      /\ \A s \in Socks :
            /\ \A r \in asked[s] : r.type \notin DialogTypes
            /\ \A type \in DialogTypes : \A n \in 1..Len(inbox[s]) :
                  inbox[s][n].type \notin Answers(type)
  BY <1>1, Quiet DEF RecoveryAtHome, NoDialog
<1>3. /\ asked' \in [Socks -> SUBSET Requests]
      /\ \A s \in Socks :
            \/ asked'[s] = asked[s]
            \/ asked'[s] = asked[s] \cup {request} /\ ready[s] = "open"
  BY <1>1, LinkAssumption DEF Send, Open, LinkTyped, Socks
<1>4. /\ dialogs' \in [users : {"closed", "running", "recovering", "result"},
                       transfer : {"closed", "running", "result"}]
      /\ OneDialog'
      /\ request.type = "userProfiles" => dialogs'.users = "running"
      /\ request.type = "sync" => dialogs'.transfer = "running"
  BY <1>1 DEF NoDialog, OneDialog, LinkTyped, DialogTypes
<1>5. LinkTyped' /\ PillNeedsSocket' /\ RecoveryAtHome' /\ OwnReadBack'
  BY <1>1, <1>2, <1>3, <1>4
     DEF LinkInv, LinkTyped, PillNeedsSocket, Open, RecoveryAtHome, OwnReadBack
<1>6. OneSocket'
  BY <1>1, <1>3 DEF OneSocket
<1>7. OneOutstanding("users", "userProfiles")'
  BY <1>2, <1>3, <1>4 DEF OneOutstanding, DialogTypes
<1>8. OneOutstanding("transfer", "sync")'
  BY <1>2, <1>3, <1>4 DEF OneOutstanding, DialogTypes
<1> QED BY <1>4, <1>5, <1>6, <1>7, <1>8 DEF LinkInv

\* The operator compares while no recovery is on.
LEMMA CompareKeeps == LinkInv /\ Compare => LinkInv'
<1> SUFFICES ASSUME LinkInv, Compare PROVE LinkInv'
  OBVIOUS
<1> DEFINE request == Request("verify", image, "operator")
<1>1. request \in Requests /\ request.type = "verify"
  BY DEF Request, Requests, LinkInv, LinkTyped
<1>2. Send(request) /\ NoDialog
      /\ UNCHANGED <<settings, image, socket, ready, dialled, inbox, connection, recovery, dialogs>>
  BY DEF Compare, pageVars
<1> HIDE DEF request
<1> QED BY <1>1, <1>2, SendStep DEF DialogTypes

\* A dry run opens no dialog.
LEMMA DryRunKeeps == LinkInv /\ DryRun => LinkInv'
<1> SUFFICES ASSUME LinkInv, DryRun PROVE LinkInv'
  OBVIOUS
<1> DEFINE request == Request("dryRun", image, "operator")
<1>1. request \in Requests /\ request.type = "dryRun"
  BY DEF Request, Requests, LinkInv, LinkTyped
<1>2. Send(request) /\ NoDialog
      /\ UNCHANGED <<settings, image, socket, ready, dialled, inbox, connection, recovery, dialogs>>
  BY DEF DryRun, pageVars
<1> HIDE DEF request
<1> QED BY <1>1, <1>2, SendStep DEF DialogTypes

\* The request of the user-profile dialog is the first of its type.
LEMMA UsersKeep == LinkInv /\ BeginUserProfileSend => LinkInv'
<1> SUFFICES ASSUME LinkInv, BeginUserProfileSend PROVE LinkInv'
  OBVIOUS
<1> DEFINE request == Request("userProfiles", NoImage, "operator")
<1>1. request \in Requests /\ request.type = "userProfiles"
  BY DEF Request, Requests
<1>2. Send(request) /\ NoDialog /\ dialogs' = [dialogs EXCEPT !.users = "running"]
      /\ UNCHANGED <<settings, image, socket, ready, dialled, inbox, connection, recovery>>
  BY DEF BeginUserProfileSend
<1> HIDE DEF request
<1> QED BY <1>1, <1>2, SendStep

\* The request of the transfer dialog is the first of its type.
LEMMA TransferKeeps == LinkInv /\ BeginLiveTransfer => LinkInv'
<1> SUFFICES ASSUME LinkInv, BeginLiveTransfer PROVE LinkInv'
  OBVIOUS
<1> DEFINE request == Request("sync", image, "operator")
<1>1. request \in Requests /\ request.type = "sync"
  BY DEF Request, Requests, LinkInv, LinkTyped
<1>2. Send(request) /\ NoDialog /\ dialogs' = [dialogs EXCEPT !.transfer = "running"]
      /\ UNCHANGED <<settings, image, socket, ready, dialled, inbox, connection, recovery>>
  BY DEF BeginLiveTransfer
<1> HIDE DEF request
<1> QED BY <1>1, <1>2, SendStep

\* The message at the head of an inbox is taken; if it is the answer a dialog
\* waits for, nothing of that type is left.
LEMMA OutstandingTail ==
    ASSUME NEW dialog, NEW type, OneOutstanding(dialog, type), LinkTyped, OneSocket,
           NEW s \in Socks, ready[s] = "open", inbox[s] # <<>>,
           inbox' = [inbox EXCEPT ![s] = Tail(@)], UNCHANGED ready,
           \A t \in Socks : \A r \in asked'[t] : r.type = type => r \in asked[t],
           \/ dialogs[dialog] = "running" => dialogs'[dialog] = "running"
           \/ Head(inbox[s]).type \in Answers(type)
    PROVE  /\ OneOutstanding(dialog, type)'
           /\ Head(inbox[s]).type \in Answers(type) => dialogs[dialog] = "running"
<1>1. /\ inbox[s] \in Seq(Messages) /\ Len(inbox[s]) \in Nat \ {0}
      /\ inbox'[s] = Tail(inbox[s])
      /\ \A t \in Socks \ {s} : inbox'[t] = inbox[t]
  BY DEF LinkTyped
<1> HIDE DEF Messages
<1>2. /\ Len(inbox'[s]) = Len(inbox[s]) - 1 /\ Head(inbox[s]) = inbox[s][1]
      /\ \A n \in 1..Len(inbox'[s]) :
            inbox'[s][n] = inbox[s][n + 1] /\ n + 1 \in 1..Len(inbox[s]) /\ n + 1 # 1
  <2> DEFINE q == inbox[s]
  <2>1. q \in Seq(Messages) /\ q # <<>>
    BY <1>1
  <2> HIDE DEF q
  <2>2. Len(q) \in Nat \ {0} /\ Len(Tail(q)) = Len(q) - 1 /\ Head(q) = q[1]
    BY <2>1
  <2>3. \A n \in 1..Len(Tail(q)) : Tail(q)[n] = q[n + 1]
    BY <2>1
  <2>4. \A n \in 1..Len(Tail(q)) : n + 1 \in 1..Len(q) /\ n + 1 # 1
    BY <2>2
  <2>5. inbox'[s] = Tail(q)
    BY <1>1 DEF q
  <2> QED BY <2>2, <2>3, <2>4, <2>5 DEF q
<1>3. 1 \in 1..Len(inbox[s])
  BY <1>1
<1>4. CASE Head(inbox[s]).type \in Answers(type)
  <2>1. /\ dialogs[dialog] = "running"
        /\ \A r \in asked[s] : r.type # type
        /\ \A n \in 1..Len(inbox[s]) : n # 1 => inbox[s][n].type \notin Answers(type)
    BY <1>2, <1>3, <1>4 DEF OneOutstanding
  <2>2. \A t \in Socks : ready[t] = "open" => t = s
    BY DEF OneSocket
  <2>3. \A t \in Socks : /\ \A r \in asked'[t] : r.type # type
                         /\ \A n \in 1..Len(inbox'[t]) : inbox'[t][n].type \notin Answers(type)
    <3> SUFFICES ASSUME NEW t \in Socks
                 PROVE  /\ \A r \in asked'[t] : r.type # type
                        /\ \A n \in 1..Len(inbox'[t]) : inbox'[t][n].type \notin Answers(type)
      OBVIOUS
    <3>1. CASE t = s
      BY <3>1, <2>1, <1>2
    <3>2. CASE t # s
      <4>1. ready[t] # "open" /\ inbox'[t] = inbox[t]
        BY <3>2, <2>2, <1>1
      <4> QED BY <4>1 DEF OneOutstanding
    <3> QED BY <3>1, <3>2
  <2> QED BY <2>1, <2>3 DEF OneOutstanding
<1>5. CASE Head(inbox[s]).type \notin Answers(type)
  <2>1. ASSUME NEW t \in Socks
        PROVE  /\ \A r \in asked'[t] :
                    r.type = type => dialogs'[dialog] = "running" /\ ready'[t] = "open"
               /\ \A n \in 1..Len(inbox'[t]) :
                     inbox'[t][n].type \in Answers(type)
                       => dialogs'[dialog] = "running" /\ ready'[t] = "open"
               /\ \A r, q \in asked'[t] : r.type = type /\ q.type = type => r = q
               /\ \A r \in asked'[t] : r.type = type =>
                     \A n \in 1..Len(inbox'[t]) : inbox'[t][n].type \notin Answers(type)
               /\ \A k, n \in 1..Len(inbox'[t]) :
                     inbox'[t][k].type \in Answers(type) /\ inbox'[t][n].type \in Answers(type)
                       => k = n
    <3>1. CASE t = s
      <4>1. \A r \in asked'[s] :
                r.type = type => dialogs'[dialog] = "running" /\ ready'[s] = "open"
        BY <1>5 DEF OneOutstanding
      <4>2. \A n \in 1..Len(inbox'[s]) :
                inbox'[s][n].type \in Answers(type)
                  => dialogs'[dialog] = "running" /\ ready'[s] = "open"
        BY <1>2, <1>5 DEF OneOutstanding
      <4>3. \A r, q \in asked'[s] : r.type = type /\ q.type = type => r = q
        BY DEF OneOutstanding
      <4>4. \A r \in asked'[s] : r.type = type =>
                \A n \in 1..Len(inbox'[s]) : inbox'[s][n].type \notin Answers(type)
        BY <1>2 DEF OneOutstanding
      <4>5. \A k, n \in 1..Len(inbox'[s]) :
                inbox'[s][k].type \in Answers(type) /\ inbox'[s][n].type \in Answers(type)
                  => k = n
        <5> SUFFICES ASSUME NEW k \in 1..Len(inbox'[s]), NEW n \in 1..Len(inbox'[s]),
                            inbox'[s][k].type \in Answers(type),
                            inbox'[s][n].type \in Answers(type)
                     PROVE  k = n
          OBVIOUS
        <5>1. k + 1 = n + 1
          BY <1>2 DEF OneOutstanding
        <5> QED BY <5>1, <1>1, <1>2
      <4> QED BY <3>1, <4>1, <4>2, <4>3, <4>4, <4>5
    <3>2. CASE t # s
      <4>1. inbox'[t] = inbox[t]
        BY <3>2, <1>1
      <4> QED BY <4>1, <1>5 DEF OneOutstanding
    <3> QED BY <3>1, <3>2
  <2> QED BY <1>5, <2>1 DEF OneOutstanding
<1> QED BY <1>4, <1>5

\* The page takes a message from the socket in use.
LEMMA DeliverStep ==
    ASSUME LinkInv, NEW s \in Socks, ready[s] = "open", inbox[s] # <<>>,
           inbox' = [inbox EXCEPT ![s] = Tail(@)],
           UNCHANGED <<settings, image, socket, ready, dialled>>,
           asked' \in [Socks -> SUBSET Requests],
           \A t \in Socks : \/ asked'[t] = asked[t]
                            \/ /\ t = socket
                               /\ asked'[t] = asked[t] \cup {Request("verify", image, "recovery")},
           recovery' \in Recoveries(Settings),
           recovery'.phase = "syncing" => recovery.phase = "syncing",
           dialogs' \in [users : {"closed", "running", "recovering", "result"},
                         transfer : {"closed", "running", "result"}],
           OneDialog', RecoveryAtHome',
           \/ dialogs.users = "running" => dialogs'.users = "running"
           \/ Head(inbox[s]).type \in Answers("userProfiles"),
           \/ dialogs.transfer = "running" => dialogs'.transfer = "running"
           \/ Head(inbox[s]).type \in Answers("sync")
    PROVE  LinkInv'
<1>1. LinkTyped /\ OneSocket /\ RecoveryAtHome /\ OwnReadBack /\ OneDialog
  BY DEF LinkInv
<1>2. s = socket
  BY <1>1 DEF OneSocket
<1> HIDE DEF Messages
<1>3. LinkTyped'
  <2>1. Tail(inbox[s]) \in Seq(Messages)
    BY <1>1 DEF LinkTyped
  <2>2. inbox' \in [Socks -> Seq(Messages)]
    BY <1>1, <2>1 DEF LinkTyped
  <2> QED BY <1>1, <2>2 DEF LinkTyped
<1>4. OneSocket' /\ PillNeedsSocket'
  BY <1>1, <1>2 DEF OneSocket, PillNeedsSocket, Open, LinkTyped, Socks
<1>5. OwnReadBack'
  <2> SUFFICES ASSUME recovery.phase = "syncing" PROVE OwnReadBack'
    BY DEF OwnReadBack
  <2>1. inbox[s] \in Seq(Messages) /\ inbox'[s] = Tail(inbox[s])
    BY <1>1 DEF LinkTyped
  <2>2. \A n \in 1..Len(inbox'[s]) :
            n + 1 \in 1..Len(inbox[s]) /\ inbox'[s][n] = inbox[s][n + 1]
    <3> DEFINE q == inbox[s]
    <3>1. q \in Seq(Messages) /\ q # <<>> /\ inbox'[s] = Tail(q)
      BY <2>1
    <3> HIDE DEF q
    <3>2. Len(q) \in Nat \ {0} /\ Len(Tail(q)) = Len(q) - 1
      BY <3>1
    <3>3. \A n \in 1..Len(Tail(q)) : Tail(q)[n] = q[n + 1]
      BY <3>1
    <3>4. \A n \in 1..Len(Tail(q)) : n + 1 \in 1..Len(q)
      BY <3>2
    <3> QED BY <3>1, <3>3, <3>4 DEF q
  <2>3. \A n \in 1..Len(inbox'[s]) :
            inbox'[s][n].type \in Answers("verify") => inbox'[s][n].by = "recovery"
    BY SMTT(40), <2>2, <1>1, <1>2 DEF OwnReadBack
  <2>4. \A r \in asked'[s] : r.type = "verify" => r.by = "recovery"
    BY <1>1, <1>2 DEF OwnReadBack, Request
  <2> QED BY <2>3, <2>4, <1>1, <1>2 DEF OwnReadBack
<1>6. \A t \in Socks : \A r \in asked'[t] : r.type \in DialogTypes => r \in asked[t]
  BY DEF Request, DialogTypes
<1>7. OneOutstanding("users", "userProfiles")'
  BY <1>1, <1>6, OutstandingTail DEF LinkInv, DialogTypes
<1>8. OneOutstanding("transfer", "sync")'
  BY <1>1, <1>6, OutstandingTail DEF LinkInv, DialogTypes
<1> QED BY <1>3, <1>4, <1>5, <1>7, <1>8 DEF LinkInv

\* Every message leaves a recovery in its dialog and a running dialog its
\* answer.
LEMMA DeliverKeeps == ASSUME LinkInv, NEW s \in Socks, Deliver(s) PROVE LinkInv'
<1> DEFINE m == Head(inbox[s])
<1>1. LinkTyped /\ OneSocket /\ RecoveryAtHome /\ OwnReadBack /\ OneDialog
  BY DEF LinkInv
<1>2. /\ ready[s] = "open" /\ inbox[s] # <<>> /\ inbox' = [inbox EXCEPT ![s] = Tail(@)]
      /\ UNCHANGED <<settings, image, socket, ready, dialled>>
      /\ \/ Status(m) \/ VerifyResult(m) \/ UserProfileResult(m)
         \/ TransferPreflight(m) \/ TransferResult(m)
  BY DEF Deliver
<1>3. s = socket /\ dialled # NoSettings /\ dialled \in Settings /\ recovery \in Recoveries(Settings)
  BY <1>1, <1>2 DEF OneSocket, LinkTyped, Socks
<1> HIDE DEF m
<1>4. UNCHANGED asked => asked' \in [Socks -> SUBSET Requests] /\ \A t \in Socks : asked'[t] = asked[t]
  BY <1>1 DEF LinkTyped
<1>5. UNCHANGED dialogs =>
          /\ dialogs' \in [users : {"closed", "running", "recovering", "result"},
                           transfer : {"closed", "running", "result"}]
          /\ OneDialog'
  BY <1>1 DEF LinkTyped, OneDialog
<1>6. /\ Established(recovery) \in Recoveries(Settings)
      /\ Established(recovery).phase = recovery.phase
      /\ Established(recovery).home = recovery.home
      /\ Fails(recovery) \in Recoveries(Settings)
      /\ Fails(recovery).phase \in {recovery.phase, "failed"}
      /\ Fails(recovery).home = recovery.home
      /\ recovery.phase = "none" =>
            Established(recovery) = recovery /\ Fails(recovery) = recovery
  BY <1>3, RecoveryTyped, RecoveryMoves
<1>6a. ASSUME NEW state
       PROVE  /\ Compared(recovery, state) \in Recoveries(Settings)
              /\ Compared(recovery, state).phase # "syncing"
              /\ Compared(recovery, state).home = recovery.home
              /\ recovery.phase = "none" => Compared(recovery, state) = recovery
  <2>1. /\ Compared(recovery, state) \in Recoveries(Settings)
        /\ Compared(recovery, state).home = recovery.home
    BY <1>3 DEF Recoveries, Compared, Fails, Phases, Timers
  <2>2. Compared(recovery, state).phase # "syncing"
    BY <1>3 DEF Recoveries, Compared, Fails
  <2>3. recovery.phase = "none" => Compared(recovery, state) = recovery
    BY <1>3 DEF Recoveries, Compared, Fails
  <2> QED BY <2>1, <2>2, <2>3
<1>7. CASE Status(m)
  <2>1. /\ recovery' \in {recovery, Established(recovery), Fails(recovery)}
        /\ UNCHANGED dialogs
        /\ UNCHANGED asked \/ Send(Request("verify", image, "recovery"))
    BY <1>7 DEF Status
  <2>2. /\ recovery' \in Recoveries(Settings)
        /\ recovery'.phase = "syncing" => recovery.phase = "syncing"
        /\ recovery'.home = recovery.home
        /\ recovery.phase = "none" => recovery' = recovery
    <3>1. CASE recovery' = recovery
      BY <3>1, <1>3
    <3>2. CASE recovery' = Established(recovery)
      BY <3>2, <1>6
    <3>3. CASE recovery' = Fails(recovery)
      BY <3>3, <1>6
    <3> QED BY <2>1, <3>1, <3>2, <3>3
  <2>3. RecoveryAtHome'
    BY <1>1, <1>2, <2>1, <2>2 DEF RecoveryAtHome
  <2>4. Request("verify", image, "recovery") \in Requests
    BY <1>1 DEF Request, Requests, LinkTyped
  <2>5. /\ asked' \in [Socks -> SUBSET Requests]
        /\ \A t \in Socks :
              \/ asked'[t] = asked[t]
              \/ t = socket /\ asked'[t] = asked[t] \cup {Request("verify", image, "recovery")}
    <3> DEFINE request == Request("verify", image, "recovery")
    <3>1. CASE UNCHANGED asked
      BY <3>1, <1>4
    <3>2. CASE Send(request)
      <4>1. CASE Open
        <5>1. asked' = [asked EXCEPT ![socket] = @ \cup {request}]
          BY <3>2, <4>1 DEF Send
        <5>2. request \in Requests
          BY <2>4
        <5> HIDE DEF request
        <5>3. /\ asked' \in [Socks -> SUBSET Requests]
              /\ \A t \in Socks :
                    asked'[t] = IF t = socket THEN asked[t] \cup {request} ELSE asked[t]
          BY <5>1, <5>2, <1>1 DEF LinkTyped
        <5> QED BY <5>3 DEF request
      <4>2. CASE ~Open
        BY <3>2, <4>2, <1>4 DEF Send
      <4> QED BY <4>1, <4>2
    <3> QED BY <2>1, <3>1, <3>2
  <2> QED BY <1>2, <1>5, <2>1, <2>2, <2>3, <2>5, DeliverStep
<1>8. CASE VerifyResult(m)
  <2>1. recovery' = Compared(recovery, m.type) /\ UNCHANGED <<dialogs, asked>>
    BY <1>8 DEF VerifyResult
  <2>2. /\ recovery' \in Recoveries(Settings) /\ recovery'.phase # "syncing"
        /\ recovery'.home = recovery.home
        /\ recovery.phase = "none" => recovery' = recovery
    BY <2>1, <1>6a
  <2>3. RecoveryAtHome'
    BY <1>1, <1>2, <2>1, <2>2 DEF RecoveryAtHome
  <2> QED BY <1>2, <1>4, <1>5, <2>1, <2>2, <2>3, DeliverStep
<1>9. CASE UserProfileResult(m)
  <2>1. m.type \in Answers("userProfiles") /\ UNCHANGED asked
        /\ \/ dialogs' = [dialogs EXCEPT !.users = "recovering"] /\ recovery' = Started(dialled)
           \/ dialogs' = [dialogs EXCEPT !.users = "result"] /\ UNCHANGED recovery
    BY <1>9 DEF UserProfileResult
  <2>2. dialogs.users = "running"
    <3>1. \A t \in Socks : \A r \in asked'[t] : r.type = "userProfiles" => r \in asked[t]
      BY <2>1
    <3>2. OneOutstanding("users", "userProfiles") /\ Head(inbox[s]).type \in Answers("userProfiles")
      BY <2>1 DEF LinkInv, m
    <3> QED BY <1>1, <1>2, <3>1, <3>2, OutstandingTail
  <2>3. recovery.phase = "none" /\ recovery.timers = {}
    BY <1>1, <2>2 DEF RecoveryAtHome
  <2>4. /\ dialogs' \in [users : {"closed", "running", "recovering", "result"},
                         transfer : {"closed", "running", "result"}]
        /\ OneDialog' /\ dialogs'.transfer = dialogs.transfer
    BY <1>1, <2>1, <2>2 DEF OneDialog, LinkTyped
  <2>5. /\ recovery' \in Recoveries(Settings) /\ recovery'.phase # "syncing" /\ RecoveryAtHome'
    <3>1. Started(dialled) \in Recoveries(Settings) /\ Started(dialled).phase = "waiting"
          /\ Started(dialled).home = dialled
      BY <1>3, RecoveryStarts
    <3> QED BY <3>1, <1>1, <1>2, <1>3, <2>1, <2>3 DEF RecoveryAtHome, LinkTyped
  <2> QED BY <1>2, <1>4, <2>1, <2>4, <2>5, DeliverStep DEF m
<1>10. CASE TransferPreflight(m)
  <2>1. UNCHANGED <<recovery, dialogs, asked>>
    BY <1>10 DEF TransferPreflight
  <2>3. RecoveryAtHome'
    BY <1>1, <1>2, <2>1 DEF RecoveryAtHome
  <2> QED BY <1>2, <1>3, <1>4, <1>5, <2>1, <2>3, DeliverStep
<1>11. CASE TransferResult(m)
  <2>1. m.type = "transferEnded" /\ UNCHANGED <<recovery, asked>>
        /\ dialogs' = [dialogs EXCEPT !.transfer = "result"]
    BY <1>11 DEF TransferResult
  <2>2. dialogs.transfer = "running" /\ Head(inbox[s]).type \in Answers("sync")
    <3>1. \A t \in Socks : \A r \in asked'[t] : r.type = "sync" => r \in asked[t]
      BY <2>1
    <3>2. OneOutstanding("transfer", "sync") /\ Head(inbox[s]).type \in Answers("sync")
      BY <2>1 DEF LinkInv, m, Answers
    <3> QED BY <1>1, <1>2, <3>1, <3>2, OutstandingTail
  <2>3. /\ dialogs' \in [users : {"closed", "running", "recovering", "result"},
                         transfer : {"closed", "running", "result"}]
        /\ OneDialog' /\ dialogs'.users = dialogs.users
    BY <1>1, <2>1, <2>2 DEF OneDialog, LinkTyped
  <2>4. RecoveryAtHome'
    BY <1>1, <1>2, <2>1, <2>3 DEF RecoveryAtHome
  <2> QED BY <1>2, <1>3, <1>4, <2>1, <2>2, <2>3, <2>4, DeliverStep
<1> QED BY <1>2, <1>7, <1>8, <1>9, <1>10, <1>11

\* Every step of the page and the bridge keeps LinkInv.
LEMMA LinkInvStep == LinkInv /\ LinkNext => LinkInv'
BY ConnectKeeps, SelectKeeps, EditKeeps, CompareKeeps, DryRunKeeps, UsersKeep, TransferKeeps,
   CloseKeeps, ReconnectDials, CountdownKeeps, TimeOutKeeps, OpensKeeps, ClosesKeeps,
   DeliverKeeps, DropKeeps, ReportsKeep, AnswersKeep
   DEF LinkNext

\* Only the answer to a Compare ends the recovery in success, and while it
\* syncs that is its own.
LEMMA SuccessStep == LinkInv /\ LinkNext => SucceedsByItself
<1> SUFFICES ASSUME LinkInv, LinkNext,
                    recovery.phase # "success", recovery'.phase = "success"
             PROVE  Head(inbox[socket]).by = "recovery"
  BY DEF SucceedsByItself
<1>1. LinkTyped /\ OneSocket /\ OwnReadBack
  BY DEF LinkInv
<1>2. recovery \in Recoveries(Settings) /\ dialled \in Settings
  BY <1>1 DEF LinkTyped
<1>3. /\ BecomesReady(recovery).phase # "success" /\ Syncs(recovery).phase # "success"
      /\ Established(recovery).phase # "success" /\ Fails(recovery).phase # "success"
      /\ Started(dialled).phase # "success" /\ NoRecovery(NoSettings).phase # "success"
  BY <1>2 DEF Recoveries, BecomesReady, Syncs, Established, Fails, Started, NoRecovery
<1>4. \A state : recovery' = Compared(recovery, state) =>
          recovery.phase = "syncing" /\ state \in {"match", "different"}
  BY <1>2, <1>3 DEF Compared
<1>5. recovery' # recovery
  OBVIOUS
<1>6. PICK s \in Socks : Deliver(s)
  BY <1>3, <1>5
     DEF LinkNext, PressConnect, SelectSite, EditSite, Compare, DryRun, BeginUserProfileSend,
         BeginLiveTransfer, CloseDialog, ReconnectAndSync, CountdownEnds, SyncTimesOut,
         SocketOpens, SocketCloses, BridgeDropsVerify, BridgeReports, BridgeAnswers, pageVars
<1>7. VerifyResult(Head(inbox[s]))
  BY <1>3, <1>5, <1>6
     DEF Deliver, Status, UserProfileResult, TransferPreflight, TransferResult
<1>8. Head(inbox[s]).type \in Answers("verify") /\ recovery.phase = "syncing"
  BY <1>4, <1>7 DEF VerifyResult
<1>9. s = socket /\ inbox[s] # <<>> /\ inbox[s] \in Seq(Messages)
  BY <1>1, <1>6 DEF Deliver, OneSocket, LinkTyped
<1>10. Head(inbox[s]) = inbox[s][1] /\ 1 \in 1..Len(inbox[s])
  BY <1>9
<1> QED BY <1>1, <1>8, <1>9, <1>10 DEF OwnReadBack

\* Only Reconnect & Sync makes the recovery sync.
LEMMA HomeStep == LinkInv /\ LinkNext => StaysHome
<1> SUFFICES ASSUME LinkInv, LinkNext,
                    recovery.phase # "syncing", recovery'.phase = "syncing"
             PROVE  socket' # socket /\ dialled' = dialled
  BY DEF StaysHome
<1>1. recovery \in Recoveries(Settings)
  BY DEF LinkInv, LinkTyped
<1>2. /\ BecomesReady(recovery).phase # "syncing" /\ Established(recovery).phase # "syncing"
      /\ Fails(recovery).phase # "syncing" /\ Started(dialled).phase # "syncing"
      /\ NoRecovery(NoSettings).phase # "syncing"
      /\ \A state : Compared(recovery, state).phase # "syncing"
  BY <1>1 DEF Recoveries, BecomesReady, Established, Fails, Started, NoRecovery, Compared
<1>3. recovery' # recovery
  OBVIOUS
<1>4. ReconnectAndSync
  BY <1>2, <1>3
     DEF LinkNext, PressConnect, SelectSite, EditSite, Compare, DryRun, BeginUserProfileSend,
         BeginLiveTransfer, CloseDialog, CountdownEnds, SyncTimesOut, SocketOpens, SocketCloses,
         BridgeDropsVerify, BridgeReports, BridgeAnswers, Deliver, Status, VerifyResult,
         UserProfileResult, TransferPreflight, TransferResult, pageVars
<1> QED BY <1>4, ReconnectDials

\* Where a request is, or its answer.
LEMMA OutstandingAt ==
    ASSUME LinkTyped, NEW type
    PROVE  Outstanding(type) <=>
             \E s \in Socks : \/ \E r \in asked[s] : r.type = type
                              \/ \E n \in 1..Len(inbox[s]) : inbox[s][n].type \in Answers(type)
<1>1. \A s \in Socks : DOMAIN inbox[s] = 1..Len(inbox[s])
  BY DEF LinkTyped
<1> QED BY <1>1 DEF Outstanding

\* It stays where it is while the requests and messages of its type do.
LEMMA OutstandingPersists ==
    ASSUME LinkTyped, LinkTyped', NEW type, Outstanding(type),
           \A t \in Socks : inbox'[t] = inbox[t] /\ \A r \in asked[t] : r.type = type => r \in asked'[t]
    PROVE  Outstanding(type)'
<1>1. PICK s \in Socks :
          \/ \E r \in asked[s] : r.type = type
          \/ \E n \in 1..Len(inbox[s]) : inbox[s][n].type \in Answers(type)
  BY OutstandingAt
<1>2. \A t \in Socks : DOMAIN inbox'[t] = 1..Len(inbox'[t])
  BY DEF LinkTyped
<1> QED BY <1>1, <1>2 DEF Outstanding

\* An answer put into an inbox replaces its request.
LEMMA OutstandingAppended ==
    ASSUME LinkTyped, NEW type, Outstanding(type),
           NEW s \in Socks, NEW m \in Messages,
           inbox' = [inbox EXCEPT ![s] = Append(@, m)],
           \A t \in Socks : \A r \in asked[t] : r.type = type =>
              r \in asked'[t] \/ (t = s /\ m.type \in Answers(type))
    PROVE  Outstanding(type)'
<1>1. /\ inbox[s] \in Seq(Messages) /\ inbox'[s] = Append(inbox[s], m)
      /\ \A t \in Socks \ {s} : inbox'[t] = inbox[t]
  BY DEF LinkTyped
<1> HIDE DEF Messages
<1>2. /\ Len(inbox'[s]) = Len(inbox[s]) + 1 /\ inbox'[s][Len(inbox[s]) + 1] = m
      /\ \A n \in 1..Len(inbox[s]) : inbox'[s][n] = inbox[s][n]
  BY <1>1
<1>3. DOMAIN inbox'[s] = 1..Len(inbox'[s])
  BY <1>1
<1>4. Len(inbox[s]) \in Nat
  BY <1>1
<1>5. /\ Len(inbox[s]) + 1 \in DOMAIN inbox'[s]
      /\ \A n \in 1..Len(inbox[s]) : n \in DOMAIN inbox'[s]
  BY <1>2, <1>3, <1>4
<1>6. PICK t \in Socks :
          \/ \E r \in asked[t] : r.type = type
          \/ \E n \in 1..Len(inbox[t]) : inbox[t][n].type \in Answers(type)
  BY OutstandingAt
<1>7. CASE \E r \in asked[t] : r.type = type
  BY <1>2, <1>5, <1>7 DEF Outstanding
<1>8. CASE \E n \in 1..Len(inbox[t]) : inbox[t][n].type \in Answers(type)
  <2>1. CASE t = s
    BY <1>2, <1>5, <1>8, <2>1 DEF Outstanding
  <2>2. CASE t # s
    <3>1. DOMAIN inbox'[t] = 1..Len(inbox[t]) /\ inbox'[t] = inbox[t]
      BY <1>1, <2>2 DEF LinkTyped
    <3> QED BY <1>8, <3>1 DEF Outstanding
  <2> QED BY <2>1, <2>2
<1> QED BY <1>6, <1>7, <1>8

\* Another message that is taken leaves the answer in the inbox.
LEMMA OutstandingTaken ==
    ASSUME LinkTyped, NEW type, Outstanding(type),
           NEW s \in Socks, inbox[s] # <<>>, Head(inbox[s]).type \notin Answers(type),
           inbox' = [inbox EXCEPT ![s] = Tail(@)],
           \A t \in Socks : asked[t] \subseteq asked'[t]
    PROVE  Outstanding(type)'
<1> DEFINE q == inbox[s]
<1>1. /\ q \in Seq(Messages) /\ q # <<>> /\ inbox'[s] = Tail(q)
      /\ \A t \in Socks \ {s} : inbox'[t] = inbox[t]
  BY DEF LinkTyped
<1>2. Head(q).type \notin Answers(type)
  OBVIOUS
<1> HIDE DEF Messages, q
<1>3. Len(q) \in Nat \ {0} /\ Len(Tail(q)) = Len(q) - 1 /\ Head(q) = q[1]
  BY <1>1
<1>4. \A n \in 1..Len(Tail(q)) : Tail(q)[n] = q[n + 1]
  BY <1>1
<1>5. DOMAIN Tail(q) = 1..Len(Tail(q))
  BY <1>1
<1>6. \A n \in 1..Len(q) : n # 1 => n - 1 \in 1..Len(Tail(q)) /\ Tail(q)[n - 1] = q[n]
  BY <1>3, <1>4
<1>7. PICK t \in Socks :
          \/ \E r \in asked[t] : r.type = type
          \/ \E n \in 1..Len(inbox[t]) : inbox[t][n].type \in Answers(type)
  BY OutstandingAt
<1>8. CASE \E r \in asked[t] : r.type = type
  BY <1>8 DEF Outstanding
<1>9. CASE \E n \in 1..Len(inbox[t]) : inbox[t][n].type \in Answers(type)
  <2>1. CASE t = s
    <3>1. PICK n \in 1..Len(q) : q[n].type \in Answers(type)
      BY <1>9, <2>1 DEF q
    <3>2. n - 1 \in DOMAIN inbox'[s] /\ inbox'[s][n - 1].type \in Answers(type)
      BY <1>1, <1>2, <1>3, <1>5, <1>6, <3>1
    <3> QED BY <3>2 DEF Outstanding
  <2>2. CASE t # s
    <3>1. DOMAIN inbox'[t] = 1..Len(inbox[t]) /\ inbox'[t] = inbox[t]
      BY <1>1, <2>2 DEF LinkTyped
    <3> QED BY <1>9, <3>1 DEF Outstanding
  <2> QED BY <2>1, <2>2
<1> QED BY <1>7, <1>8, <1>9

\* The request of a running dialog goes only with its answer or its socket.
LEMMA AnswerStep ==
    ASSUME LinkInv, LinkInv', LinkNext, NEW dialog, NEW type,
           \/ dialog = "users" /\ type = "userProfiles"
           \/ dialog = "transfer" /\ type = "sync"
    PROVE  AnswerReaches(dialog, type)
<1> SUFFICES ASSUME dialogs[dialog] = "running", Outstanding(type), ~Outstanding(type)',
                    dialogs'[dialog] = "running",
                    \A s \in Socks : ready[s] = "open" => ready'[s] = "open"
             PROVE  FALSE
  BY DEF AnswerReaches
<1>0. LinkTyped /\ LinkTyped' /\ OneSocket /\ OneOutstanding(dialog, type)
  BY DEF LinkInv
<1>1. ASSUME UNCHANGED <<asked, inbox>> PROVE FALSE
  BY <1>0, <1>1, OutstandingPersists
<1>2. ASSUME NEW request, Send(request), UNCHANGED inbox PROVE FALSE
  <2>1. \A t \in Socks : asked[t] \subseteq asked'[t]
    BY <1>0, <1>2 DEF Send, LinkTyped
  <2> QED BY <1>0, <1>2, <2>1, OutstandingPersists
<1>3. ASSUME NEW s \in Socks, SocketOpens(s) PROVE FALSE
  <2>1. UNCHANGED inbox /\ \A t \in Socks : asked[t] \subseteq asked'[t]
    BY <1>0, <1>3 DEF SocketOpens, LinkTyped
  <2> QED BY <1>0, <2>1, OutstandingPersists
<1>4. ASSUME NEW s \in Socks, SocketCloses(s) PROVE FALSE
  <2>1. /\ ready'[s] = "closed"
        /\ \A t \in Socks \ {s} : asked'[t] = asked[t] /\ inbox'[t] = inbox[t]
    BY <1>0, <1>4 DEF SocketCloses, LinkTyped
  <2>2. ready[s] # "open"
    BY <2>1
  <2>3. PICK t \in Socks :
            \/ \E r \in asked[t] : r.type = type
            \/ \E n \in 1..Len(inbox[t]) : inbox[t][n].type \in Answers(type)
    BY <1>0, OutstandingAt
  <2>4. ready[t] = "open"
    BY <1>0, <2>3 DEF OneOutstanding
  <2>5. DOMAIN inbox'[t] = 1..Len(inbox[t]) /\ inbox'[t] = inbox[t] /\ asked'[t] = asked[t]
    BY <1>0, <2>1, <2>2, <2>4 DEF LinkTyped
  <2> QED BY <2>3, <2>5 DEF Outstanding
<1>5. ASSUME NEW s \in Socks, Deliver(s) PROVE FALSE
  <2> DEFINE m == Head(inbox[s])
  <2>1. /\ inbox[s] # <<>> /\ inbox' = [inbox EXCEPT ![s] = Tail(@)]
        /\ \/ Status(m) \/ VerifyResult(m) \/ UserProfileResult(m)
           \/ TransferPreflight(m) \/ TransferResult(m)
    BY <1>5 DEF Deliver
  <2> HIDE DEF m
  <2>2. UNCHANGED asked \/ \E request : Send(request)
    BY <2>1 DEF Status, VerifyResult, UserProfileResult, TransferPreflight, TransferResult
  <2>3. \A t \in Socks : asked[t] \subseteq asked'[t]
    BY SMTT(40), <1>0, <2>2 DEF Send, LinkTyped
  <2>4. m.type \in Answers(type)
    BY <1>0, <2>1, <2>3, OutstandingTaken DEF m
  <2>5. UserProfileResult(m) \/ TransferResult(m)
    BY <2>1, <2>4 DEF Status, VerifyResult, TransferPreflight, Answers, Statuses, Reports
  <2>6. CASE UserProfileResult(m)
    <3>1. dialog = "users"
      BY <2>4, <2>6 DEF UserProfileResult, Answers
    <3>2. dialogs'.users # "running"
      BY <1>0, <2>6 DEF UserProfileResult, LinkTyped
    <3> QED BY <3>1, <3>2
  <2>7. CASE TransferResult(m)
    <3>1. dialog = "transfer"
      BY <2>4, <2>7 DEF TransferResult, Answers
    <3>2. dialogs'.transfer # "running"
      BY <1>0, <2>7 DEF TransferResult, LinkTyped
    <3> QED BY <3>1, <3>2
  <2> QED BY <2>5, <2>6, <2>7
<1>6. ASSUME NEW s \in Socks, BridgeDropsVerify(s) PROVE FALSE
  <2>1. PICK r \in asked[s] : r.type = "verify" /\ asked' = [asked EXCEPT ![s] = @ \ {r}]
    BY <1>6 DEF BridgeDropsVerify
  <2>2. UNCHANGED inbox /\ \A t \in Socks : \A q \in asked[t] : q.type = type => q \in asked'[t]
    BY <1>0, <1>6, <2>1 DEF BridgeDropsVerify, LinkTyped
  <2> QED BY <1>0, <2>2, OutstandingPersists
<1>7. ASSUME NEW s \in Socks, BridgeReports(s) PROVE FALSE
  <2>1. PICK a \in Reports :
            inbox' = [inbox EXCEPT ![s] = Append(@, Message(a, Request(a, NoImage, "operator")))]
    BY <1>7 DEF BridgeReports
  <2>2. Message(a, Request(a, NoImage, "operator")) \in Messages /\ UNCHANGED asked
    BY <1>7 DEF BridgeReports, Message, Messages, Request, Statuses
  <2> QED BY <1>0, <2>1, <2>2, OutstandingAppended
<1>8. ASSUME NEW s \in Socks, NEW kind \in {"connect", "verify", "userProfiles", "dryRun", "sync"},
             BridgeAnswers(s, kind)
      PROVE  FALSE
  <2>1. PICK r \in asked[s], a \in Answers(kind) :
            /\ r.type = kind /\ inbox' = [inbox EXCEPT ![s] = Append(@, Message(a, r))]
            /\ asked' = [asked EXCEPT ![s] = @ \ {r}]
    BY <1>8 DEF BridgeAnswers
  <2>2. r \in Requests
    BY <1>0, <2>1 DEF LinkTyped
  <2>3. Message(a, r).type = a /\ Message(a, r) \in Messages
    BY <2>1, <2>2 DEF Message, Messages, Requests
  <2>4. \A t \in Socks : \A q \in asked[t] : q.type = type =>
            q \in asked'[t] \/ (t = s /\ Message(a, r).type \in Answers(type))
    BY <1>0, <2>1, <2>3 DEF LinkTyped
  <2> QED BY <1>0, <2>1, <2>3, <2>4, OutstandingAppended
<1> QED BY <1>1, <1>2, <1>3, <1>4, <1>5, <1>6, <1>7, <1>8
    DEF LinkNext, PressConnect, SelectSite, EditSite, Compare, DryRun, BeginUserProfileSend,
        BeginLiveTransfer, CloseDialog, ReconnectAndSync, CountdownEnds, SyncTimesOut, pageVars

-----------------------------------------------------------------------------
(* All parts *)

LinksInv == LinkInv /\ BeatInv /\ FindInv /\ FeedInv

\* Every part starts within its invariant.
LEMMA LinksInvInit == MCInit => LinksInv
BY LinkInvInit, BeatInvInit, FindInvInit, FeedInvInit DEF MCInit, LinksInv

\* A part that does not move keeps its invariant: the page and its socket,
LEMMA LinkUnmoved == LinkInv /\ UNCHANGED linkVars => LinkInv'
BY DEF linkVars, pageVars, LinkInv, LinkTyped, OneSocket, PillNeedsSocket, Open, RecoveryAtHome,
       OwnReadBack, OneDialog, OneOutstanding

\* ... the heartbeat,
LEMMA BeatUnmoved == BeatInv /\ UNCHANGED beatVars => BeatInv'
BY DEF beatVars, BeatInv

\* ... the discovery,
LEMMA FindUnmoved == FindInv /\ UNCHANGED discoveryVars => FindInv'
<1> SUFFICES ASSUME FindInv, UNCHANGED discoveryVars PROVE FindInv'
  OBVIOUS
<1>1. Find!Candidates' = Find!Candidates
  BY CandidatesStay DEF discoveryVars, Find!Setup
<1> QED BY <1>1 DEF discoveryVars, FindInv

\* ... and the feed of levels.
LEMMA FeedUnmoved == FeedInv /\ UNCHANGED feedVars => FeedInv'
BY DEF feedVars, FeedInv, Feed!FeedTypeOK, Feed!PageCatchesUp, Feed!LevelMaps

\* The parts keep their invariants together.
LEMMA LinksInvStep == LinksInv /\ [MCNext]_vars => LinksInv'
<1> SUFFICES ASSUME LinksInv, [MCNext]_vars PROVE LinksInv'
  OBVIOUS
<1>1. (part = "link" /\ LinkNext) \/ UNCHANGED linkVars
  BY DEF MCNext, vars
<1>2. Beat!BeatNext \/ UNCHANGED beatVars
  BY DEF MCNext, vars
<1>3. Find!DiscoveryNext \/ UNCHANGED discoveryVars
  BY DEF MCNext, vars
<1>4. Feed!FeedNext \/ UNCHANGED feedVars
  BY DEF MCNext, vars
<1> QED BY <1>1, <1>2, <1>3, <1>4, LinkInvStep, LinkUnmoved, BeatInvStep, BeatUnmoved,
           FindInvStep, FindUnmoved, FeedInvStep, FeedUnmoved DEF LinksInv

\* Only the current socket of the page is open, and the pill promises a
\* session only over an open one (connect and onclose in app/page.tsx).
THEOREM LinksSocketsFit == MCSpec => []SocketsFit
<1>1. LinksInv => SocketsFit
  BY DEF LinksInv, LinkInv, OneSocket, OnlyCurrentIsOpen, SocketsFit
<1> QED BY <1>1, LinksInvInit, LinksInvStep, PTL DEF MCSpec

\* The heartbeat reaps the silent in time and keeps who answers
\* (bridge/websocket.mjs); Auto Detect offers what answered and refuses after
\* every candidate (bridge/discovery.mjs); the page catches up with every
\* level that did not go with its socket (queueControllerStatus and the close
\* handler in bridge/server.mjs).
THEOREM LinksServiceFits == MCSpec => []ServiceFits
<1>1. LinksInv => ServiceFits
  BY BeatInvKeeps, FindInvKeeps, FeedInvKeeps DEF LinksInv, ServiceFits
<1> QED BY <1>1, LinksInvInit, LinksInvStep, PTL DEF MCSpec

\* The recovery after a user-profile send succeeds only by its own read-back,
\* and dials the controller that got the profiles (user-profile-recovery.ts).
THEOREM LinksRecoveryIsOwn == MCSpec => RecoveryIsOwn
<1>1. LinksInv /\ [MCNext]_vars => [part = "link" => SucceedsByItself /\ StaysHome]_vars
  <2> SUFFICES ASSUME LinksInv, MCNext, part = "link" PROVE SucceedsByItself /\ StaysHome
    OBVIOUS
  <2>1. LinkNext
    BY DEF MCNext
  <2> QED BY <2>1, SuccessStep, HomeStep DEF LinksInv
<1> QED BY <1>1, LinksInvInit, LinksInvStep, PTL DEF MCSpec, RecoveryIsOwn

\* The answer to a dialog's request ends the dialog, or its socket went
\* (userProfileResult and transferResult in app/page.tsx).
THEOREM LinksDialogEndsByAnswer == MCSpec => DialogEndsByAnswer
<1>1. LinksInv /\ LinksInv' /\ [MCNext]_vars => [part = "link" => DialogsAnswered]_vars
  <2> SUFFICES ASSUME LinksInv, LinksInv', MCNext, part = "link" PROVE DialogsAnswered
    OBVIOUS
  <2>1. LinkNext
    BY DEF MCNext
  <2> QED BY <2>1, AnswerStep DEF LinksInv, DialogsAnswered
<1> QED BY <1>1, LinksInvInit, LinksInvStep, PTL DEF MCSpec, DialogEndsByAnswer

=============================================================================
