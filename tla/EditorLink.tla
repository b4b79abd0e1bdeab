------------------------------ MODULE EditorLink ------------------------------
(***************************************************************************)
(* The page's connection to the bridge (app/page.tsx): the WebSocket it    *)
(* replaces on every connect, the status pill, what the messages of the    *)
(* bridge do to the dialogs, and the recovery after a user-profile send.   *)
(*                                                                         *)
(* The bridge is reduced to the answers it may give; ControllerSession and *)
(* Bridge have its side.  A WebSocket the page has closed delivers no more *)
(* messages, but its close event, and its error event when it had not      *)
(* opened, come later, at any time.                                        *)
(***************************************************************************)
EXTENDS UserProfileRecovery, Naturals, Sequences, FiniteSets

CONSTANTS
    SiteSettings,  \* controller settings that connect accepts
    NoSettings,    \* settings it refuses
    Images,        \* checksums of compiled images
    SocketCount,   \* bound of the model: WebSockets opened by the page
    AskedMax,      \* bound of the model: requests open when a check is pressed
    InboxMax       \* bound of the model: messages under way to the page

ASSUME LinkAssumption ==
    /\ NoSettings \notin SiteSettings
    /\ SocketCount \in Nat /\ AskedMax \in Nat /\ InboxMax \in Nat

VARIABLES
    settings,    \* data.site, as far as connect reads it
    image,       \* the checksum of the configuration now edited
    socket,      \* socket.current, 0 for null
    ready,       \* readyState of each WebSocket
    dialled,     \* the settings socket.current was opened with
    asked,       \* requests the bridge has and has not answered
    inbox,       \* messages under way to the page
    connection,  \* the status pill
    recovery,    \* recoveryRef.current
    dialogs,     \* userProfileDialog and transferDialog
    comparison,  \* the image and the socket of the last match, or none
    preflight    \* the image whose dry run passed, or none

pageVars == <<connection, recovery, dialogs, comparison, preflight>>
linkVars == <<settings, image, socket, ready, dialled, asked, inbox, pageVars>>

Socks == 1..SocketCount
Settings == SiteSettings \cup {NoSettings}
NoImage == NoSettings
NoMatch == [image |-> NoImage, over |-> 0]

\* A request names the image it is about; by is who asked for it (history).
Request(type, i, by) == [type |-> type, image |-> i, by |-> by]
Requests == [type : {"connect", "verify", "userProfiles", "dryRun", "sync"},
             image : Images \cup {NoImage}, by : {"operator", "recovery"}]

\* What the bridge may answer.
Answers(type) ==
    CASE type = "connect" -> {"connected", "error"}
      [] type = "verify" -> {"match", "different", "compareError"}
      [] type = "userProfiles" -> {"usersCompleted", "usersFailed"}
      [] type = "dryRun" -> {"dryRunPassed", "dryRunFailed"}
      [] type = "sync" -> {"transferEnded"}

\* What it reports of its own accord.  (The connecting status only says that
\* a connect has begun.)
Reports == {"bridge", "error"}
Statuses == Reports \cup {"connected"}
Messages == [type : Statuses \cup UNION {Answers(r.type) : r \in Requests},
             image : Images \cup {NoImage}, by : {"operator", "recovery"}]
Message(type, r) == [type |-> type, image |-> r.image, by |-> r.by]

EditorTypeOK ==
    /\ settings \in Settings /\ image \in Images
    /\ socket \in 0..SocketCount
    /\ ready \in [Socks -> {"none", "connecting", "open", "closing", "failing", "closed"}]
    /\ dialled \in Settings
    /\ asked \in [Socks -> SUBSET Requests]
    /\ \A s \in Socks : \A n \in DOMAIN inbox[s] : inbox[s][n] \in Messages
    /\ connection \in {"offline", "bridge", "connecting", "connected", "error"}
    /\ recovery \in Recoveries(Settings)
    /\ dialogs \in [users : {"closed", "running", "recovering", "result"},
                    transfer : {"closed", "running", "result"}]
    /\ comparison.over \in 0..SocketCount
    /\ preflight \in Images \cup {NoImage}

LinkInit ==
    /\ settings \in Settings /\ image \in Images
    /\ socket = 0
    /\ ready = [s \in Socks |-> "none"]
    /\ dialled = NoSettings
    /\ asked = [s \in Socks |-> {}]
    /\ inbox = [s \in Socks |-> <<>>]
    /\ connection = "offline"
    /\ recovery = NoRecovery(NoSettings)
    /\ dialogs = [users |-> "closed", transfer |-> "closed"]
    /\ comparison = NoMatch
    /\ preflight = NoImage

Open == socket # 0 /\ ready[socket] = "open"

-----------------------------------------------------------------------------
(* WebSocket.close and send *)

\* close(): an open socket does its closing handshake, one that is still
\* connecting fails.
Closed(rs, s) ==
    CASE s # 0 /\ rs[s] = "open" -> [rs EXCEPT ![s] = "closing"]
      [] s # 0 /\ rs[s] = "connecting" -> [rs EXCEPT ![s] = "failing"]
      [] OTHER -> rs

\* Bound of the model on Compares and dry runs.
FewAsked == Open => Cardinality(asked[socket]) < AskedMax

\* send: dropped, with a trace, unless the socket is open.
Send(request) ==
    asked' = IF Open THEN [asked EXCEPT ![socket] = @ \cup {request}] ELSE asked

-----------------------------------------------------------------------------
(* connect *)

\* Faulty variant: the socket in use is forgotten instead of closed.
DialUnclosed(with) ==
    /\ \E s \in Socks :
          /\ ready[s] = "none" /\ \A t \in 1..(s - 1) : ready[t] # "none"
          /\ socket' = s
          /\ ready' = [ready EXCEPT ![s] = "connecting"]
    /\ dialled' = with
    /\ connection' = "connecting"

\* The socket in use is closed and another one opened.
Dial(with) ==
    /\ \E s \in Socks :
          /\ ready[s] = "none" /\ \A t \in 1..(s - 1) : ready[t] # "none"
          /\ socket' = s
          /\ ready' = [Closed(ready, socket) EXCEPT ![s] = "connecting"]
    /\ dialled' = with
    /\ connection' = "connecting"

\* refuse: an attempt of the page's own leaves the pill at rest.
Refuse(auto) ==
    /\ connection' = IF ~auto THEN "error"
                     ELSE IF connection = "connecting" THEN "offline" ELSE connection
    /\ UNCHANGED <<socket, ready, dialled>>

Connect(with, auto) == IF with = NoSettings THEN Refuse(auto) ELSE Dial(with)

\* An open dialog covers the page.
NoDialog == dialogs.users = "closed" /\ dialogs.transfer = "closed"

\* Connect or Reconnect is pressed, or (auto) the saved site was loaded.
PressConnect ==
    \E auto \in BOOLEAN :
        /\ NoDialog
        /\ auto => socket = 0
        /\ Connect(settings, auto)
        /\ UNCHANGED <<settings, image, asked, inbox, recovery, dialogs, comparison, preflight>>

\* selectSite and deleteSite close the socket as well.
SelectSite ==
    /\ NoDialog
    /\ settings' \in Settings \ {settings}
    /\ image' \in Images
    /\ ready' = Closed(ready, socket)
    /\ connection' = "offline"
    /\ UNCHANGED <<socket, dialled, asked, inbox, recovery, dialogs, comparison, preflight>>

\* updateSite, and any edit of the configuration.
EditSite ==
    /\ NoDialog
    /\ settings' \in Settings
    /\ image' \in Images
    /\ <<settings, image>>' # <<settings, image>>
    /\ UNCHANGED <<socket, ready, dialled, asked, inbox, pageVars>>

-----------------------------------------------------------------------------
(* Events of the WebSockets *)

\* onopen belongs to the socket, whether or not it is still the current one.
SocketOpens(s) ==
    /\ ready[s] = "connecting"
    /\ ready' = [ready EXCEPT ![s] = "open"]
    /\ connection' = "bridge"
    /\ asked' = [asked EXCEPT ![s] = @ \cup {Request("connect", NoImage, "operator")}]
    /\ UNCHANGED <<settings, image, socket, dialled, inbox, recovery, dialogs, comparison, preflight>>

\* Faulty variant: the close event leaves the pill alone.
SocketClosesSilently(s) ==
    /\ ready[s] \in {"connecting", "open", "closing", "failing"}
    /\ ready' = [ready EXCEPT ![s] = "closed"]
    /\ asked' = [asked EXCEPT ![s] = {}]
    /\ inbox' = [inbox EXCEPT ![s] = <<>>]
    /\ connection' = IF ready[s] \in {"connecting", "failing"} THEN "error" ELSE connection
    /\ UNCHANGED <<settings, image, socket, dialled, recovery, dialogs, comparison, preflight>>

\* onerror and onclose, of the current socket or of a replaced one: a socket
\* that never opened fails first, an open one may.  What the bridge still had
\* to say is lost.
SocketCloses(s) ==
    /\ ready[s] \in {"connecting", "open", "closing", "failing"}
    /\ ready' = [ready EXCEPT ![s] = "closed"]
    /\ asked' = [asked EXCEPT ![s] = {}]
    /\ inbox' = [inbox EXCEPT ![s] = <<>>]
    /\ \E failed \in BOOLEAN :
          /\ ready[s] \in {"connecting", "failing"} => failed
          /\ ready[s] = "closing" => ~failed
          /\ connection' = IF failed \/ connection = "error" THEN "error" ELSE "offline"
    /\ UNCHANGED <<settings, image, socket, dialled, recovery, dialogs, comparison, preflight>>

\* The bridge answers a request, ...
BridgeAnswers(s, type) ==
    /\ ready[s] = "open"
    /\ type \notin {"userProfiles", "sync"} => Len(inbox[s]) < InboxMax
    /\ \E r \in asked[s] :
          /\ r.type = type
          /\ \E m \in Answers(type) : inbox' = [inbox EXCEPT ![s] = Append(@, Message(m, r))]
          /\ asked' = [asked EXCEPT ![s] = @ \ {r}]
    /\ UNCHANGED <<settings, image, socket, ready, dialled, pageVars>>

\* ... drops a Compare whose controller socket has closed, ...
BridgeDropsVerify(s) ==
    /\ \E r \in asked[s] : r.type = "verify" /\ asked' = [asked EXCEPT ![s] = @ \ {r}]
    /\ UNCHANGED <<settings, image, socket, ready, dialled, inbox, pageVars>>

\* ... and reports what becomes of the controller.
BridgeReports(s) ==
    /\ ready[s] = "open" /\ Len(inbox[s]) < InboxMax
    /\ \A r \in asked[s] : r.type # "connect"
    /\ \E m \in Reports :
          inbox' = [inbox EXCEPT ![s] = Append(@, Message(m, Request(m, NoImage, "operator")))]
    /\ UNCHANGED <<settings, image, socket, ready, dialled, asked, pageVars>>

-----------------------------------------------------------------------------
(* onmessage *)

Status(m) ==
    /\ m.type \in Statuses
    /\ connection' = m.type
    /\ IF m.type = "connected"
       THEN /\ recovery' = Established(recovery)
            /\ IF recovery.phase = "syncing"
               THEN Send(Request("verify", image, "recovery"))
               ELSE UNCHANGED asked
       ELSE /\ recovery' = IF m.type = "error" THEN Fails(recovery) ELSE recovery
            /\ UNCHANGED asked
    /\ UNCHANGED <<dialogs, comparison, preflight>>

VerifyResult(m) ==
    /\ m.type \in Answers("verify")
    /\ comparison' = IF m.type = "match" THEN [image |-> m.image, over |-> socket]
                     ELSE NoMatch
    /\ recovery' = Compared(recovery, m.type)
    /\ UNCHANGED <<connection, dialogs, preflight, asked>>

\* Faulty variant: the reconnect uses the settings as they are by then.
UserProfileResultLate(m) ==
    /\ m.type \in Answers("userProfiles")
    /\ IF m.type = "usersCompleted"
       THEN /\ dialogs' = [dialogs EXCEPT !.users = "recovering"]
            /\ recovery' = Started(settings)
       ELSE /\ dialogs' = [dialogs EXCEPT !.users = "result"]
            /\ UNCHANGED recovery
    /\ UNCHANGED <<connection, comparison, preflight, asked>>

\* The recovery's reconnect is the connect of the render that opened this
\* socket: it goes where the profiles went, whatever was edited since.
UserProfileResult(m) ==
    /\ m.type \in Answers("userProfiles")
    /\ IF m.type = "usersCompleted"
       THEN /\ dialogs' = [dialogs EXCEPT !.users = "recovering"]
            /\ recovery' = Started(dialled)
       ELSE /\ dialogs' = [dialogs EXCEPT !.users = "result"]
            /\ UNCHANGED recovery
    /\ UNCHANGED <<connection, comparison, preflight, asked>>

TransferPreflight(m) ==
    /\ m.type \in Answers("dryRun")
    /\ preflight' = IF m.type = "dryRunPassed" THEN m.image ELSE NoImage
    /\ UNCHANGED <<connection, recovery, dialogs, comparison, asked>>

\* Faulty variant: the dialog is left as it is.
TransferResultUnseen(m) ==
    /\ m.type = "transferEnded"
    /\ UNCHANGED <<connection, recovery, dialogs, comparison, preflight, asked>>

TransferResult(m) ==
    /\ m.type = "transferEnded"
    /\ dialogs' = [dialogs EXCEPT !.transfer = "result"]
    /\ UNCHANGED <<connection, recovery, comparison, preflight, asked>>

\* Only an open socket delivers.
Deliver(s) ==
    /\ ready[s] = "open" /\ inbox[s] # <<>>
    /\ inbox' = [inbox EXCEPT ![s] = Tail(@)]
    /\ LET m == Head(inbox[s])
       IN  \/ Status(m) \/ VerifyResult(m) \/ UserProfileResult(m)
           \/ TransferPreflight(m) \/ TransferResult(m)
    /\ UNCHANGED <<settings, image, socket, ready, dialled>>

-----------------------------------------------------------------------------
(* The buttons *)

\* compareWithController: the button asks for a connected pill.
Compare ==
    /\ NoDialog /\ connection = "connected" /\ FewAsked
    /\ Send(Request("verify", image, "operator"))
    /\ UNCHANGED <<settings, image, socket, ready, dialled, inbox, pageVars>>

\* runTransferDryRun: enough that the bridge is there.
DryRun ==
    /\ NoDialog /\ connection \notin {"offline", "error"} /\ FewAsked
    /\ Send(Request("dryRun", image, "operator"))
    /\ UNCHANGED <<settings, image, socket, ready, dialled, inbox, pageVars>>

\* beginUserProfileSend: the dialog runs, whether or not the request was sent.
BeginUserProfileSend ==
    /\ NoDialog
    /\ dialogs' = [dialogs EXCEPT !.users = "running"]
    /\ Send(Request("userProfiles", NoImage, "operator"))
    /\ UNCHANGED <<settings, image, socket, ready, dialled, inbox, connection, recovery,
                   comparison, preflight>>

SendOffered ==
    /\ connection = "connected"
    /\ comparison.image = image /\ preflight = image

\* beginLiveTransfer, offered after a matching Compare and dry run.
BeginLiveTransfer ==
    /\ NoDialog /\ SendOffered
    /\ dialogs' = [dialogs EXCEPT !.transfer = "running"]
    /\ Send(Request("sync", image, "operator"))
    /\ UNCHANGED <<settings, image, socket, ready, dialled, inbox, connection, recovery,
                   comparison, preflight>>

\* OK on a result, and Stop and close on the recovery.
CloseDialog ==
    /\ \/ /\ dialogs.transfer = "result"
          /\ dialogs' = [dialogs EXCEPT !.transfer = "closed"]
          /\ UNCHANGED recovery
       \/ /\ dialogs.users = "result"
          /\ dialogs' = [dialogs EXCEPT !.users = "closed"]
          /\ UNCHANGED recovery
       \/ /\ dialogs.users = "recovering"
          /\ dialogs' = [dialogs EXCEPT !.users = "closed"]
          /\ recovery' = NoRecovery(NoSettings)
    /\ UNCHANGED <<settings, image, socket, ready, dialled, asked, inbox, connection,
                   comparison, preflight>>

-----------------------------------------------------------------------------
(* The recovery's own steps *)

\* Reconnect & Sync: reconnectAndSync, then connect({ auto: true }).
ReconnectAndSync ==
    /\ dialogs.users = "recovering" /\ CanSync(recovery)
    /\ recovery' = Syncs(recovery)
    /\ Connect(recovery.home, TRUE)
    /\ UNCHANGED <<settings, image, asked, inbox, dialogs, comparison, preflight>>

CountdownEnds ==
    /\ "countdown" \in recovery.timers
    /\ recovery' = BecomesReady(recovery)
    /\ UNCHANGED <<settings, image, socket, ready, dialled, asked, inbox, connection,
                   dialogs, comparison, preflight>>

SyncTimesOut ==
    /\ recovery.timers \cap {"connect", "result"} # {}
    /\ recovery' = Fails(recovery)
    /\ UNCHANGED <<settings, image, socket, ready, dialled, asked, inbox, connection,
                   dialogs, comparison, preflight>>

-----------------------------------------------------------------------------
LinkNext ==
    \/ PressConnect \/ SelectSite \/ EditSite \/ Compare \/ DryRun
    \/ BeginUserProfileSend \/ BeginLiveTransfer \/ CloseDialog
    \/ ReconnectAndSync \/ CountdownEnds \/ SyncTimesOut
    \/ \E s \in Socks :
          \/ SocketOpens(s) \/ SocketCloses(s) \/ Deliver(s)
          \/ BridgeDropsVerify(s) \/ BridgeReports(s)
          \/ \E type \in {"connect", "verify", "userProfiles", "dryRun", "sync"} :
                BridgeAnswers(s, type)

\* The timers of the recovery fire; nothing else has to happen.
LinkFairness == WF_linkVars(CountdownEnds) /\ WF_linkVars(SyncTimesOut)

LinkSpec == LinkInit /\ [][LinkNext]_linkVars
LinkFairSpec == LinkSpec /\ LinkFairness

-----------------------------------------------------------------------------
(* Properties *)

\* connect closes the socket it replaces, so that two sockets never deliver
\* to the page at once.
OnlyCurrentIsOpen == \A s \in Socks : ready[s] = "open" => s = socket

\* The pill promises a session only over an open socket.  (The reverse does
\* not hold: the close event of a replaced socket turns the pill off.)
PillNeedsSocket == connection \in {"bridge", "connected"} => Open

\* The recovery ends in success only by a read-back that it asked for itself,
\* after the restart, on its own connection.
SucceedsByItself ==
    recovery.phase # "success" /\ recovery'.phase = "success"
      => Head(inbox[socket]).by = "recovery"
SuccessIsOwnReadBack == [][SucceedsByItself]_linkVars

\* Reconnect & Sync always dials, and dials the controller that got the
\* profiles, whatever the site says by then.
StaysHome ==
    recovery.phase # "syncing" /\ recovery'.phase = "syncing"
      => socket' # socket /\ dialled' = dialled
RecoveryStaysHome == [][StaysHome]_linkVars

\* A countdown or an attempt of the recovery always ends.
RecoverySettles == recovery.phase \in {"waiting", "syncing"}
                     ~> recovery.phase \notin {"waiting", "syncing"}

\* A request of this type is with the bridge, or its answer under way.
Outstanding(type) ==
    \E s \in Socks :
        \/ \E r \in asked[s] : r.type = type
        \/ \E n \in DOMAIN inbox[s] : inbox[s][n].type \in Answers(type)

\* A running dialog is not left alone with its spinner by an answer that went
\* elsewhere: the request is answered in the dialog, or lost with the socket.
\* (Then, or when the request was never sent, nothing on the page ends it.)
AnswerReaches(dialog, type) ==
    dialogs[dialog] = "running" /\ Outstanding(type) /\ ~Outstanding(type)'
      => dialogs'[dialog] # "running" \/ \E s \in Socks : ready[s] = "open" /\ ready'[s] # "open"
DialogsAnswered == AnswerReaches("users", "userProfiles") /\ AnswerReaches("transfer", "sync")
DialogEnds == [][DialogsAnswered]_linkVars

\* README.md: Send is available only after a Compare from the same connection.
SendOfferedFresh == SendOffered => comparison.over = socket
=============================================================================
