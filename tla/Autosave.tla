------------------------------ MODULE Autosave ------------------------------
(***************************************************************************)
(* The editor's side of the stored workspace (app/page.tsx): the load, the *)
(* edits and the debounced save of every browser tab, over the store of    *)
(* WorkspaceStore and a network that may lose a request or its answer.     *)
(*                                                                         *)
(* React state and refs of a tab are one record.  A callback runs to its   *)
(* next await, so it is one action; setWorkspace is taken together with    *)
(* the effect on [workspace] it triggers.  The serialisation of a          *)
(* workspace stands for the workspace: no edit writes a time stamp, so an  *)
(* edit that is undone is equal to what it started from.                   *)
(***************************************************************************)
EXTENDS WorkspaceStore

CONSTANTS
    Starter,        \* canonicalizeAppData(initialData)
    LegacyCopy,     \* per browser, the copy left in localStorage, or null
    Upgraded(_, _), \* the stored workspace after the migrations and the merge
                    \* of a legacy copy's connection state
    MaxEdits, MaxFaults  \* bounds of the model

ASSUME WorkspaceAssumption ==
    /\ Starter \in Workspaces
    /\ LegacyCopy \in [Browsers -> Workspaces \cup {NoWorkspace}]
    /\ \A w \in Workspaces, l \in Workspaces \cup {NoWorkspace} :
           Upgraded(w, l) \in Workspaces
ASSUME BoundAssumption == MaxEdits \in Nat /\ MaxFaults \in Nat

VARIABLES
    editor,  \* per browser, the state of its tab
    legacy,  \* per browser, localStorage "flexidim-web-data"
    spent    \* edits, and faults or reloads, so far

autosaveVars == <<file, writes, queue, editor, legacy, spent>>

MaybeWorkspace == Workspaces \cup {NoWorkspace}

Editor == [
    load : {"reading", "read", "saving", "done", "failed"},
    payload : [revision : Nat, workspace : MaybeWorkspace],
    screen : Workspaces,         \* workspace
    synced : MaybeWorkspace,     \* lastSyncedWorkspace
    pending : MaybeWorkspace,    \* pendingWorkspace
    sent : MaybeWorkspace,       \* `next` of the save in flight, if any
    timer : BOOLEAN,             \* workspaceSaveTimer is running
    ready : BOOLEAN,             \* serverReady
    revision : Nat,              \* serverRevision
    storage : {"loading", "ready", "unavailable"}]

NoPayload == [revision |-> 0, workspace |-> NoWorkspace]

Opened == [load |-> "reading", payload |-> NoPayload, screen |-> Starter,
           synced |-> NoWorkspace, pending |-> NoWorkspace,
           sent |-> NoWorkspace, timer |-> FALSE, ready |-> FALSE,
           revision |-> 0, storage |-> "loading"]

AutosaveInit ==
    /\ StoreInit
    /\ editor = [b \in Browsers |-> Opened]
    /\ legacy = LegacyCopy
    /\ spent = [edits |-> 0, faults |-> 0]

-----------------------------------------------------------------------------
(* What the callbacks do to a tab *)

InFlight(e) == e.sent # NoWorkspace

\* flushWorkspaceToServer up to its fetch.
Flushed(e) ==
    IF InFlight(e) THEN e
    ELSE IF ~e.ready THEN [e EXCEPT !.storage = "unavailable"]
    ELSE [e EXCEPT !.pending = NoWorkspace,
                   !.sent = IF e.pending = e.synced THEN NoWorkspace ELSE e.pending]

\* Faulty variant, for the mutation checks: edits made meanwhile are left.
LandedForGood(e) == [e EXCEPT !.sent = NoWorkspace]

\* The `finally` of flushWorkspaceToServer.
Landed(e) ==
    LET idle == [e EXCEPT !.sent = NoWorkspace]
    IN IF idle.pending = NoWorkspace THEN idle ELSE Flushed(idle)

\* Faulty variant, for the mutation checks: what is on the screen by now is
\* taken for what was saved.
SaveConfirmedAsShown(e, revision) ==
    Landed([e EXCEPT !.revision = revision, !.synced = e.screen,
                     !.storage = "ready"])

\* The revision answered goes with the workspace sent, not the one shown.
SaveConfirmed(e, revision) ==
    Landed([e EXCEPT !.revision = revision, !.synced = e.sent,
                     !.storage = "ready"])

SaveFailed(e) == Landed([e EXCEPT !.storage = "unavailable"])

\* setWorkspace(w), the clean-up of the last effect, and the effect.
Edited(e, w) ==
    LET shown == [e EXCEPT !.screen = w, !.timer = FALSE]
    IN IF w = e.synced THEN shown
       ELSE IF ~e.ready THEN [shown EXCEPT !.storage = "unavailable"]
       ELSE [shown EXCEPT !.pending = w, !.timer = TRUE]

\* What loadWorkspace writes when the store holds nothing or an old format,
\* and what it shows otherwise.
Authoritative(b) ==
    LET stored == editor[b].payload.workspace
    IN IF stored # NoWorkspace THEN Upgraded(stored, legacy[b])
       ELSE IF legacy[b] # NoWorkspace THEN legacy[b] ELSE Starter

LoadedAs(e, w, revision) ==
    [e EXCEPT !.load = "done", !.payload = NoPayload, !.revision = revision,
              !.synced = w, !.screen = w, !.ready = TRUE, !.storage = "ready"]

LoadGivenUp(e) ==
    [e EXCEPT !.load = "failed", !.payload = NoPayload, !.storage = "unavailable"]

\* What the PUT of a tab carries, and the revision it expects.
Outgoing(b) ==
    IF editor[b].load = "saving"
    THEN [workspace |-> Authoritative(b), expected |-> editor[b].payload.revision]
    ELSE [workspace |-> editor[b].sent, expected |-> editor[b].revision]

\* A tab has at most one PUT at a time, of its load or of its save.
AwaitsPut(b) == editor[b].load = "saving" \/ InFlight(editor[b])

Becoming(b, e) == editor' = [editor EXCEPT ![b] = e]

Counts(what, max) ==
    /\ spent[what] < max
    /\ spent' = [spent EXCEPT ![what] = @ + 1]

Fault == Counts("faults", MaxFaults)

-----------------------------------------------------------------------------
(* Loading *)

\* GET: readWorkspaceFile, between the request and its answer.
LoadRead(b) ==
    /\ editor[b].load = "reading"
    /\ Becoming(b, [editor[b] EXCEPT !.load = "read", !.payload = file])
    /\ UNCHANGED <<file, writes, queue, legacy, spent>>

LoadAnswered(b) ==
    /\ editor[b].load = "read"
    /\ \/ /\ Authoritative(b) = editor[b].payload.workspace
          /\ Becoming(b, LoadedAs(editor[b], Authoritative(b),
                                  editor[b].payload.revision))
          /\ legacy' = [legacy EXCEPT ![b] = NoWorkspace]
       \/ /\ Authoritative(b) # editor[b].payload.workspace
          /\ Becoming(b, [editor[b] EXCEPT !.load = "saving"])
          /\ UNCHANGED legacy
    /\ UNCHANGED <<file, writes, queue, spent>>

\* The GET fails.
LoadLost(b) ==
    /\ Fault
    /\ editor[b].load \in {"reading", "read"}
    /\ Becoming(b, LoadGivenUp(editor[b]))
    /\ UNCHANGED <<file, writes, queue, legacy>>

\* The create or migration PUT is answered.
LoadSaved(b, s) ==
    /\ editor[b].load = "saving" /\ writes[s].owner = b
    /\ Close(s)
    /\ \/ /\ writes[s].phase = "saved"
          /\ Becoming(b, LoadedAs(editor[b], Authoritative(b),
                                  writes[s].expected + 1))
          /\ legacy' = [legacy EXCEPT ![b] = NoWorkspace]
       \/ /\ writes[s].phase # "saved"
          /\ Becoming(b, LoadGivenUp(editor[b]))
          /\ UNCHANGED legacy
    /\ UNCHANGED spent

-----------------------------------------------------------------------------
(* Editing and saving *)

\* Any change of the workspace, an import included.  Levels can be changed
\* while the load is still under way.
Edit(b, w) ==
    /\ Counts("edits", MaxEdits)
    /\ w # editor[b].screen
    /\ Becoming(b, Edited(editor[b], w))
    /\ UNCHANGED <<file, writes, queue, legacy>>

TimerFires(b) ==
    /\ editor[b].timer
    /\ LET e == [editor[b] EXCEPT !.timer = FALSE]
       IN Becoming(b, Flushed(e))
    /\ UNCHANGED <<file, writes, queue, legacy, spent>>

\* The PUT of a tab reaches the server.
PutArrives(b, s) ==
    /\ AwaitsPut(b)
    /\ \A t \in Slots : writes[t].owner # b
    /\ Receive(s, b, Outgoing(b).workspace, Outgoing(b).expected)
    /\ UNCHANGED <<editor, legacy, spent>>

SaveAnswered(b, s) ==
    /\ InFlight(editor[b]) /\ writes[s].owner = b
    /\ Close(s)
    /\ \/ /\ writes[s].phase = "saved"
          /\ Becoming(b, SaveConfirmed(editor[b], writes[s].expected + 1))
       \/ /\ writes[s].phase # "saved"
          /\ Becoming(b, SaveFailed(editor[b]))
    /\ UNCHANGED <<legacy, spent>>

\* fetch rejects; the request may have reached the server all the same.
PutLost(b) ==
    /\ Fault
    /\ AwaitsPut(b)
    /\ Detach(b)
    /\ Becoming(b, IF InFlight(editor[b]) THEN SaveFailed(editor[b])
                   ELSE LoadGivenUp(editor[b]))
    /\ UNCHANGED legacy

\* The answer to a request nobody waits for.
AnswerDropped(s) ==
    /\ writes[s].owner = Nobody
    /\ Close(s)
    /\ UNCHANGED <<editor, legacy, spent>>

\* storageReachable, before an import.
ProbeAnswered(b) ==
    /\ editor[b].load = "done"
    /\ Becoming(b, [editor[b] EXCEPT !.storage = "ready"])
    /\ UNCHANGED <<file, writes, queue, legacy, spent>>

ProbeFails(b) ==
    /\ Fault
    /\ editor[b].load = "done"
    /\ Becoming(b, [editor[b] EXCEPT !.storage = "unavailable", !.ready = FALSE])
    /\ UNCHANGED <<file, writes, queue, legacy>>

\* The tab is closed, and opened again.
Reload(b) ==
    /\ Fault
    /\ Detach(b)
    /\ Becoming(b, Opened)
    /\ UNCHANGED legacy

-----------------------------------------------------------------------------
(* The server, under the tabs *)

ServerProceeds(s) == Proceed(s) /\ UNCHANGED <<editor, legacy, spent>>

ServerDiskFails(s) ==
    /\ Fault
    /\ DiskFails(s)
    /\ UNCHANGED <<editor, legacy>>

ServerRestarts ==
    /\ Fault
    /\ Restart
    /\ UNCHANGED <<editor, legacy>>

TabSteps(b) ==
    \/ LoadRead(b) \/ LoadAnswered(b) \/ TimerFires(b)
    \/ \E s \in Slots : LoadSaved(b, s) \/ PutArrives(b, s) \/ SaveAnswered(b, s)

ServerSteps(s) == ServerProceeds(s) \/ AnswerDropped(s)

AutosaveNext ==
    \/ \E b \in Browsers : TabSteps(b)
    \/ \E b \in Browsers : LoadLost(b) \/ PutLost(b) \/ Reload(b)
    \/ \E b \in Browsers : ProbeAnswered(b) \/ ProbeFails(b)
    \/ \E b \in Browsers, w \in Workspaces : Edit(b, w)
    \/ \E s \in Slots : ServerSteps(s) \/ ServerDiskFails(s)
    \/ ServerRestarts

AutosaveSpec == AutosaveInit /\ [][AutosaveNext]_autosaveVars

\* Timers fire, a request that is not lost arrives and is answered, and the
\* server runs.  Nothing makes a user edit, reload or import.
AutosaveFairSpec ==
    /\ AutosaveSpec
    /\ \A b \in Browsers : WF_autosaveVars(TabSteps(b))
    /\ \A s \in Slots : WF_autosaveVars(ServerSteps(s))

-----------------------------------------------------------------------------
(* Properties *)

\* Types; the file holds only what parseWorkspacePutRequest accepts.
AutosaveTypeOK ==
    /\ StoreTypeOK
    /\ editor \in [Browsers -> Editor]
    /\ legacy \in [Browsers -> MaybeWorkspace]
    /\ spent \in [edits : 0 .. MaxEdits, faults : 0 .. MaxFaults]

\* A tab that knows the current revision knows what it holds: the pair of
\* serverRevision and lastSyncedWorkspace never comes apart, whatever is
\* edited while a save is in flight or lost.
KnownRevision ==
    \A b \in Browsers :
        editor[b].load = "done" /\ editor[b].revision = file.revision
            => editor[b].synced = file.workspace

\* A save that has passed its comparison replaces exactly what its tab last
\* saw of the server: no other browser's save is lost under it.
SaveReplacesWhatItSaw ==
    \A b \in Browsers, s \in Slots :
        /\ writes[s].owner = b /\ writes[s].phase \in Running
        /\ InFlight(editor[b])
        => file.workspace = editor[b].synced

\* An edit that waits for its timer is in the end saved, undone or reported,
\* also when the timer fires while an earlier save is still in flight, or that
\* save ends first and takes the edit with it.
EditIsSettled ==
    \A b \in Browsers :
        (editor[b].timer /\ editor[b].pending # NoWorkspace)
            ~> (\/ editor[b].screen = editor[b].synced
                \/ editor[b].storage = "unavailable")

\* "Whether edits are actually reaching server storage ... the state has to
\* stay on screen" (app/page.tsx:913-915): a tab that shows no banner and has
\* no save scheduled or in flight has nothing unsaved.
ReadyMeansSaved ==
    \A b \in Browsers :
        /\ editor[b].storage = "ready"
        /\ ~editor[b].timer /\ ~InFlight(editor[b])
        => editor[b].screen = editor[b].synced
=============================================================================
