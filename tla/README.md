# Verification of the FlexiDim configuration web app

FlexiDim Web edits the configuration of a lighting installation in a browser and
sends it to a Scene Controller, a device reached over one TCP connection. This
directory holds TLA+ modules translated from the source, the TLC configurations
that check them and the proofs TLAPS checks. Paths in this file are relative to
the repository, `bridge/server.mjs:567` is a line of it.

Run `tlc -config MCBridge.cfg MCBridge` to check a run, and
`tlapm Bridge_proofs.tla` to check a proof module.

## 1. Inventory

| Part | Source | State | Module |
|---|---|---|---|
| Safety coordinator | `bridge/transfer-safety.mjs` | lock, last Compare and dry run per client, stop latch, audit state | `TransferSafety` |
| Transfer session, runner | `bridge/config-transfer.mjs`, `bridge/transfer-runner.mjs` | state, block, retry, counters; reply buffer, reconnect timer | `ConfigTransfer`, `TransferLifecycle` |
| Bridge server | `bridge/server.mjs` | per browser: controller socket, runners, client id | `Bridge`, `ControllerLink`, `ControllerSession`, `StatusFeed` |
| Verify session (Compare) | `bridge/verify-session.mjs` | state, timer, collected reply | `VerifySession` |
| User-profile runner | `bridge/user-profile-runner.mjs`, `bridge/user-transfer.mjs` | user, phase, two timers | `UserProfileSend` |
| Browser heartbeat | `bridge/websocket.mjs` | last time each client was heard | `Heartbeat` |
| Discovery | `bridge/discovery.mjs` | cursor, probes under way, what was found | `Discovery` |
| Host process | `server/host.mjs` | proxied pairs of sockets, pending requests | `HostProxy` |
| Supervisor | `server/start-all.mjs` | two child processes | `Supervisor` |
| Workspace store | `server/workspace-store.mjs`, `app/api/workspace/route.ts` | `workspace.json` and its revision, a queue of writes | `WorkspaceStore`, `RevisionRegister` |
| Editor: autosave | `app/page.tsx` | workspace, revision, pending save | `Autosave` |
| Editor: connection, dialogs | `app/page.tsx`, `app/user-profile-recovery.ts` | WebSocket, pill, dialogs, last Compare, recovery with three timers | `EditorLink`, `UserProfileRecovery` |
| Editor: sites, configurations, import | `app/page.tsx`, `app/fd4cfg.ts` | sites, configurations, their contents | `Sites`, `OwnedWorkspace`, `Lists` |
| Editor: equipment, bin | `app/page.tsx`, `app/fd4cfg.ts` | items, what refers to what, what was deleted | `Equipment` |
| Editor: modules | `app/page.tsx`, `app/flexidim-addressing.mjs` | order, addresses | `ModuleOrder` |
| Editor: live commands | `app/page.tsx` | the throttle; scenes that follow one another | `DimThrottle`, `SceneRun` |
| Editor: scenes | `app/scene-order.ts`, `app/scene-utilities.ts` | ranks, groups, locks, buttons | `SceneOrder`, `SceneUtilities` |
| Compilers | `app/compile-config.ts`, `app/compile-user-profiles.ts` | none | `CompileConfig`, `UserProfiles` |
| Migrations, validation | `app/fd4cfg.ts`, `app/page.tsx`, `app/foundation-dictionary-order.ts` | none | `Migrations`, `OwnedWorkspace`, `Lists` |
| Archive import and export | `app/fd4cfg.ts`, `app/fd4cfg-export.ts` | keys and bags kept with imported objects | `Archive` |

How they meet. The editor reaches the store over HTTP and the bridge over a
WebSocket, through the host. The bridge keeps one controller socket for each
browser. A live send is a runner that writes to whatever socket its browser has
*now*, hears from the socket it was *set on*, and holds the coordinator's one
process-wide lock. A Compare hangs on the socket it was started on and writes to
its browser's. Everything in the bridge runs on one JavaScript thread: there are
no data races, but timers, socket events, messages of several browsers and late
replies interleave at every callback boundary. In the page, everything an edit
does starts from the *view*, the open configuration at the top level and the others
in snapshots, and `setData` turns what it returns back into the tree that is
saved.

What is hard, and the properties that make each part right:

- *Coordinator*: an expired lock is only noticed by the next call that wants
  one; a dry run must be that of what is sent; the latch must hold.
- *Session and runner*: stop-and-wait without sequence numbers in the replies, so
  a late reply counts for a later frame; retries; a restart of the controller
  that is expected in one phase and fatal in the others; a transfer must end.
- *Server*: the runner, its map entry, its socket and its lock are four separate
  things that four kinds of events take away; they must go together. A Compare and a
  send share one stream of replies.
- *Store and autosave*: a lost response to a committed write, edits while a save is
  in flight, a crash between write and rename.
- *Connections*: close events that come after the socket was replaced, answers that
  are lost or come after a time-out, a half of a pair that dies without a word.
- *Workspace*: two forms of one workspace, IDs that are used again, references to what
  was deleted, edits of what was imported together with a bag of its original
  fields, pointers of an image that wrap or overlap.

## 2. Plan

Done: all modules below, and the proofs of section 5. Left:

1. Proofs: `ImageRight` for `CompileConfig` (pointers and tables as positions in one sequence), `WorkspaceFits`
   (`Trip` of `Archive`).
2. The reply parser and the frame decoder as recursive functions over bytes.
3. `CompileConfig` with users and periods.

Modules that compose: `Bridge` EXTENDS `TransferSafety`, `Autosave` EXTENDS `WorkspaceStore`,
`ControllerSession` EXTENDS `VerifySession`, `UserProfileSend` and through them `ControllerLink`,
`EditorLink` EXTENDS `UserProfileRecovery`, `Sites` EXTENDS `OwnedWorkspace`, `OwnedWorkspace` and `Migrations` EXTEND
`Lists`, the code's `some`, `find`, `filter` and highest ID in use. `MCLinks` and `MCWorkspace` put the smaller parts of the
bridge and of the editor together for checking. Refinements:
`ConfigTransfer` implements `TransferLifecycle`, `WorkspaceStore` and `Autosave` implement
`RevisionRegister`, `Bridge` implements the coordinator's `SafetySpec`.

## 3. The modules

### TransferSafety

One action for each method of `TransferSafetyCoordinator`. `active`,
`comparisons`, `preflights`, `emergencyStopped` are the fields of those names;
`auditOk` is the audit's last result, which `beginLive` asks for.

- *Time.* The code only computes `now - at`, so a timestamp is an age. `Advance`
  makes everything one unit older; an age stops one above the limit it is compared
  with, because past it nothing changes any more.
- *Hashes.* `Binding` is the pair of image and user payloads: SHA-256 is taken to be
  injective. The 16-bit CRC is *not*: `Crc` maps images to checksums and the runs give
  two images the same one.
- *`acquire`* is translated in the order of its statements: the stop is tested, then
  `checkDeadline` drops an expired lock and latches the stop, then the lock is granted.
- *`supported`* in a request stands for the site type and firmware profile, which
  the session's constructor checks. `dryRun` builds a session under the lock, and
  a constructor that throws leaves no dry run behind.

### ConfigTransfer and TransferLifecycle

`session` has the fields of `ConfigurationTransferSession`. Each tick of the
100 ms timer is the action of the session's current state; `HasReply` is the runner's
choice between handing the whole buffer over and passing a tick. A frame is its
family and an index: a block stands for the data block and the poll written right
behind it, `setup` for the date, time and `FC` records of `start`. A reply is
one of the bytes the code distinguishes. `Apply` is `apply()` with its
two exits: a terminal state reports, a write on a lost socket fails the runner
after the session has moved.

The link is up, lost (the close event is pending), down or opening. TCP neither loses nor
reorders bytes while it is up; a drop loses everything in flight. `Receive` delivers any
prefix of what has arrived, so replies split and merge in every way.

The controller (`Ctl*`) is outside the repository and is modelled from PROTOCOL.md
and `tools/controller-emulator.mjs`: arbitrarily slow, silent or refusing, but
it acknowledges a block only when it has stored it, accepts the image only with every
block stored, and reports permanence only of an accepted image. It restarts with or
without dropping the connection, and scans levels once it is normal.

`TransferLifecycle` is what the rest of the bridge may rely on: write only over a
link that has not been lost, wait for the restart across lost links, succeed only after
enough status records heard in that wait, report one result.
`ConfigTransfer!Lifecycle` is the refinement mapping.

### Bridge

`current` is the map `controllers`, `xferOf` is `transfers`, `profOf` is
`userProfileSends`; `sock` holds what the code hangs on a socket object
(`flexidimTransferRunner`, `flexidimUserProfileRunner`, an active Compare); `send`
the runners, each reduced to its stage. Every message and every socket event is an
action.

- A socket destroyed in one callback emits `close` later: phase `closing`. libuv runs these
  callbacks at the end of the loop iteration, so messages and events of other sockets may
  come first; timers, and a connection asked for in the meantime, belong to a later
  iteration and wait for `Settled`.
- A closed socket left in `controllers` counts as none: every write tests
  `destroyed`. `verify` alone does not; a Compare started there hears nothing.
- The inside of a configuration send is `ConfigTransfer`; here it writes, waits for
  the restart, or ends. What `Bridge` assumes of it, that losing the socket is fatal while
  it writes and only then, is what `TransferLifecycle` promises.
- `FinishOver` is `finish()` with the result callback: references, the map entry *of
  the browser* and the lock go in one step, in the runner's own way (`GiveBack`).
- `Polite` says that a browser starts no send while it has one running, as the
  editor does; the bridge itself does not enforce it for every pair of sends.
- `TimePasses` is in minutes and does not pass during a user-profile send, which
  takes seconds.

Not in `Bridge`: the dim, switch and scene commands (they change no state of the
bridge), the trace and status messages, origin and token checks.

### WorkspaceStore and RevisionRegister

`writes` are the PUT requests the server has taken and how far each has got, `queue` the
links of the promise chain `writeQueue`. Between any two awaits of `writeWorkspaceFile`
another handler may run, so the comparison, the temporary file and the rename are
three actions; `DiskFails` rejects any of them and `Restart` loses the chain. Temporary
files have names of their own and nothing reads them, so they are not state. A GET is one
`readFile` and belongs to the tab that asks (`LoadRead`). `Detach` takes the
sender away from a request, which goes on.

`RevisionRegister` is what is left seen from outside: an atomic compare-and-set, and
requests that are open or answered. `WorkspaceStore!Register` is the refinement
mapping: everything between received and renamed is one open request.

### Autosave

`Autosave` extends `WorkspaceStore` with the browser tabs. One record holds a tab's React
state and refs: `synced` is `lastSyncedWorkspace`, `pending` is
`pendingWorkspace`, `sent` is the workspace captured by the save in flight (its presence is
`workspaceSaveInFlight`), `storage` the banner, `load` how far the load effect has got.

- A callback runs to its next await: `Flushed` is `flushWorkspaceToServer` up to its
  fetch, `SaveAnswered` the rest with its `finally`, which may flush again (`Landed`).
- `setWorkspace` and the effect on `[workspace]` it triggers are one action (`Edited`), with
  the clean-up of the previous effect, which clears the timer and leaves `pending`.
- A workspace stands for its serialisation, which is what the code compares.
- `Upgraded` stands for the three migrations and `mergeLegacyBrowserConnectionState`;
  `LegacyCopy` for the copy an older version left in `localStorage`.
- `PutArrives` is the delayed arrival of a request; `PutLost` rejects the fetch,
  whether or not the request has arrived or was committed; a reload forgets the tab and
  leaves its request at the server.
- A request is delivered at most once by `fetch`, so none is duplicated.

What an edit or an import does to the workspace is the matter of the modules from
`Sites` on.

### ControllerLink, VerifySession, UserProfileSend and ControllerSession

`ControllerLink` is one browser's controller sockets and the cells on them: an
acknowledgement, a status record of two cells whose level may look like one, any other
byte. A read delivers any prefix, so replies split and merge. `VerifySession` is Compare:
`verify[k]` is the session on socket `k`, with its own interval; what it writes goes to
the *current* socket. `age` counts its ticks and is the history `CompareInTime` is about.
`UserProfileSend` is the runner of a user-profile send: `NextFrames` is what
`UserProfileTransferSession` returns for a tick, `WindowCloses` and `Settles` its two
timers. `ControllerSession` composes them as `server.mjs` does: `SocketReceives` is the data event,
which feeds Compare and runner alike; `SocketCloses` the close event, which cancels the one
and ends the other; `Connect` replaces the socket under both.

A browser that still waits after a close event has been told nothing by the Compare: that
is what the code does (`bridge/server.mjs:236`), `answer` then says `lost`, and the page's
own time-out ends the wait.

### StatusFeed, Discovery, Heartbeat, HostProxy and Supervisor

- `StatusFeed`: a socket gathers levels for half a second and tells the page in one message. Its close event
  stops the timer (`bridge/server.mjs:237`), and what it gathered is dropped: `lost` remembers of which channels.
- `Discovery`: UDP first, then workers that share `cursor` and `found` across their awaits.
- `Heartbeat`: the page's answers take up to `AnswerMax`; one timer for all clients.
- `HostProxy`: a pair is `joined` when the bridge has accepted the upgrade; each half is
  open, ended or closed; a browser may vanish without a close.
- `Supervisor`: children crash, hang, and answer SIGTERM with an exit of their own.

### EditorLink and UserProfileRecovery

`EditorLink` is the page's side of the WebSocket. Every `connect` closes the socket it
replaces, whose close event may come at any later time and is not told apart from that of the
current one. `asked` are the requests the bridge has, `inbox` what it has sent; losing a
socket loses both. `UserProfileRecovery` has the operations of the class as functions of its
record; `home` is what its reconnect callback has captured.

### Sites and OwnedWorkspace

`OwnedWorkspace` has both forms of the workspace and `canonicalizeAppData`,
`materializeAppData` and `isFlexiDimWorkspace` between them. The variable of `Sites` is the view; each
operation takes it apart and `SetData` puts it through the canonical form and back, so what an
operation forgets to put away is lost in the model as in the code. `tag` tells sites apart whatever
their IDs, and a content is the number of the edit that made it.

An import takes time: `importConfig` asks for the store and reads the file in two awaits, but works on the sites its
page had before them. So `ChooseFile` keeps the site of the archive's ID as it is then (`importing`), `ImportFails` is
every refusal, and `Import` merges with that site and puts the result into the workspace as it is by now. Any
operation may come in between: the site may have been renamed, deleted, or given another address. (A site that
is found no more comes as a new one, with a tag of its own.)

### Equipment, ModuleOrder, SceneOrder and SceneUtilities

`Equipment` has items with an ID and what they refer to; `NewId` is one above the highest in
use, so IDs return. `Valid` is `validateConfigContent`. A tag of the model names the thing
behind an ID, so that `EquipmentKept` can say that no piece of equipment is lost. A deleted switch loses its button
assignments and does not get them back (`Put`).
`ModuleOrder` keeps the address stored with each channel, which follows the order of the
modules only when an edit computes it. `SceneOrder` has ranks that may be equal or missing,
`SceneUtilities` the generated scenes, their groups and buttons between deletions and
restorations. The button of a deleted scene stays assigned, to scene 0, and counts as taken. A restored scene may lead to an ID that is gone or was given out again: a walk along `next` ends
outside the scenes, rather than at 0.

### DimThrottle and SceneRun

One throttle, `pending`, for all channels; `sent` is what the controller was told, `shown` what
the sliders show, `latest` the history. In `SceneRun` a press starts a chain; each timer
carries its chain, and a scene that is in it already ends it.

### CompileConfig and UserProfiles

Pure functions of an input drawn in the initial state. `CompileConfig` is the layout: slots, offsets,
counts and the action table, with the overwriting and the modulo of the offset. Its
reference definition is what a controller finds that follows the pointers
(`Pointed`). `UserProfiles` is which rooms and switches a profile gives; its reference is the
selection in the editor.

### Migrations and Archive

`Migrations` has every migration of a loaded workspace over inputs of each kind, the order of an iOS dictionary
(`DictionaryOrder`, with its hash table that grows) included. The channels that `restoreAreaHierarchy` readdresses are a set,
because their order plays no part; the groups it makes and the table of the dictionary are built by recursive functions, one
step for each scene, key or bucket. A hash is any number. Of the table's sizes and capacities the module assumes what those of
`app/foundation-dictionary-order.ts` fulfil: the first is empty, none holds more than its size, and the last one holds the
dictionary (beyond it the code throws). `Archive`
is `convertLegacyArchive` and `buildLegacyArchive` around each other: an object of the
document has an ID, the key the archive gave it and `pr`, the parent of its bag, and `Trip`
exports and imports again. `EditsReturn` says what must come back after any edits.

## 4. Runs

| Run | Configuration | Checks |
|---|---|---|
| `safety` | two clients, two images with one checksum | `TypeOK`, `QualifiedTransfer`, `LockHandover`, `StopStaysLatched` |
| `transfer` | two blocks, one user, waits of two ticks, one retry | `TypeOK`, `CompletedMeansPermanent`, `CommitFollowsWholeImage`, `KeepsLifecycle`, `Terminates` |
| `bridge` | two polite browsers, two sockets, two sends | `LockHasSend`, `SendOwnsSocket`, `ClosedBrowserHoldsNothing`, `KeepsSafety`, `LockOutlivesSend` |
| `bridge_overlap` | one browser with two overlapping sends, three sockets | `LockIsReleased` |
| `bridge_halt` | as `bridge`, no lock ever expires | `StopHaltsTransfers` is violated |
| `session` | one browser, two sockets, one user | `CompareInTime`, `WaitsForSomething`, `SentMeansTranscript`, `VerdictOverLiveSocket`, `SendEnds` |
| `links` | six parts, see below | `SocketsFit`, `ServiceFits`, `RecoveryIsOwn`, `DialogEndsByAnswer`, `RecoverySettles`, `PairDiesTogether`, `WholeOrNothing` |
| `workspace` | eleven parts, see below | `WorkspaceFits`, `EntitiesFit`, `LatestIsSent`, `CompiledRight`, `ContentsKept`, `EquipmentKept`, `OrderHolds`, `ChainsEnd` |
| `dim_final` | as `workspace` | `RestingLevelSent` is violated |
| `site_cleared` | as `workspace` | `ConfigurationsKept` is violated |
| `image_channels` | as `workspace` | `ImageHoldsScenes` is violated |
| `autosave` | two tabs, two requests at the server, one unstorable workspace, a legacy copy | `AutosaveTypeOK`, `KnownRevision`, `SaveReplacesWhatItSaw`, `StoreIsRegister`, `EditIsSettled` |

`MCLinks` and `MCWorkspace` hold parts that share no state in the model. Their variable `part` is
drawn in the initial state and says which one moves; the others keep their first state. A run
is then the disjoint union of the runs of its parts, and a property of a part is guarded by
`part` where it would otherwise say something of a part that stands still. Fairness is that of
the part that moves.

What the passing runs show.

- *safety*: the lock of a transfer always has the dry run of exactly what is
  sent, although two images share the CRC that Compare and the request agree on. The lock
  changes hands only past the deadline; while the stop is latched nobody gets it.
- *transfer*: a completed transfer has left its whole image verified and permanent on
  the controller, although replies may be late and count for later frames; the commit
  is never sent before all blocks; every started transfer ends; and the transfer is a
  `TransferLifecycle`, step by step.
- *bridge*: a held lock belongs to a send that runs; a send that still writes owns the
  socket its browser uses; a closed browser leaves no send, socket or lock; a polite
  browser's send keeps its lock until it ends; whatever the callbacks do to the
  coordinator in one go is one of its operations (`KeepsSafety`).
- *bridge_overlap*: with overlapping sends, refused starts included, every lock is released.
- *session*: a Compare ends within its handshakes and its wait, that is 288 ticks or 28.8 of the 30
  seconds the page allows; it answers, unless its socket closes; a match or a difference
  only comes over a live socket; a send reported as sent has written every frame, in order; and every send
  ends, with or without replies, while a Compare reads the same stream.
- *links*: only the page's current socket delivers and the pill never promises more than it
  has; a recovery ends by its own Compare with the controller it sent to, or by a timer; an answer ends its
  dialog; silent browsers are reaped in time and answering ones never; discovery offers
  only what answered, and "none" only after every probe; the page catches up with every level but those that went with
  their socket in its last half second;
  neither half of a proxied pair outlives the other, a vanished browser gives back its session and the host
  stops; no half-working pair of processes survives.
- *workspace*, `ContentsKept`: whatever is selected, made, deleted, duplicated or imported, a
  configuration holds what it held, no site and no configuration gets lost, and an import keeps the address and a valid code of
  a site that has not changed since its file was chosen.
  `WorkspaceFits`: edits survive the archive. `EntitiesFit`: migrations are right and do nothing the second time; what is shown can be saved and its backup restores it; deleted items can be told apart; generated scenes, buttons
  and bin fit one another, a button leads to a scene that is there or nowhere, and sequences end, also those whose scenes were deleted and restored.
  `EquipmentKept`: no area, channel, switch or scene is lost by deleting and restoring and
  no deletion leaves a reference behind. `OrderHolds`: a reordering is the whole truth of the
  addresses, and a scene moves one place. `CompiledRight`: every pointer of the image leads to its own actions (`ImageRight`), and
  a complete profile gives what is selected (`ProfileRight`). `LatestIsSent`, `ChainsEnd`: the last setting is sent, and
  circles of scenes end.
- *autosave*: whatever is edited, lost, reloaded or restarted in between, a tab whose
  revision is the current one knows the workspace stored at it, so a save that passes its
  comparison overwrites nothing its tab has not seen; the queue, the awaits and the
  failures of the store are invisible from outside; an edit whose timer runs is
  saved, undone or reported, also when its timer fires into an earlier save.

What the violated runs show, each against the repository's own words:

- `bridge_halt`: a transfer in the reset wait takes the socket closed by the emergency
  stop for the controller's restart, redials and completes (`bridge/server.mjs:489`).
- `dim_final`: the throttle has one `pending` for all channels, so of two channels moved within
  120 ms only the later one's final level is sent. All On and All Off set every channel at once and send the first and
  the last (`app/page.tsx:4176`, `:1594`, against `:1571`).
- `site_cleared`: the Site ID field reports each keystroke. When it is empty, the
  configurations are not carried over (`app/page.tsx:1739`) and the canonical form drops all
  but the open content (`app/fd4cfg.ts:1180`, against `:467`).
- `image_channels`: an imported scene keeps the archive's `channelOrder`, which no edit changes and the compiler
  prefers (`app/compile-config.ts:178`, against `:315`): a channel added in the editor is not in the
  image, one removed is still driven, to level 0, and the image counts as complete.

### Observations

Met while modelling; where a property is named, it is defined in the module and can be put
into the cfg of its run to see the counterexample.

Bridge and transfers:

- `StopExcludesLock` (`MCTransferSafety`): `acquire` (`bridge/transfer-safety.mjs:250`) tests the stop before it looks at
  the deadline. Finding the lock expired it latches the stop and grants the lock all the same.
- `OneTransferAtATime` (`MCBridge`): the same expiry does not end the runner that held the lock, so two
  transfers run at once (PROTOCOL.md:1004).
- `LockOutlivesSend` with `Polite = FALSE`: the handler of a refused `sync` or `userProfiles` releases the
  lock its own client holds for a send in progress (`bridge/server.mjs:567`, `:430`).
- `RejectedImageStops` (`MCConfigTransfer`): a surplus `06` in front of a rejecting post-image reply is
  taken for acceptance; the F9 query still stops the transfer from completing.
- `SuccessFollowsRestart` (`MCConfigTransfer`): status records on the held connection end the wait although
  the controller has not restarted (PROTOCOL.md:958).
- `QuietAfterPermanent` (`ControllerSession`): a Compare is accepted during a user-profile send and may write
  after the frame that makes the profiles permanent (`bridge/user-profile-runner.mjs:22`).
- `SendNeedsCompare` (`MCLinks`): the page never forgets a match when it reconnects, so Send stays offered; the
  bridge asks for a Compare of its own.

Autosave:

- `ReadyMeansSaved` (`MCAutosave`): an edit undone while its save is in flight equals `lastSyncedWorkspace`, so
  nothing is scheduled (`app/page.tsx:1176`); the server keeps the undone edit, with no banner.
  `flashChannel` (`app/page.tsx:2760`) does this by itself when an answer takes more than 300 ms.
- `storageReachable`, asked before an import, clears the banner of an earlier save that failed
  (`app/page.tsx:1117`); after a committed save whose answer was lost the next one is refused as "Another browser
  changed this configuration" (`app/page.tsx:1155`).

Workspace:

- `createSite` numbers by the count of sites, so after a deletion a new site gets an ID that is taken; the
  configurations of both then double with each edit, and the server refuses every save. `deleteSite` throws when all
  sites share the ID.
- `UntouchedGoes` (`Sites`): `isStarterSite` looks at names only (`app/fd4cfg.ts:1284`), so an import removes a starter with
  edited content.
- `AddressKept` (`MCWorkspace`): a controller's address that is discovered (`app/page.tsx:1438`) while an archive is read is
  overwritten when the import is applied, because it merges with the site of before its awaits (`app/page.tsx:2834`), against
  the prompt at `:2858`. `ContentsKept` therefore speaks of sites that have not changed since the file was chosen.
- A site that is deleted or gets another ID while an archive with its ID is read comes back beside it, with the details of
  before (`app/page.tsx:2860`, `:2896`).
- Deleting, restoring or adding a module leaves the addresses that follow from it until the next edit of a
  channel; `addChannel` counts modules in another order than `moveModule`. `visibleScenes` is not sorted by
  `displayRank`.
- `ArchivesUntouched` (`Migrations`): `restoreAreaHierarchy` (`app/page.tsx:651`) readdresses an archive whose p-th
  module in sorted order is stored at position 2p, such as 1, 3, 2.
- `LockedIsReadOnly` (`MCWorkspace`): `updateSceneChannel` (`app/page.tsx:2641`) does not go through `editScene`, so the
  levels of a locked scene change.
- `PromptFillsUnused` (`MCWorkspace`): the button entry of a deleted scene stays (`app/fd4cfg.ts:648`) and counts as taken
  (`app/scene-utilities.ts:192`), although the page shows no scene on it (`app/page.tsx:6098`): a utility puts none there,
  against its prompt (`app/scene-utilities.ts:362`).
- Scenes that begin a new sequence may follow one another for ever, which seems meant: `FreshEnds` leaves them out.
- The compiler does not test what `ImageRight` assumes: a switch without a number overwrites the scene slots 1019 to 1023,
  one numbered 65 or more the action table, offsets wrap at 65536 bytes, and `complete` stays true. Generated sequences use a
  mode that has no code, so their image is incomplete.
- `sameIds` compares lengths and one direction only; lists with a room twice could pass for other selections.

Archive:

- `ModulesReturn` (`MCWorkspace`): the exporter writes the module order of the import, so modules moved or added in the
  editor come back at their old addresses.
- A deleted imported scene keeps its bag's parent and comes back to life; one from the iOS bin that was restored is deleted
  again; a restored scene goes back to its old group. Deleted groups are not exported, so their scenes come alive with
  the next import.
- A top-level room moved beneath the *first* room is exported with its old parent: the fallback of `hardwareParent`
  (`app/fd4cfg-export.ts:451`), meant for channels, keeps the bag.
- A channel whose archive parent is another object follows that one. A re-import is refused when a restored scene links
  to one in the bin. Scenes without a group come into a new group "Scenes" with each import.

### Bounds

- *safety*: limits of 0 and 1 units are enough for `Advance` to cross each of them, in
  every order; a third client would be another bystander.
- *transfer*: two blocks make a first and a last one; one user makes the user loop run and
  end; limits of two ticks make a wait that goes on and one that runs out; one retry each
  makes a retry and a give-up. `StatusLength` is 5 for the code's 10, kept above
  `SurplusReplies` = 4. `MaxInFlight` and `MaxBuffered` 9 hold a whole status reply behind
  every surplus byte. `finalStatusCount` stops at its target.
- *bridge*: two sockets are one for each browser, or a closing one and its replacement for
  one of them; with three, which takes too long for a routine run, the invariants and
  `LockOutlivesSend` hold as well (1.6 million states). Two sends are one for each browser. One image, one list of payloads, one
  version and verdict: what tells them apart is `TransferSafety`'s matter. All limits 0:
  one `TimePasses` expires everything (in `bridge_halt` the deadline is out of reach, to
  show that it is not the cause). Browsers are interchangeable in the safety runs, which
  is the symmetry used; the run with liveness has none.
- *session*: two sockets let a Compare outlive its own; two handshakes of two ticks make a retry and a give-up, at
  different ticks; a reply of two cells can be cut in two; `CellMax` cells on the wire hold a reply behind a record. One user
  makes a first frame and the two that end the list; `CompareInTime` is proved for all of these numbers.
- *links*: two sockets of the page are the current and a closing one; one request of a type and one message under way
  (`AskedMax`, `InboxMax`) race each other and every event. The heartbeat counts in units of five seconds: an interval of 15 and a time-out of 45, as in the code, and answers
  within 25. Two browsers share the host and the
  heartbeat; three hosts are the preferred, the fallback and a neighbour; two probes are concurrent. Two channels with two
  levels can be gathered together, one of them twice; closes and dials are not bounded.
- *workspace*: `SitesMax` and `ConfigsMax` 3 make a starter, an imported and a made one; the Site IDs that can be typed are the
  empty one and one that may be taken. The archive is of a site that is made,
  renamed or imported before, or new; it is read once at a time (`ImportsMax`), while everything else goes on. Three modules are the fewest of which one can move past another with a third
  behind. Two removals (`RemovalsMax`) restore
  a scene that leads to one deleted after it, or leave a button without its scene; two uses of a utility of two steps (and
  one trigger) link scenes in a row and meet buttons that are taken. Three scenes make the shortest circles; `SceneRules` has one scene for each kind of link. An image of up to two
  scenes and two switches with `SceneSlots` 6 and `OffsetWidth` 80 reaches wrapping, gaps and collisions. The tables of
  `Migrations` have two to four rows, the hash table grows once or twice. The two archives of `Archive` have rooms, channels and
  scenes in rooms, groups, other objects and the bin; two edits or trips follow each other (three hold as well,
  in a run of that part alone).
- *autosave*: two tabs are a writer and the one it may overwrite; two requests at the server are
  one running and one queued, or one left behind by a reload and its successor. Three
  workspaces are an old one, a new one and one the parser refuses. Two edits (`MaxEdits`)
  make an edit during a save, or an edit and its undoing; one fault or reload (`MaxFaults`) meets
  every state. `Starter`, the legacy copy of one tab and what another tab stores make
  every branch of the load. With three edits the run takes four minutes and passes too.

`CompletedMeansPermanent` needs fewer surplus replies than the post-image reply has
bytes (`FewSurplusReplies` in `MCConfigTransfer`). The code's budget, one for the setup frame
and one for every handshake and block retry, grows with the image and can exceed the ten
bytes: `TransferMadePermanent` is conditional on the controller answering fewer than ten of them late.

### Fairness

- `WF_vars(Tick)` in `ConfigTransfer`: `setInterval` keeps firing while the runner is
  active. Nothing is assumed of the link or the controller.
- `[]<>Settled` in `Bridge`: every iteration of the event loop ends, and delivers the close
  events of the sockets destroyed in it.
- `SF` of `SendEnds` in `Bridge`: a configuration ends by `Terminates`, a user-profile send by its
  timers (`SendEnds` of `ControllerSession`). It is strong because pending close events disable it for a moment,
  over and over, without holding up the timer.
- `SessionFairSpec`: every iteration of the loop ends, and the intervals of Compare and of the user-profile send fire, with
  `SF` for the reason above. The controller need not answer.
- `LinkFairness`: the three timers of the recovery. `ProxyFairness`: timers, and the close events the system reports; no browser
  has to leave and the bridge need not answer an end. `SupervisorFairness`: exits are seen and the escalation timer fires.
- `WF` of `NextScene`: the timers of scenes fire.
- `WF` of `TabSteps` and `ServerSteps` in `Autosave`: timers fire, the server runs its
  queue, and a request or answer that is not lost arrives. Nothing makes a user edit,
  import or reload, and no fault has to happen.

Deadlock is checked except in `ConfigTransfer`, where everything stops once the
transfer has ended, in `Autosave`, where the tabs rest once the edits are spent, and in `session`, `links` and
`workspace`, where a part may have ended (a stopped host, a found controller), or its bounded edits are spent.

## 5. Proofs

`Bridge_proofs` begins with the coordinator alone. It proves, for any clients, images, checksums and age limits
(assumptions `CrcAssumption`, `VersionAssumption`, `AgeAssumption`, `AuditAssumption`,
`NullAssumption`, all evaluated by TLC in the runs):

- `SafetyTypeOK`: `SafetySpec => []TypeOK`, one step for each action.
- `SafetyQualifiedTransfer`: `SafetySpec => []QualifiedTransfer`. `QualifiedTransfer` is
  inductive over `TypeOK`: only `Acquire` creates a lock, with the binding just
  compared; only `DryRun` replaces a dry run, and it takes and gives back the lock, so
  none is held after it; `Advance` makes the lock and the dry run older together, and the
  cap on ages is why the clause compares them the way it does.
- `SafetyLockHandover` and `SafetyStopStaysLatched`: action properties, each from
  `TypeOK` and a case for every action.

`ConfigTransfer_proofs` proves, for any image, users, waits, retries and lengths of the replies:

- `TransferTypeOK`: `Typed` adds to the types that only blocks of the image are on their way, and what the controller
  has stored when it has verified or made permanent an image.
- `TransferKeepsLifecycle`: each step is one of `TransferLifecycle` or a stutter. `Linked` says in which states the session
  may have lost its link, and what the runner then waits for. `LifecycleSafe` is proved of the abstract
  specification, and `TransferLifecycleSafe` carries it over: a transfer that writes has its link, and success
  follows `FinalStatusCount` status records.
- `TransferCommitFollowsWholeImage`: by `BlocksOut` and `CommitsPreceded`, which follow a block from the session through the
  link into the controller. `TickRow` states the session's transitions as a table, one row for each way a tick may
  leave it; every later invariant is a case for each row, and none unfolds the session again.
- `TransferSurplusBounded` and `TransferMadePermanent`: a late reply counts for a later frame, so what is proved is
  a counting argument. For each state of the session an invariant (`AtCreated`, `AtHandshake`, `AtBlocks`, `AtStatus`,
  `AtQuery`, `AtLate`, over `RetriesIn`) bounds the replies on their way to what the frames so far could have caused: each attempt leaves at most one
  surplus reply, which is `TransferSurplusBounded`, for any retry budgets. A post-image reply that is taken for whole holds one byte that
  the controller wrote after the commit, if the surplus ones are fewer than its bytes. The code's budgets
  (`MAX_CONNECTION_RETRIES` and `MAX_BLOCK_RETRIES` of 5) allow more than the ten bytes of the reply, so
  `TransferMadePermanent` has a hypothesis about the run, `FewReplies`: no more replies are
  about, when the commit is written, than a reply has bytes.

`Autosave_proofs` proves of the store alone, for any slots, browsers and workspaces:

- `StoreSafe`: types, and `OneWriteRuns`, that only the head of the queue is past its
  comparison and that what it compared still holds. The inductive invariant `StoreInv`
  adds that what is chained was parsed (`ChainedIsStorable`), which keeps the file storable.
- `StoreImplementsRegister`: every step is one of `RevisionRegister` or a stutter under the
  mapping. `Rename` needs `OneWriteRuns`: the revision it writes is one above the file's
  only because the comparison is still true.

and of the tabs over the store, for any browsers, workspaces, migrations and numbers of edits and
faults, `AutosaveTyped`, `AutosaveKnowsRevision`, `AutosaveReplacesWhatItSaw` and
`AutosaveImplementsRegister`. None of the properties is inductive. `AutosaveInv` adds that
a tab's request carries what the tab believes it sent (`RequestsBelong`), that a save belongs
to a tab that has loaded (`TabsInOrder`), and that everything a tab has of the server, payload, synced
workspace and the answer on its way, is either older than the file or is the file
(`KnowledgeIsSound`). Callbacks are proved once, as lemmas about the record of a tab; a tab's step
then preserves the invariant if it leaves a `GoodTab` (`TabStepInv`, `QuietTabInv`).

`Bridge_proofs` proves, for any browsers, sockets, sends and images. `BridgeInv` is inductive without any
assumption on the browsers: types, `Entered` and `Used` (what the maps and the sockets refer to), `LockHasSend`. From it follow

- `BridgeLockHasSend`, and `BridgeKeepsSafety`: each step of the bridge is a step of the coordinator's `SafetySpec` or leaves
  it alone, so that `BridgeQualifiedTransfer` is the coordinator's theorem over again.
- For `Polite` browsers, `PoliteInv` adds that a browser has one send (`Alone`), whose runner the browser's map entry knows
  (`Known`), whose socket refers back to it (`Wired`), and that hears from the socket its browser uses unless a close
  event is pending (`Attached`), and that user profiles hold the lock (`ProfilesLocked`): `BridgeSendOwnsSocket`,
  `BridgeClosedBrowserHoldsNothing`, `BridgeLockOutlivesSend`. The operations are used through rows (`EndRow`,
  `UpRow`, `DialRow`, `StartRow`) that say what a step does to one send and one socket.

`ControllerSession_proofs` proves, for any sockets, ticks, attempts and users: `SessionCompareInTime` (`Within` ties the age of a
session to its phase, attempts and ticks: a handshake that is repeated has used exactly its ticks),
`SessionVerdictOverLiveSocket`, `SessionWaitsForSomething` (the browser's wait and the running session on one of its sockets
begin and end together), `SessionSentMeansTranscript` (the frames written are a prefix of the transcript, which the
runner's place in it determines).

`MCLinks_proofs` proves the invariants and action properties of `links`, each part with an invariant of its own: `LinkInv` for any
sockets, requests and messages under way (`LinksSocketsFit`, `LinksRecoveryIsOwn`, `LinksDialogEndsByAnswer`); `BeatInv` for any lengths of the
heartbeat its constructor accepts, `FindInv` for any hosts and workers, `FeedInv` for any channels, levels, closes and dials
(`LinksServiceFits`).

`MCEditing_proofs` and `MCWorkspace_proofs` prove, for any channels, items, scenes, rooms and switches and any number of edits:

- `WorkspaceLatestIsSent`, with `DimInv`: the latest setting has been sent, or it is what waits for the timer.
- `WorkspaceKeysUnique` and `WorkspaceEquipmentKept`, with `GearInv`: tags and IDs, live and deleted, are apart although an ID is
  one above the highest *in use*; references are followed to what they refer to.
- `WorkspaceOrderHolds`: `RanksFit` is only about types, because ranks may be equal or missing. That `Dense` numbers the siblings
  0, 1, ... is a counting argument (an injective rank into 0..n-1 is onto, so the place of a scene *is* its rank), and
  swapping two adjacent ranks then moves one scene one place. The addresses of modules are positions in a
  sequence, `ModulesFit` says that it names each module once.
- `WorkspaceEntitiesFit`, with `UtilityInv`: buttons are told apart by switch and slot, also those left without a scene, so that a
  utility assigns none twice; IDs of scenes are apart, also from those in the bin, and *a scene leads to a higher
  ID* (`LeadsOn`), which deletion, restoration and the reuse of IDs keep. So a walk along `next` climbs, and in
  a finite set it cannot climb forever (`WalkEnds`, by the pigeonhole principle).
- `WorkspaceIsWhole` and `WorkspaceContentsKept`, with `SitesInv` of `Workspace_proofs`, for any site IDs, archives and numbers of
  sites, configurations, edits and imports at a time. `ImportsFit` says of an import under way that the site it found had
  the ID of its archive: all that is known of it, since it need not be there any more. What an import keeps of a site
  is proved of the sites that are still as it found them (`ImportKeeps`). The same theorem of entities shows that what is selected can be saved and that its backup
  restores it, as long as no two sites have one ID; and that the migrations are right, by `MigrationsHold` of
  the same module.

`Workspace_proofs` holds what these two need. Every operation on sites and configurations makes a view, flattens the tree into
it and builds the tree again, so what an operation keeps can only be said with what the tree and the view have in common.
`SitesInv` says so in three parts besides the types, none of which can be left out:

- `ViewInv`: every configuration is of a site and every site has one; configurations of one ID are the same; only the active one,
  which is of the site that is shown, has its content on top of the view;
- `Ordered`: configurations stand in blocks, one for each site and in the order of the sites, and only sites that share an ID
  show anything twice. (Sites may share one: an import keeps the ID of its archive.) A block can then be cut out and put back;
- `TagsTell`: what tells two sites apart is not given out twice, except to sites of one ID, which are overwritten together.

The sequences are taken apart with `Only` and `Joins` (what a selection leaves of a sequence, and of one appended to another),
and each operation is one lemma about the sets of sites and configurations, whatever their order.

The library's induction theorems cannot be instantiated, so where these proofs need induction over numbers they use the
least-number principle for sets (`Smallest`, from `WFMin`, and `CountUp`, which is induction up to a number for a set). Recursive
functions exist, and have their elements, by it too (`StepsExist`, `OnlySteps`, `FlattenSteps`, `WalkExists`).

`Workspace_proofs` also proves `MigrationsAreRight`, for any rooms, module orders, scenes, rows, users, codes, connections, keys and hashes
that `MigrationAssumption` allows: what a load does to an older workspace is right, and doing it again changes nothing. Each kind of input has its own argument:

- *rooms, channels*: a room whose floor names another gets the same parent by either pass; readdressed channels keep their modules, so their
  sorted positions, and with at most eight channels to a module an address that is right has not the signature of the older importer.
- *scenes*: `Walks` says, group by group along a path, what has been made: the groups that were there stay, each path has one ID,
  that of a group that is there, and so is the parent of a group that was made. `Found` adds, scene by scene, that a scene has
  a group that is there, and one that was lost the group of its path. The second pass then finds every scene's group
  (`SettledStay`).
- *keys*: `Holds` says of the hash table that it has the keys inserted so far, each in one bucket and with the place of its
  first insertion, and no more entries than keys. A free bucket is found because linear probing reaches every bucket
  (`EveryBucket`, by arithmetic modulo the size) and the entries are fewer than the buckets when one is added. Growing
  inserts the same entries into an empty, larger table (`RehashedIs`). `OrderListsKeys` reads the order off the table, and `RankIs`
  gives each channel the place of its key.
- *rows, users, codes, connections*: the second pass finds nothing left to do, or the same as the first.

Only model-checked:

- `WorkspaceFits` (the archive) and `CompiledRight`: what folds, sorts and
  `SelectSeq` with operators for arguments compute over data, which would need induction over it. `ProfileRight`, besides, counts repetitions, and
  holds only of access lists that repeat nothing, as those of the run.
- `Terminates`, `LockIsReleased`, `EditIsSettled`, `SendEnds`, `RecoverySettles`, `PairDiesTogether`, `WholeOrNothing` and
  `ChainsEnd` are liveness under fairness.

## 6. Not modelled

`PROJECT.json` lists every component with its status and every
known hazard with the properties that cover it or the reason none does. Left out:

- the scan of bytes for status records, escaping, CRC and WebSocket frames: pure functions over bytes with tests of their
  own; the models deliver whole records and frames, cut anywhere a reader can tell;
- origin and token checks, and the dim, switch and scene commands of the bridge, which change none of its state;
- in the compiler: users, periods, the sun table and the bytes of single fields; floating-point astronomy is out of TLC's
  reach;
- in the archive: users, periods, flags, settings of single fields, the text documents and the property-list bytes;
- renaming a configuration, the toasts, rendering, wording and styling, build and deployment files, and the development
  tools.
