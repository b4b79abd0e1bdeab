---------------------------- MODULE MCWorkspace ----------------------------
(***************************************************************************)
(* The parts of the editor that work on the open workspace, which share no *)
(* state in the model: one run checks all of them, and the initial state   *)
(* says which part moves.  The others stay as they are.                    *)
(***************************************************************************)
EXTENDS Integers, Sites, Migrations

CONSTANTS
    MadeMax,
    ModuleIds, Lights, IndexMax, ChangesMax,
    Channels, Levels, SetsMax,
    SceneIds, SceneRules, PressMax,
    SceneCount, Ranks, SceneLevels, SceneEditsMax,
    RoomOrder, Plates, Slots, ExtractorCount, StepCount, ControlCount, TriggerCount,
    UsesMax, RemovalsMax,
    SceneSlots, Addresses, Buttons, OffsetWidth, Modes, SceneLists, SwitchLists, Assignments,
    RoomLists, SwitchChoices, ChannelSets, RawAccess, Selections,
    Files, ButtonSlots, FileEditsMax

VARIABLES
    part,
    items, deleted, bin, selected, count,
    modules, outputs, dropped, changes,
    shown, sent, pending, timer, flashes, latest, sets,
    rules, last, flagged, timers, presses,
    places, locked, levels, changed,
    scenes, binned, groups, buttons, uses, removals,
    doc, trips,
    config, data

gearVars == <<items, deleted, bin, selected, count>>
moduleVars == <<modules, outputs, dropped, changes>>
dimVars == <<shown, sent, pending, timer, flashes, latest, sets>>
runVars == <<rules, last, flagged, timers, presses>>
sceneVars == <<places, locked, levels, changed>>
utilityVars == <<scenes, binned, groups, buttons, uses, removals>>
archiveVars == <<doc, trips>>
vars == <<part, sitesVars, gearVars, moduleVars, dimVars, runVars, sceneVars, utilityVars,
          archiveVars, config, data, old>>

Gear == INSTANCE Equipment
Order == INSTANCE ModuleOrder
Dims == INSTANCE DimThrottle
Run == INSTANCE SceneRun
Scenes == INSTANCE SceneOrder
Utilities == INSTANCE SceneUtilities
Image == INSTANCE CompileConfig
Profiles == INSTANCE UserProfiles WITH SwitchLists <- SwitchChoices
Archive == INSTANCE Archive

ASSUME WorkspaceAssumption ==
    /\ SitesAssumption /\ Gear!EquipmentAssumption /\ Order!OrderAssumption
    /\ Dims!ThrottleAssumption /\ Run!SceneAssumption /\ Scenes!OrderAssumption
    /\ Utilities!UtilityAssumption /\ Image!CompileAssumption
    /\ Profiles!ProfileAssumption /\ MigrationAssumption
    /\ Archive!ArchiveAssumption

-----------------------------------------------------------------------------
(* Inputs *)

\* An archive of another site than the starter, with the starter's name for its
\* configuration: the site it finds is one made, renamed, or imported before.
MCArchives == {[id |-> 2, code |-> FALSE, name |-> "Home"]}

\* Channels of the throttle.
MCChannels == <<1, 2>>

\* Scenes that extend one another, follow one another, and test.
Rule(extender, first, next, fresh, previous, flag) ==
    [extender |-> extender, extenderFirst |-> first, next |-> next, fresh |-> fresh,
     previous |-> previous, flag |-> flag]
PlainRule == Rule(0, FALSE, 0, FALSE, 0, "none")
MCSceneRules ==
    {Rule(0, FALSE, 1, FALSE, 0, "none"), Rule(0, FALSE, 2, TRUE, 0, "none"),
     Rule(0, FALSE, 3, FALSE, 0, "none"), Rule(1, TRUE, 2, FALSE, 0, "none"),
     Rule(3, FALSE, 1, FALSE, 0, "none"), Rule(0, FALSE, 3, FALSE, 1, "set"),
     Rule(0, FALSE, 1, FALSE, 0, "require-set")}

\* Two rooms with switches, of which the first has no Basic Assignments.
MCRoomOrder == <<1, 2, 3>>
Plate(id, room, basic) == [id |-> id, room |-> room, basic |-> basic]
MCPlates == <<Plate(1, 2, FALSE), Plate(2, 2, TRUE), Plate(3, 1, TRUE)>>
MCSlots == <<1, 3>>

\* Scenes and switches of an image: with and without channels, links, numbers.
Lists(S) == {<<>>} \cup {<<x>> : x \in S}
CompiledScene(id, channels, next) ==
    [id |-> id, channels |-> channels, next |-> next, mode |-> 1]
ScenesOf(id) == {CompiledScene(id, channels, next) :
                   channels \in {<<>>, <<1, 2>>}, next \in {0, 1}}
MCSceneLists ==
    Lists(ScenesOf(1)) \cup {<<s, t>> : s \in ScenesOf(1), t \in ScenesOf(2)}
Groupings == {[kind \in 1..4 |-> {1, 2}], [kind \in 1..4 |-> {kind}],
              [kind \in 1..4 |-> IF kind < 3 THEN {} ELSE {1, 2}]}
SwitchesOf(id) == {[id |-> id, number |-> n, ids |-> <<1, 2>>, answers |-> a] :
                     n \in 0..3, a \in Groupings}
MCSwitchLists ==
    Lists(SwitchesOf(1)) \cup {<<s, t>> : s \in SwitchesOf(1), t \in SwitchesOf(2)}
Pressed(switch, button, scene) == [switch |-> switch, button |-> button, scene |-> scene]
MCAssignments == {{}, {Pressed(1, 1, 1)}, {Pressed(1, 1, 2), Pressed(2, 2, 1)}}

\* Rooms and switches of a profile, with and without the key of an import.
Keyed(id, key) == [id |-> id, key |-> key]
MCRoomLists == {<<Keyed(1, a), Keyed(2, b)>> : a \in {0, 11}, b \in {0, 12}}
RoomSwitch(id, key, room) == [id |-> id, key |-> key, room |-> room]
MCSwitchChoices == {<<RoomSwitch(1, a, 1), RoomSwitch(2, b, room)>> :
                      a \in {0, 21}, b \in {0, 22}, room \in {1, 2}}
Output(room, hardware) == [room |-> room, hardware |-> hardware]
MCChannelSets == {{}, {Output(1, 0), Output(2, 3)}, {Output(1, 999)}}
MCRawAccess == {<<>>, << <<11>> >>, << <<11, 21>> >>, << <<11, 21>>, <<12, 22>> >>,
                << <<11, 22>> >>, << <<12, 99>> >>}
\* The last one is Untouched of UserProfiles.
MCSelections == [rooms : SUBSET {1, 2}, switches : SUBSET {1, 2}]
                  \cup {[rooms |-> {0}, switches |-> {0}]}

\* Parts of older workspaces: floors with and without a room, modules in any
\* order, scenes of shared paths, rows that hold flags or not, profiles with
\* access lists that can be resolved, and keys enough to fill a table.
OldRoom(id, name, floor, parent) ==
    [id |-> id, name |-> name, floor |-> floor, parent |-> parent]
MCRoomTables ==
    {<<OldRoom(1, "Ground", f, 0), OldRoom(2, "Hall", g, p), OldRoom(3, n, "Ground", 0)>> :
       f \in {"", "Ground", "Hall"}, g \in {"Ground", "Attic", "FlexiDim"},
       p \in {0, 3}, n \in {"Ground", "Bath"}}
MCModuleOrders == {s \in UNION {[1..n -> 1..4] : n \in 0..4} :
                     \A i, j \in DOMAIN s : s[i] = s[j] => i = j}
FoundScene(group, path) == [group |-> group, path |-> path]
FoundScenes == {FoundScene(0, <<"A">>), FoundScene(0, <<"A", "B">>), FoundScene(0, <<"B">>),
              FoundScene(2, <<"A">>), FoundScene(7, <<"A", "B">>)}
MCSceneTables ==
    {[groups |-> g, scenes |-> s] :
       g \in {<<>>, <<[id |-> 2, name |-> "A", parent |-> 0]>>},
       s \in UNION {[1..n -> FoundScenes] : n \in 0..3}}
MCPeriodTables ==
    {[periods |-> p, flags |-> f] :
       p \in UNION {[1..n -> {"p", "q", "blank"}] : n \in 0..4},
       f \in {<<>>, <<"f">>, <<"blank", "g">>}}
MCUserTables ==
    {[rooms |-> <<[id |-> 1, key |-> k], [id |-> 2, key |-> 12]>>,
      switches |-> <<[id |-> 1, key |-> 21]>>,
      users |-> <<[status |-> s, access |-> a, rooms |-> r, switches |-> <<>>]>>] :
       k \in {11, 12}, s \in {"imported", "pending", "current"},
       a \in {<<>>, << <<11>> >>, << <<12, 21>>, <<12>> >>, << <<13>> >>}, r \in {<<>>, <<2>>}}
MCCodeTables ==
    {[modules |-> m, hardware |-> h, code |-> c,
      top |-> [n \in 1..35 |-> IF n = at THEN "code" ELSE "text"]] :
       m \in 0..2, h \in 0..2, c \in {"", "text", "code"}, at \in 32..35}
OldSites == [id : {1, 2}, ip : {"", "a", "b"}, port : {0, 80, 70000}, auto : BOOLEAN,
             code : {"", "c"}]
MCCopies == [server : {s \in OldSites : s.id = 1 /\ s.port = 80}, browser : OldSites]
MCKeyOrders == {<<1>> \o keys : keys \in [1..3 -> 1..4]} \cup {<<>>}
MCHashes == [1..4 -> 0..2]
MCTableSizes == <<0, 3, 7>>
MCTableCapacities == <<0, 3, 6>>

\* Archives: rooms in rooms and in the bin, channels in a room, in the bin and
\* in another channel, modules that are not sorted; scenes in a group, outside,
\* in the bin, and in a group that is in the bin; a button with a scene and
\* one with what is none.
Hardware(id, key, type, pr, module) ==
    [id |-> id, key |-> key, type |-> type, pr |-> pr, module |-> module]
SceneRow(id, key, folder, pr, next, channels) ==
    [id |-> id, key |-> key, folder |-> folder, pr |-> pr, next |-> next,
     channels |-> channels]
MCFiles ==
    {[modules |-> <<5, 3>>,
      hardware |-> <<Hardware(1, 2, "room", 0, 0), Hardware(2, 4, "room", 2, 0),
                     Hardware(3, 5, "channel", 4, 3), Hardware(4, 7, "channel", -4, 5)>>,
      scenes |-> <<SceneRow(11, 10, TRUE, 0, 0, <<>>), SceneRow(12, 3, FALSE, 10, 9, <<7, 5>>),
                   SceneRow(13, 9, FALSE, 10, 0, <<5>>), SceneRow(14, 1, FALSE, -4, 0, <<>>)>>,
      buttons |-> <<3, 99>>],
     [modules |-> <<5>>,
      hardware |-> <<Hardware(1, 2, "room", 0, 0), Hardware(2, 4, "room", -4, 0),
                     Hardware(3, 5, "channel", 6, 3), Hardware(4, 6, "channel", 2, 5)>>,
      scenes |-> <<SceneRow(11, 10, TRUE, -4, 0, <<>>), SceneRow(12, 3, FALSE, 10, 0, <<5>>),
                   SceneRow(13, 9, FALSE, 0, 0, <<6>>)>>,
      buttons |-> <<9, 0>>]}

-----------------------------------------------------------------------------
Parts == {"sites", "gear", "modules", "dims", "run", "scenes", "utilities", "image",
          "profiles", "old", "archive"}

\* A part that does not move has one initial state.
MCInit ==
    /\ part \in Parts
    /\ SitesInit /\ Gear!EquipmentInit /\ Order!OrderInit /\ Dims!ThrottleInit
    /\ Utilities!UtilityInit
    /\ IF part = "run" THEN Run!SceneInit /\ Run!FreshEnds
       ELSE rules = [s \in SceneIds |-> PlainRule] /\ last = 0 /\ flagged = FALSE
            /\ timers = <<>> /\ presses = 0
    /\ IF part = "scenes" THEN Scenes!SceneOrderInit
       ELSE /\ places = [s \in 1..SceneCount |-> [group |-> 1, rank |-> s]] /\ locked = {}
            /\ levels = [s \in 1..SceneCount |-> 50] /\ changed = 0
    /\ IF part = "image" THEN Image!CompileInit
       ELSE config = [scenes |-> <<>>, switches |-> <<>>, assignments |-> {}]
    /\ IF part = "profiles" THEN Profiles!ProfileInit ELSE data = <<>>
    /\ IF part = "old" THEN MigrationInit ELSE old = <<>>
    /\ IF part = "archive" THEN Archive!ArchiveInit ELSE doc = <<>> /\ trips = 0

MCNext ==
    /\ UNCHANGED <<part, config, data, old>>
    /\ \/ part = "sites" /\ SitesNext
       \/ part # "sites" /\ UNCHANGED sitesVars
    /\ \/ part = "gear" /\ Gear!EquipmentNext
       \/ part # "gear" /\ UNCHANGED gearVars
    /\ \/ part = "modules" /\ Order!OrderNext
       \/ part # "modules" /\ UNCHANGED moduleVars
    /\ \/ part = "dims" /\ Dims!ThrottleNext
       \/ part # "dims" /\ UNCHANGED dimVars
    /\ \/ part = "run" /\ Run!SceneNext
       \/ part # "run" /\ UNCHANGED runVars
    /\ \/ part = "scenes" /\ Scenes!SceneOrderNext
       \/ part # "scenes" /\ UNCHANGED sceneVars
    /\ \/ part = "utilities" /\ Utilities!UtilityNext
       \/ part # "utilities" /\ UNCHANGED utilityVars
    /\ \/ part = "archive" /\ Archive!ArchiveNext
       \/ part # "archive" /\ UNCHANGED archiveVars

MCSpec ==
    MCInit /\ [][MCNext]_vars /\ WF_runVars(part = "run" /\ Run!NextScene)

-----------------------------------------------------------------------------
(* What the run checks: the properties of the parts, several taken together *)

\* Archive: edits survive an export and an import (exportLegacyConfig,
\* importConfig in app/page.tsx; app/fd4cfg-export.ts).
WorkspaceFits == part = "archive" => Archive!EditsReturn

\* Migrations: what was older is whole and right afterwards.  Sites: what the
\* editor shows can be saved and restored.  Equipment: what is deleted can be
\* told apart.  Utilities: scenes, groups, buttons and bin fit one another, and
\* generated sequences end (restoreAreaHierarchy and moveToDeleted in
\* app/page.tsx, canonicalizeAppData in app/fd4cfg.ts, app/scene-utilities.ts).
EntitiesFit ==
    /\ part = "old" => MigrationsRight
    /\ part = "sites" => SavesAndRestores
    /\ part = "gear" => Gear!KeysUnique
    /\ part = "utilities" => Utilities!UtilitiesFit /\ Utilities!SequencesEnd

\* Sites: no content of a configuration and no site gets lost or mixed up, nor
\* the address and code of a site that is as it was when an import of its
\* archive began (updateSite, selectSite, importConfig and the like in
\* app/page.tsx, mergeImportedSite in app/fd4cfg.ts).
ContentsKept ==
    [][part = "sites" => /\ KeepsContents /\ KeepsSites
                         /\ NamedKeepConfigurations]_vars

\* Equipment: no area, channel, switch or scene is lost by a deletion or a
\* restoration, and a deletion cleans every reference (moveToDeleted,
\* deleteConfigEntity).
EquipmentKept == [][part = "gear" => Gear!KeepsEquipment /\ Gear!KeepsValid]_vars

\* ModuleOrder and SceneOrder: a reordering addresses every channel afresh,
\* and a scene moves one place (moveModule, moveScene, reparentScene).
OrderHolds ==
    [][/\ part = "modules" => Order!ReorderAddresses
       /\ part = "scenes" => Scenes!MoveIsOnePlace]_vars

\* DimThrottle: the last setting reaches the controller (transmitDim).
LatestIsSent == part = "dims" => Dims!LatestIsSent

\* SceneRun: circles of scenes end (runScene).
ChainsEnd == Run!ChainsEnd

\* CompileConfig: references of the image lead where they should.
\* UserProfiles: a complete profile gives what is selected.
CompiledRight ==
    /\ part = "image" => Image!ImageRight
    /\ part = "profiles" => Profiles!ProfileRight

\* DimThrottle, as page.tsx says: the final resting value is always sent.
RestingLevelSent == part = "dims" => Dims!RestingLevelSent

\* SceneOrder, as page.tsx says: a locked scene stays read-only everywhere.
LockedIsReadOnly == [][part = "scenes" => Scenes!KeepsLocked]_vars

\* Sites, as fd4cfg.ts says: the configurations that are not active are
\* snapshotted, and go only when they are deleted or replaced.
ConfigurationsKept == [][part = "sites" => KeepsConfigurations]_vars

\* Sites, as the prompt of an import says: the controller address in use is
\* kept (importConfig in app/page.tsx).
AddressKept == [][part = "sites" => KeepsAddress]_vars

\* SceneUtilities, as the prompt says: the created scenes are put on buttons
\* that are not in use (assignToFreeButtons in app/scene-utilities.ts).
PromptFillsUnused == [][part = "utilities" => Utilities!PromptFillsUnused]_vars

\* Archive, as compile-config.ts says: one entry of the image per channel a
\* scene drives.
ImageHoldsScenes == part = "archive" => Archive!ImageHoldsScenes

\* Archive, as the test of the export says: the order of the modules survives.
ModulesReturn == part = "archive" => Archive!ModulesReturn
=============================================================================
