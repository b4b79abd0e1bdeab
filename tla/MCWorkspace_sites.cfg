SPECIFICATION MCSpec
CONSTANTS
    SiteIds = {0, 2}
    Archives <- MCArchives
    SitesMax = 3
    ConfigsMax = 3
    EntriesMax = 3
    UpdatesMax = 1
    ImportsMax = 1
    EditsMax = 2
    MadeMax = 4
    ModuleIds = {1, 2, 3}
    Lights = {1, 2}
    IndexMax = 2
    ChangesMax = 3
    Channels <- MCChannels
    Levels = {0, 60, 100}
    SetsMax = 3
    SceneIds = {1, 2, 3}
    SceneRules <- MCSceneRules
    PressMax = 2
    SceneCount = 3
    Ranks = {0, 5}
    SceneLevels = {50, 80}
    SceneEditsMax = 1
    RoomOrder <- MCRoomOrder
    Plates <- MCPlates
    Slots <- MCSlots
    ExtractorCount = 2
    StepCount = 2
    ControlCount = 2
    TriggerCount = 1
    UsesMax = 2
    RemovalsMax = 1
    SceneSlots = 6
    Addresses = 2
    Buttons = 2
    OffsetWidth = 80
    Modes = {1, 2, 5}
    SceneLists <- MCSceneLists
    SwitchLists <- MCSwitchLists
    Assignments <- MCAssignments
    RoomLists <- MCRoomLists
    SwitchChoices <- MCSwitchChoices
    ChannelSets <- MCChannelSets
    RawAccess <- MCRawAccess
    Selections <- MCSelections
    RoomTables <- MCRoomTables
    ModuleOrders <- MCModuleOrders
    Indexes = {1, 8}
    SceneTables <- MCSceneTables
    PeriodTables <- MCPeriodTables
    PeriodRows = 2
    FlagRows = 2
    UserTables <- MCUserTables
    CodeTables <- MCCodeTables
    Copies <- MCCopies
    KeyOrders <- MCKeyOrders
    Hashes <- MCHashes
    TableSizes <- MCTableSizes
    TableCapacities <- MCTableCapacities
    Files <- MCFiles
    ButtonSlots = {1, 2}
    FileEditsMax = 2
PROPERTY ConfigurationsKept
CHECK_DEADLOCK FALSE
