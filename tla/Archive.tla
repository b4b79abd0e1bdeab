------------------------------- MODULE Archive -------------------------------
(***************************************************************************)
(* The round trip of a configuration through the iOS archive, between      *)
(* edits: buildLegacyArchive (app/fd4cfg-export.ts) writes it,             *)
(* convertLegacyArchive (app/fd4cfg.ts) and restoreAreaHierarchy           *)
(* (app/page.tsx) read it.  In the archive objects have keys, and parents  *)
(* and links are keys; what the editor holds has IDs, and keeps with every *)
(* imported object its key and what the archive said of it, its bag.       *)
(*                                                                         *)
(* IDs are the numbers of the model: an import counts its own, which stand *)
(* for the same objects.  One wall switch; texts and ranks are left out.   *)
(***************************************************************************)
EXTENDS Integers, Sequences, FiniteSets, FiniteSetsExt, SequencesExt

CONSTANTS
    Files,        \* inputs: archives
    ButtonSlots,  \* logical buttons of the switch
    FileEditsMax  \* bound of the model: edits, and trips through the archive

VARIABLES
    doc,       \* the open configuration
    trips      \* history: edits and trips counted for the bound

archiveVars == <<doc, trips>>

Bin == -4      \* the key of the root of what was deleted on iOS
Unset == -1    \* of an object that was not imported, and has no bag
              \* 0 stands for no object, no key, no parent, no link

Every(s, f(_)) == [n \in DOMAIN s |-> f(s[n])]
IdSet(s) == {s[n].id : n \in DOMAIN s}
KeySet(s) == {s[n].key : n \in DOMAIN s}
Object(s, id) == s[SelectInSeq(s, LAMBDA x : x.id = id)]
ByKey(s, key) == s[SelectInSeq(s, LAMBDA x : x.key = key)]

\* The ID of the object with this key, 0 if there is none.
IdOf(s, key) == IF key \in KeySet(s) THEN ByKey(s, key).id ELSE 0

\* Up a chain of parents as far as it goes, or to what is looked for; a circle
\* ends where every object of it was seen.
Ascend(start, found(_), up(_), length) ==
    FoldLeft(LAMBDA key, n : IF key <= 0 \/ found(key) THEN key ELSE up(key),
             start, [n \in 1..length |-> n])

ArchiveAssumption ==
    /\ FileEditsMax \in Nat
    /\ \A f \in Files : /\ f.hardware # <<>> /\ f.buttons \in [ButtonSlots -> Int]
                        /\ Cardinality(KeySet(f.hardware \o f.scenes))
                             = Len(f.hardware) + Len(f.scenes)

-----------------------------------------------------------------------------
(* Import *)

\* isDeletedScene: a chain of parents that ends in the bin.
Deleted(file, s) ==
    Ascend(s.pr, LAMBDA key : FALSE,
           LAMBDA key : IF key \in KeySet(file.scenes) THEN ByKey(file.scenes, key).pr ELSE 0,
           Len(file.scenes)) = Bin

\* parentRoomId: through whatever is in between; the first room if there is none.
RoomAbove(file, rooms, pr) ==
    LET above == Ascend(pr, LAMBDA key : key \in KeySet(rooms),
                        LAMBDA key : IF key \in KeySet(file.hardware)
                                     THEN ByKey(file.hardware, key).pr ELSE 0,
                        Len(file.hardware))
    IN  IF above \in KeySet(rooms) THEN IdOf(rooms, above) ELSE rooms[1].id

Folders(file) == SelectSeq(file.scenes, LAMBDA x : x.folder /\ ~Deleted(file, x))
Leaves(file) == SelectSeq(file.scenes, LAMBDA x : ~x.folder)

\* mapScene: the channels that are known, in the order of their slots.
SceneOf(file, s) ==
    LET known == SelectSeq(s.channels, LAMBDA key : IdOf(file.hardware, key) # 0)
        order == Every(known, LAMBDA key : IdOf(file.hardware, key))
    IN  [id |-> s.id, group |-> IdOf(Folders(file), s.pr), next |-> IdOf(Leaves(file), s.next),
         levels |-> ToSet(order), order |-> order,
         key |-> s.key, pr |-> s.pr, slots |-> s.channels]

\* The modules in the order stored, and then as channels name them.
ModulesOf(file, channels) ==
    FoldLeft(LAMBDA found, c : IF c.module \in ToSet(found) THEN found
                               ELSE Append(found, c.module),
             file.modules, channels)

Converted(file) ==
    LET rooms == SelectSeq(file.hardware, LAMBDA x : x.type = "room")
        channels == SelectSeq(file.hardware, LAMBDA x : x.type = "channel")
        scenes(list) == Every(list, LAMBDA s : SceneOf(file, s))
    IN  [rooms |-> Every(rooms, LAMBDA r : [id |-> r.id, parent |-> IdOf(rooms, r.pr),
                                            key |-> r.key, pr |-> r.pr]),
         channels |-> Every(channels, LAMBDA c :
                        [id |-> c.id, room |-> RoomAbove(file, rooms, c.pr),
                         module |-> c.module, key |-> c.key, pr |-> c.pr]),
         groups |-> Every(Folders(file), LAMBDA g :
                      [id |-> g.id, parent |-> IdOf(Folders(file), g.pr),
                       key |-> g.key, pr |-> g.pr]),
         scenes |-> scenes(SelectSeq(Leaves(file), LAMBDA s : ~Deleted(file, s))),
         deleted |-> scenes(SelectSeq(Leaves(file), LAMBDA s : Deleted(file, s))),
         buttons |-> [slot \in ButtonSlots |-> IdOf(Leaves(file), file.buttons[slot])],
         raw |-> file.buttons,
         modules |-> ModulesOf(file, channels), stored |-> file.modules,
         hardwareOrder |-> Every(file.hardware, LAMBDA x : x.key),
         sceneOrder |-> Every(file.scenes, LAMBDA x : x.key)]

Ids(d) == UNION {IdSet(d.rooms), IdSet(d.channels), IdSet(d.groups), IdSet(d.scenes),
                 IdSet(d.deleted)}
NewId(d) == Max({0} \cup Ids(d)) + 1

\* restoreAreaHierarchy: scenes without a group come into a new one, "Scenes".
Restored(d) ==
    IF \A n \in DOMAIN d.scenes : d.scenes[n].group # 0 THEN d
    ELSE [d EXCEPT !.groups = Append(@, [id |-> NewId(d), parent |-> 0, key |-> 0, pr |-> Unset]),
                   !.scenes = Every(@, LAMBDA s :
                                IF s.group # 0 THEN s ELSE [s EXCEPT !.group = NewId(d)])]

Imported(file) == Restored(Converted(file))

\* validateConfigContent: importConfig refuses links to scenes that are not there.
Valid(d) ==
    /\ \A n \in DOMAIN d.scenes : d.scenes[n].next \in {0} \cup IdSet(d.scenes)
    /\ \A slot \in ButtonSlots : d.buttons[slot] \in {0, Unset} \cup IdSet(d.scenes)

-----------------------------------------------------------------------------
(* Export *)

\* assignKeys: objects without a key get the lowest ones that nobody has.
Keys(d) ==
    LET objects == Every(d.rooms \o d.channels, LAMBDA x : [id |-> x.id, key |-> x.key])
                     \o Every(d.groups, LAMBDA x : [id |-> x.id, key |-> x.key])
                     \o Every(d.scenes \o d.deleted, LAMBDA x : [id |-> x.id, key |-> x.key])
        used == KeySet(objects) \ {0}
        kth(k) == CHOOSE key \in 1..(k + Cardinality(used)) :
                     key \notin used /\ Cardinality((1..key) \ used) = k
        new(n) == Cardinality({m \in 1..n : objects[m].key = 0})
    IN  [id \in IdSet(objects) |->
           LET n == SelectInSeq(objects, LAMBDA x : x.id = id)
           IN  IF objects[n].key # 0 THEN objects[n].key ELSE kth(new(n))]

\* The key of what is in this list, 0 when it no longer is.
KeyIn(s, keys, id) == IF id \in IdSet(s) THEN keys[id] ELSE 0

\* Faulty variant: the parent of the bag stays, wherever the object was moved.
HardwareParentOfBag(d, keys, pr, room) == IF pr = Unset THEN room ELSE pr

\* hardwareParent: the parent of the bag, when it leads to the room the object
\* is in, and when it leads to none and the object is in the first one.
HardwareParent(d, keys, pr, room) ==
    LET roomKeys == {keys[id] : id \in IdSet(d.rooms)}
        bag == [key \in {keys[id] : id \in IdSet(d.rooms \o d.channels)} |->
                  Object(d.rooms \o d.channels, CHOOSE id \in DOMAIN keys : keys[id] = key).pr]
        above == Ascend(pr, LAMBDA key : key \in roomKeys,
                        LAMBDA key : IF key \in DOMAIN bag THEN bag[key] ELSE 0,
                        Cardinality(DOMAIN bag))
    IN  IF pr = Unset THEN room
        ELSE IF above \in roomKeys THEN IF above = room THEN pr ELSE room
        ELSE IF room \in {pr, keys[d.rooms[1].id]} THEN pr ELSE room

\* In the order of the archive, and what is new behind it.
InOrder(objects, order) ==
    FlattenSeq(Every(order, LAMBDA key : SelectSeq(objects, LAMBDA x : x.key = key)))
      \o SelectSeq(objects, LAMBDA x : x.key \notin ToSet(order))

Hardware(d, keys) ==
    LET room(r) == [id |-> r.id, key |-> keys[r.id], type |-> "room", module |-> 0,
                    pr |-> HardwareParent(d, keys, r.pr, KeyIn(d.rooms, keys, r.parent))]
        channel(c) == [id |-> c.id, key |-> keys[c.id], type |-> "channel",
                       module |-> c.module,
                       pr |-> HardwareParent(d, keys, c.pr, KeyIn(d.rooms, keys, c.room))]
    IN  InOrder(Every(d.rooms, room) \o Every(d.channels, channel), d.hardwareOrder)

\* The channels of a scene: in the order of its slots, and what is new behind it.
ExportedChannels(d, keys, s) ==
    LET key(id) == KeyIn(d.channels, keys, id)
        old == SelectSeq(s.slots, LAMBDA k : k # 0 /\ \E id \in s.levels : key(id) = k)
        new == {id \in s.levels : key(id) \notin ToSet(old)}
    IN  old \o Every(SetToSortSeq(new, <), key)

SceneParent(d, keys, s, isDeleted) ==
    IF isDeleted THEN IF s.pr = Unset THEN Bin ELSE s.pr
    ELSE IF s.group # 0 THEN KeyIn(d.groups, keys, s.group)
    ELSE IF s.pr = Unset THEN 0 ELSE s.pr

SceneObject(d, keys, s, isDeleted) ==
    [id |-> s.id, key |-> keys[s.id], folder |-> FALSE,
     next |-> KeyIn(d.scenes \o d.deleted, keys, s.next),
     channels |-> ExportedChannels(d, keys, s), pr |-> SceneParent(d, keys, s, isDeleted)]

GroupObject(d, keys, g) ==
    [id |-> g.id, key |-> keys[g.id], folder |-> TRUE, next |-> 0, channels |-> <<>>,
     pr |-> IF g.parent # 0 THEN KeyIn(d.groups, keys, g.parent) ELSE Max({0, g.pr})]

SceneTable(d, keys) ==
    InOrder(Every(d.groups, LAMBDA g : GroupObject(d, keys, g))
              \o Every(d.scenes, LAMBDA s : SceneObject(d, keys, s, FALSE))
              \o Every(d.deleted, LAMBDA s : SceneObject(d, keys, s, TRUE)),
            d.sceneOrder)

\* switchObject: a slot of the bag stays, unless it names a scene that is known.
ExportedButton(d, keys, slot) ==
    IF d.buttons[slot] # 0 THEN KeyIn(d.scenes \o d.deleted, keys, d.buttons[slot])
    ELSE IF d.raw[slot] \in {keys[id] : id \in IdSet(d.scenes \o d.deleted)} THEN 0
    ELSE d.raw[slot]

Exported(d) ==
    LET keys == Keys(d)
    IN  [modules |-> d.stored,     \* site.moduleOrderA and B
         hardware |-> Hardware(d, keys), scenes |-> SceneTable(d, keys),
         buttons |-> [slot \in ButtonSlots |-> ExportedButton(d, keys, slot)]]

Returned(d) == Imported(Exported(d))

-----------------------------------------------------------------------------
(* Edits *)

ArchiveInit ==
    /\ doc \in {Imported(f) : f \in {g \in Files : Valid(Imported(g))}}
    /\ trips = 0

Counted == trips < FileEditsMax /\ trips' = trips + 1
Without(s, id) == SelectSeq(s, LAMBDA x : x.id # id)
Changed(s, id, change(_)) == Every(s, LAMBDA x : IF x.id = id THEN change(x) ELSE x)

\* importConfig of what exportLegacyConfig wrote.
Trip == Valid(Returned(doc)) /\ doc' = Returned(doc)

AddFloor ==
    doc' = [doc EXCEPT !.rooms = Append(@, [id |-> NewId(doc), parent |-> 0, key |-> 0,
                                            pr |-> Unset])]

\* updateRoom: not beneath itself.
MoveRoom(id, parent) ==
    /\ id # Ascend(parent, LAMBDA r : r = id, LAMBDA r : Object(doc.rooms, r).parent,
                   Len(doc.rooms))
    /\ doc' = [doc EXCEPT !.rooms = Changed(@, id, LAMBDA r : [r EXCEPT !.parent = parent])]

DeleteRoom(id) ==
    /\ id \notin {doc.rooms[n].parent : n \in DOMAIN doc.rooms}
    /\ id \notin {doc.channels[n].room : n \in DOMAIN doc.channels}
    /\ Len(doc.rooms) > 1
    /\ doc' = [doc EXCEPT !.rooms = Without(@, id)]

AddChannel(room) ==
    doc' = [doc EXCEPT !.channels = Append(@, [id |-> NewId(doc), room |-> room,
                         module |-> doc.modules[1], key |-> 0, pr |-> Unset])]

MoveChannel(id, room) ==
    doc' = [doc EXCEPT !.channels = Changed(@, id, LAMBDA c : [c EXCEPT !.room = room])]

\* deleteConfigEntity: out of the levels of every scene.
DeleteChannel(id) ==
    doc' = [doc EXCEPT !.channels = Without(@, id),
                       !.scenes = Every(@, LAMBDA s : [s EXCEPT !.levels = @ \ {id}])]

\* moveModule: a module comes first.
MoveModule(n) ==
    doc' = [doc EXCEPT !.modules = <<@[n]>> \o RemoveAt(@, n)]

\* createSceneUtility, of one scene without a group.
AddScene ==
    doc' = [doc EXCEPT !.scenes = Append(@,
              [id |-> NewId(doc), group |-> 0, next |-> 0, levels |-> IdSet(doc.channels),
               order |-> <<>>, key |-> 0, pr |-> Unset, slots |-> <<>>])]

\* updateSceneChannel, and the channel picker of the page: nobody changes the
\* channelOrder of an imported scene.
SetLevels(id, levels) ==
    doc' = [doc EXCEPT !.scenes = Changed(@, id, LAMBDA s : [s EXCEPT !.levels = levels])]

SetNext(id, next) ==
    doc' = [doc EXCEPT !.scenes = Changed(@, id, LAMBDA s : [s EXCEPT !.next = next])]

\* setButtonScene, with a scene or with none.
SetButton(slot, id) == doc' = [doc EXCEPT !.buttons[slot] = id]

\* moveSceneToDeleted: links to the scene go, and its buttons have none.
DeleteScene(id) ==
    doc' = [doc EXCEPT !.scenes = Every(Without(@, id), LAMBDA s :
                                    IF s.next = id THEN [s EXCEPT !.next = 0] ELSE s),
                       !.deleted = Append(@, Object(doc.scenes, id)),
                       !.buttons = [slot \in ButtonSlots |->
                                      IF @[slot] = id THEN Unset ELSE @[slot]]]

\* restoreDeletedScene: to the top level.
RestoreScene(id) ==
    doc' = [doc EXCEPT !.scenes = Append(@, [Object(doc.deleted, id) EXCEPT !.group = 0]),
                       !.deleted = Without(@, id)]

PermanentlyDeleteScene(id) == doc' = [doc EXCEPT !.deleted = Without(@, id)]

ArchiveNext ==
    /\ Counted
    /\ \/ Trip \/ AddFloor \/ AddScene
       \/ \E r \in IdSet(doc.rooms) :
             \/ DeleteRoom(r) \/ AddChannel(r)
             \/ \E p \in {0} \cup IdSet(doc.rooms) : MoveRoom(r, p)
             \/ \E c \in IdSet(doc.channels) : MoveChannel(c, r)
       \/ \E c \in IdSet(doc.channels) : DeleteChannel(c)
       \/ \E n \in DOMAIN doc.modules : MoveModule(n)
       \/ \E s \in IdSet(doc.scenes) :
             \/ DeleteScene(s)
             \/ \E t \in {0} \cup IdSet(doc.scenes) : SetNext(s, t)
             \/ \E levels \in SUBSET IdSet(doc.channels) : SetLevels(s, levels)
       \/ \E s \in IdSet(doc.deleted) : RestoreScene(s) \/ PermanentlyDeleteScene(s)
       \/ \E slot \in ButtonSlots, s \in {0} \cup IdSet(doc.scenes) : SetButton(slot, s)

ArchiveSpec == ArchiveInit /\ [][ArchiveNext]_archiveVars

-----------------------------------------------------------------------------
(* Properties *)

\* What the editor shows, without keys and bags.
View(d) ==
    [rooms |-> {[id |-> d.rooms[n].id, parent |-> d.rooms[n].parent] : n \in DOMAIN d.rooms},
     channels |-> {[id |-> d.channels[n].id, room |-> d.channels[n].room,
                    module |-> d.channels[n].module] : n \in DOMAIN d.channels},
     groups |-> {[id |-> d.groups[n].id, parent |-> d.groups[n].parent] : n \in DOMAIN d.groups},
     scenes |-> {[id |-> d.scenes[n].id, group |-> d.scenes[n].group, next |-> d.scenes[n].next,
                  order |-> d.scenes[n].order] : n \in DOMAIN d.scenes},
     deleted |-> IdSet(d.deleted), buttons |-> d.buttons, modules |-> d.modules]

\* Whose bag names a room that is there, or that was not imported.
Direct(x) == x.pr \in {Unset} \cup (KeySet(doc.rooms) \ {0})

\* A room is where it was, unless it is beneath the first one and its bag
\* names none: then the exporter keeps the bag, and the move is lost.
RoomsReturn(back) ==
    /\ IdSet(back.rooms) = IdSet(doc.rooms)
    /\ \A n \in DOMAIN doc.rooms :
          LET r == doc.rooms[n]
          IN  Direct(r) \/ r.parent # doc.rooms[1].id =>
                Object(back.rooms, r.id).parent = r.parent

\* A channel is in its room, unless its bag puts it into another object, which
\* may have been moved.
ChannelsReturn(back) ==
    /\ IdSet(back.channels) = IdSet(doc.channels)
    /\ \A n \in DOMAIN doc.channels :
          LET c == doc.channels[n]
              r == Object(back.channels, c.id)
          IN  r.module = c.module /\ (Direct(c) => r.room = c.room)

\* sceneChannelOrder (app/compile-config.ts): the channels the image drives.
Driven(s) == IF s.order # <<>> THEN ToSet(s.order) ELSE s.levels

\* A scene is in its group with its link and its channels, and the image of
\* what comes back drives them.  (An imported scene that was deleted and
\* restored goes back where its bag says, to the bin if it came from there.)
ScenesReturn(back) ==
    \A n \in DOMAIN doc.scenes :
       LET s == doc.scenes[n]
           t == Object(back.scenes, s.id)
       IN  s.group # 0 \/ s.pr = Unset =>
             /\ s.id \in IdSet(back.scenes)
             /\ s.group # 0 => t.group = s.group
             /\ s.next \in IdSet(doc.scenes \o doc.deleted) => t.next = s.next
             /\ Driven(t) = s.levels \cap IdSet(doc.channels)

\* A deleted scene stays deleted, if its bag says so or it was not imported;
\* another comes back to life.
DeletedReturn(back) ==
    \A n \in DOMAIN doc.deleted :
       doc.deleted[n].pr \in {Unset, Bin} => doc.deleted[n].id \in IdSet(back.deleted)

\* No button has a scene again that was taken from it.
ButtonsReturn(back) ==
    \A slot \in ButtonSlots : back.buttons[slot] = Max({0, doc.buttons[slot]})

\* Web edits survive an export to the iOS archive, as far as said above, and a
\* regenerated archive round-trips losslessly from then on.  The exporter
\* follows the bags and the editor's own values in turn, and what an edit
\* leaves of the one in the other shows only after the next import.
EditsReturn ==
    LET back == Returned(doc)
    IN  /\ RoomsReturn(back) /\ ChannelsReturn(back) /\ ScenesReturn(back)
        /\ DeletedReturn(back) /\ ButtonsReturn(back)
        /\ View(Returned(back)) = View(back)

\* The order of the modules, and with it every address, does not survive: the
\* exporter writes the one of the import.
ModulesReturn == Returned(doc).modules = doc.modules

\* The image has one entry per channel a scene drives.
ImageHoldsScenes ==
    \A n \in DOMAIN doc.scenes : Driven(doc.scenes[n]) = doc.scenes[n].levels
=============================================================================
