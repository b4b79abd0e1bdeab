---------------------------- MODULE CompileConfig ----------------------------
(***************************************************************************)
(* The layout of the controller image (compileConfig in                    *)
(* app/compile-config.ts): scene records, the groups of each wall switch   *)
(* and the buttons all point into one table of actions, by byte offset and *)
(* count, or at a slot of the fixed block.  The sections before and after  *)
(* are of fixed size; bytes are counted only where they are pointers.      *)
(*                                                                         *)
(* Slots are counted from 0; a reference is the slot plus one, and address *)
(* N of the bus has the five slots from SceneSlots + 5 * (N - 1).          *)
(***************************************************************************)
EXTENDS Integers, Sequences, FiniteSets, SequencesExt, Folds

CONSTANTS
    SceneSlots,   \* SCENE_TABLE_SLOTS, 1024 in the code
    Addresses,    \* SWITCH_INDEX_ADDRESSES, 64 in the code
    Buttons,      \* BUTTONS_PER_SWITCH, 16 in the code
    OffsetWidth,  \* values of a byte offset, 65536 in the code
    Modes,        \* sequence modes with a code
    SceneLists,   \* inputs: scenes, in archive order
    SwitchLists,  \* inputs: wall switches
    Assignments   \* inputs: sets of button assignments

CompileAssumption ==
    /\ {SceneSlots, Addresses, Buttons, OffsetWidth} \subseteq Nat \ {0}
    /\ \A scenes \in SceneLists : \A n \in DOMAIN scenes :
          scenes[n].id \in Nat \ {0} /\ scenes[n].channels \in Seq(Nat)
    /\ \A switches \in SwitchLists : \A n \in DOMAIN switches :
          switches[n].number \in Nat /\ switches[n].ids \in Seq(Nat)

VARIABLES config   \* the scenes, switches and assignments compiled

compileVars == config

EntryBytes == 5
GroupKinds == 1..5     \* on, off, raise, lower, and all channels

CompileInit ==
    config \in [scenes : SceneLists, switches : SwitchLists, assignments : Assignments]
CompileNext == UNCHANGED config
CompileSpec == CompileInit /\ [][CompileNext]_compileVars

-----------------------------------------------------------------------------
(* The table of actions *)

SceneEntries(n) ==
    [k \in DOMAIN config.scenes[n].channels |->
        [owner |-> <<"scene", config.scenes[n].id>>, channel |-> config.scenes[n].channels[k]]]

\* The channels of a switch that answer this kind of action.
Selected(s, kind) ==
    IF kind = 5 THEN s.ids ELSE SelectSeq(s.ids, LAMBDA c : c \in s.answers[kind])

GroupEntries(s, kind) ==
    [k \in DOMAIN Selected(s, kind) |->
        [owner |-> <<"switch", s.id, kind>>, channel |-> Selected(s, kind)[k]]]

\* Entries reserved for the table, before it is written.
Reserved ==
    FoldLeft(LAMBDA total, scene : total + Len(scene.channels), 0, config.scenes)
      + FoldLeft(LAMBDA total, s :
                   total + FoldSet(LAMBDA kind, sum : sum + Len(Selected(s, kind)),
                                   0, GroupKinds),
                 0, config.switches)

ByNumber == SortSeq(config.switches, LAMBDA s, t : s.number < t.number)

-----------------------------------------------------------------------------
(* The slots *)

Unused == [at |-> 0, count |-> 0, next |-> 0]
Offset(entries) == (EntryBytes * entries) % OffsetWidth

\* The reference of a scene, 0 when there is none with this ID.
SceneRef(id) == SelectInSeq(config.scenes, LAMBDA s : s.id = id)

SceneRecord(n) ==
    LET before == FoldLeft(LAMBDA total, scene : total + Len(scene.channels), 0,
                           SubSeq(config.scenes, 1, n - 1))
    IN  [at |-> Offset(before), count |-> Len(config.scenes[n].channels),
         next |-> SceneRef(config.scenes[n].next)]

\* The first slot of a switch; without a number it is among the scenes, with
\* one that is too high beyond the fixed block.
FirstSlot(number) == SceneSlots + 5 * number - 5

\* Faulty variant: the slot does not move on with the group.
WithGroupInFirst(image, s, kind) ==
    [slots |-> [image.slots EXCEPT ![FirstSlot(s.number)] =
                  [at |-> Offset(Len(image.actions)),
                   count |-> Len(Selected(s, kind)), next |-> 0]],
     actions |-> image.actions \o GroupEntries(s, kind)]

\* emit: one group of a switch.
WithGroup(image, s, kind) ==
    [slots |-> [image.slots EXCEPT ![FirstSlot(s.number) + kind - 1] =
                  [at |-> Offset(Len(image.actions)),
                   count |-> Len(Selected(s, kind)), next |-> 0]],
     actions |-> image.actions \o GroupEntries(s, kind)]

WithSwitch(image, s) ==
    FoldLeft(LAMBDA im, kind : WithGroup(im, s, kind), image, <<1, 2, 3, 4, 5>>)

\* The slots, and the table behind them.
Image ==
    LET known == Len(config.scenes)
        highest == FoldLeft(LAMBDA m, s : IF s.number > m THEN s.number ELSE m,
                            Addresses, config.switches)
        scenes == [slot \in -5..(SceneSlots + 5 * highest - 1) |->
                     IF slot \in 0..(SceneSlots - 1) /\ slot < known
                     THEN SceneRecord(slot + 1) ELSE Unused]
        entries == FlattenSeq([n \in DOMAIN config.scenes |-> SceneEntries(n)])
    IN  FoldLeft(WithSwitch, [slots |-> scenes, actions |-> entries], ByNumber)

-----------------------------------------------------------------------------
(* The 128 x 32 block *)

\* The odd record of an address: references to its first four groups.
IndexRefs(address) ==
    [kind \in 1..4 |-> SceneSlots + 5 * address - 5 + kind]

\* The even record: the reference of the scene on each button.
ButtonRefs(image, s) ==
    [button \in 1..Buttons |->
        LET mine == {a \in config.assignments : /\ a.switch = s.id /\ a.button = button
                                                /\ SceneRef(a.scene) # 0}
        IN  {SceneRef(a.scene) : a \in mine}]

Unmapped == {config.scenes[n].mode :
               n \in {m \in 1..Len(config.scenes) :
                        /\ m <= SceneSlots /\ SceneRef(config.scenes[m].next) # 0
                        /\ config.scenes[m].mode \notin Modes}}
Complete == Unmapped = {}

-----------------------------------------------------------------------------
(* Properties *)

\* What the controller finds by a reference.
Pointed(image, ref) ==
    LET record == image.slots[ref - 1]
        first == record.at \div EntryBytes
    IN  SubSeq(image.actions, first + 1, first + record.count)

Fits == EntryBytes * Reserved <= OffsetWidth
Numbered == \A n \in DOMAIN config.switches : config.switches[n].number \in 1..Addresses
Distinct == \A m, n \in DOMAIN config.switches :
               config.switches[m].number = config.switches[n].number => m = n

\* The pointers are right, as long as the table fits a byte offset and every
\* switch has an address of its own: the table is as long as was reserved,
\* every scene and every group of a switch leads to its own actions, and
\* every link and every button to the scene it names.  (The code tests none
\* of the conditions: an unnumbered switch overwrites the last scene slots,
\* and its image counts as complete.)
ImageRight ==
    LET image == Image
        scenes == 1..Len(config.scenes)
    IN  /\ Len(image.actions) = Reserved
        /\ Fits /\ Numbered =>
             \A n \in scenes : n <= SceneSlots =>
                /\ Pointed(image, n) = SceneEntries(n)
                /\ config.scenes[n].next \in {config.scenes[m].id : m \in scenes} =>
                     config.scenes[image.slots[n - 1].next].id = config.scenes[n].next
        /\ Fits /\ Numbered /\ Distinct =>
             \A n \in DOMAIN config.switches :
                LET s == config.switches[n]
                IN  /\ \A kind \in 1..4 :
                          Pointed(image, IndexRefs(s.number)[kind]) = GroupEntries(s, kind)
                    /\ \A button \in 1..Buttons : \A ref \in ButtonRefs(image, s)[button] :
                          [switch |-> s.id, button |-> button,
                           scene |-> config.scenes[ref].id] \in config.assignments
=============================================================================
