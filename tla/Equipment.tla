------------------------------ MODULE Equipment ------------------------------
(***************************************************************************)
(* Areas, lights, switches and scenes of the active configuration, what    *)
(* refers to what, and the two places deleted things go to (app/page.tsx,  *)
(* app/fd4cfg.ts).  IDs are handed out as one more than the highest in     *)
(* use, so a deleted item's ID may be given out again before it is         *)
(* restored.                                                               *)
(*                                                                         *)
(* Modules and the controller addresses that follow from them are in       *)
(* ModuleOrder.                                                            *)
(***************************************************************************)
EXTENDS Naturals, FiniteSets, FiniteSetsExt

CONSTANTS
    MadeMax    \* bound of the model: items ever made, of all types

EquipmentAssumption == MadeMax \in Nat

Types == {"area", "light", "switch", "scene"}

VARIABLES
    items,     \* what is there: rooms, channels, switches and scenes
    deleted,   \* deletedItems: the equipment among them, by key
    bin,       \* deletedScenes
    selected,  \* selectedRoom, a room's ID
    count      \* history: items ever made

equipmentVars == <<items, deleted, bin, selected, count>>

(* An item: its area (parentId or roomId, 0 for none), the lights it refers *)
(* to (a scene's levels, a switch's Basic Assignments), the scenes it      *)
(* refers to (nextSceneId and the like, a switch's button assignments),    *)
(* and a tag that tells it from every other item ever made.                *)
Item(type, id, area, lights, scenes, tag) ==
    [type |-> type, id |-> id, area |-> area, lights |-> lights,
     scenes |-> scenes, tag |-> tag]

Of(type) == {i \in items : i.type = type}
Ids(type) == {i.id : i \in Of(type)}
\* newId, and nextId for the scenes, which looks at the deleted ones too.
NewId(type) == Max({0} \cup Ids(type)
                   \cup IF type = "scene" THEN {s.id : s \in bin} ELSE {}) + 1
Tags(set) == {i.tag : i \in set}
DeletedItems == {d.item : d \in deleted}

EquipmentTypeOK ==
    /\ \A i \in items \cup DeletedItems \cup bin :
          i.type \in Types /\ i.id \in 1..MadeMax /\ i.tag \in 1..MadeMax
    /\ selected \in 1..MadeMax /\ count \in 0..MadeMax

EquipmentInit ==
    /\ items = {Item("area", 1, 0, {}, {}, 1), Item("light", 1, 1, {}, {}, 2)}
    /\ deleted = {} /\ bin = {}
    /\ selected = 1 /\ count = 2

-----------------------------------------------------------------------------
(* validateConfigContent: no duplicate ID, no dangling reference and no    *)
(* cycle of areas.  The store refuses a workspace that fails it.           *)

ParentOf(r) == {p \in Of("area") : p.id = r.area}
\* The areas from these upwards: the fewest that have the parents of each.
Above(areas) ==
    {a \in Of("area") :
       \A up \in SUBSET Of("area") :
          areas \subseteq up /\ (\A r \in up : ParentOf(r) \subseteq up) => a \in up}

Valid ==
    /\ \A i, j \in items : i.type = j.type /\ i.id = j.id => i = j
    /\ \A i \in items :
          /\ i.area # 0 => i.area \in Ids("area")
          /\ i.type \in {"light", "switch"} => i.area # 0
          /\ i.lights \subseteq Ids("light")
          /\ i.scenes \subseteq Ids("scene")
    /\ \A r \in Of("area") : r \notin Above(ParentOf(r))

-----------------------------------------------------------------------------
(* Adding and editing *)

Make(type, area, lights, scenes) ==
    /\ count < MadeMax
    /\ count' = count + 1
    /\ items' = items \cup {Item(type, NewId(type), area, lights, scenes, count + 1)}
    /\ UNCHANGED <<deleted, bin>>

AddFloor == Make("area", 0, {}, {}) /\ selected' = NewId("area")

\* addChannel and addSwitch: into the selected room, which may be gone.
AddLight == Make("light", selected, {}, {}) /\ UNCHANGED selected
AddSwitch == Make("switch", selected, {}, {}) /\ UNCHANGED selected

\* createSceneUtility, of one scene: with levels for some lights, and leading
\* to another scene or not.
AddScene ==
    \E lights \in {{}, Ids("light")}, next \in {{}} \cup {{s} : s \in Ids("scene")} :
        Make("scene", 0, lights, next) /\ UNCHANGED selected

SelectRoom ==
    /\ selected' \in Ids("area")
    /\ UNCHANGED <<items, deleted, bin, count>>

Replace(i, new) ==
    /\ items' = (items \ {i}) \cup {new}
    /\ UNCHANGED <<deleted, bin, selected, count>>

\* Faulty variant: only the area itself is refused as its parent.
MoveAreaUnchecked(r, p) ==
    /\ r.type = "area" /\ p.type = "area"
    /\ p.id # r.id
    /\ Replace(r, [r EXCEPT !.area = p.id])

\* updateRoom: not beneath one of its descendants.
MoveArea(r, p) ==
    /\ r.type = "area" /\ p.type = "area"
    /\ \A a \in Above({p}) : a.id # r.id
    /\ Replace(r, [r EXCEPT !.area = p.id])

\* updateChannel and updateSwitch, to another area.
MoveToArea(i, p) ==
    /\ i.type \in {"light", "switch"} /\ p.type = "area"
    /\ Replace(i, [i EXCEPT !.area = p.id])

\* createBasicAssignments: the lights of its room for every switch without.
CreateBasicAssignments ==
    /\ items' = {IF i.type = "switch" /\ i.lights = {}
                 THEN [i EXCEPT !.lights = {l.id : l \in {x \in Of("light") : x.area = i.area}}]
                 ELSE i : i \in items}
    /\ UNCHANGED <<deleted, bin, selected, count>>

\* setButtonScene, and nextSceneId of a scene: another scene or none.
SetScenes(i) ==
    /\ i.type \in {"switch", "scene"}
    /\ \E scenes \in {{}} \cup {{s} : s \in Ids("scene")} :
          Replace(i, [i EXCEPT !.scenes = scenes])

-----------------------------------------------------------------------------
(* Deleting *)

\* Faulty variant: the references to the item stay.
WithoutUncleaned(i) == items \ {i}

\* deleteConfigEntity: all items of this ID, and every reference to it.
Without(i) ==
    {[x EXCEPT !.lights = IF i.type = "light" THEN @ \ {i.id} ELSE @,
               !.scenes = IF i.type = "scene" THEN @ \ {i.id} ELSE @] :
        x \in {y \in items : y.type # i.type \/ y.id # i.id}}

\* Nothing may still be in an area that is deleted.
Empty(i) == \A x \in items : x.area # i.id

\* Faulty variant: the key is the type and ID alone.
KeysByItem(i) == {<<i.type, i.id, 1>>}

\* The first attempt at a key that is not taken.
KeysFor(i) ==
    LET free(n) == \A d \in deleted : d.key # <<i.type, i.id, n>>
    IN  {<<i.type, i.id, n>> : n \in {m \in 1..MadeMax :
                                        free(m) /\ \A k \in 1..(m - 1) : ~free(k)}}

\* What goes to the deleted items: a switch without its button assignments.
Put(i) == IF i.type = "switch" THEN [i EXCEPT !.scenes = {}] ELSE i

\* moveToDeleted, of a room, a channel or a switch
MoveToDeleted(i) ==
    /\ i.type # "scene"
    /\ i.type = "area" => Empty(i)
    /\ items' = Without(i)
    /\ \E key \in KeysFor(i) : deleted' = deleted \cup {[key |-> key, item |-> Put(i)]}
    /\ UNCHANGED <<bin, selected, count>>

\* restoreDeleted: as it was put there, whatever has become of what it refers to.
RestoreDeleted(d) ==
    /\ items' = items \cup {d.item}
    /\ deleted' = {e \in deleted : e.key # d.key}
    /\ UNCHANGED <<bin, selected, count>>

PermanentlyDelete(d) ==
    /\ deleted' = {e \in deleted : e.key # d.key}
    /\ UNCHANGED <<items, bin, selected, count>>

\* moveSceneToDeleted
MoveSceneToDeleted(s) ==
    /\ s.type = "scene"
    /\ items' = Without(s)
    /\ bin' = bin \cup {s}
    /\ UNCHANGED <<deleted, selected, count>>

\* restoreDeletedScene and permanentlyDeleteScene: the bin is kept by ID.
RestoreDeletedScene(s) ==
    /\ items' = items \cup {s}
    /\ bin' = {x \in bin : x.id # s.id}
    /\ UNCHANGED <<deleted, selected, count>>

PermanentlyDeleteScene(s) ==
    /\ bin' = {x \in bin : x.id # s.id}
    /\ UNCHANGED <<items, deleted, selected, count>>

-----------------------------------------------------------------------------
EquipmentNext ==
    \/ AddFloor \/ AddLight \/ AddSwitch \/ AddScene \/ SelectRoom
    \/ CreateBasicAssignments
    \/ \E i \in items :
          \/ SetScenes(i) \/ MoveToDeleted(i) \/ MoveSceneToDeleted(i)
          \/ \E p \in items : MoveArea(i, p) \/ MoveToArea(i, p)
    \/ \E d \in deleted : RestoreDeleted(d) \/ PermanentlyDelete(d)
    \/ \E s \in bin : RestoreDeletedScene(s) \/ PermanentlyDeleteScene(s)

EquipmentSpec == EquipmentInit /\ [][EquipmentNext]_equipmentVars

-----------------------------------------------------------------------------
(* Properties *)

\* deletedItems can be told apart, however often an ID was reused: restoring
\* one leaves the others.
KeysUnique == \A d, e \in deleted : d.key = e.key => d = e

\* As long as the configuration is valid, no edit, deletion or restoration
\* loses a piece of equipment: it is still there, or can be restored.  (With
\* two of one ID, a deletion takes both and keeps one.  A restored switch has
\* no button assignments: those went with the deletion.)
KeepsEquipment ==
    Valid /\ items' # items
         => Tags(items \cup DeletedItems \cup bin) \subseteq
               Tags(items \cup DeletedItems \cup bin)'
EquipmentKept == [][KeepsEquipment]_equipmentVars

\* deleteConfigEntity cleans every dependent reference, and no edit makes a
\* dangling one or a cycle: from a valid configuration, a step that adds or
\* restores nothing leads to a valid one.
KeepsValid ==
    Valid /\ Tags(items') \subseteq Tags(items) => Valid'
EditsKeepValid == [][KeepsValid]_equipmentVars

\* The editor only makes configurations the store accepts.
AlwaysValid == Valid
=============================================================================
