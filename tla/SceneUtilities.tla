--------------------------- MODULE SceneUtilities ---------------------------
(***************************************************************************)
(* The three scene creation utilities (app/scene-utilities.ts) as the page *)
(* uses them (createSceneUtility in app/page.tsx), between deletions and   *)
(* restorations of scenes and edits of the buttons.  A scene is its ID,    *)
(* its group and the scenes it leads to; names and levels are left out.    *)
(***************************************************************************)
EXTENDS Naturals, Sequences, FiniteSets, FiniteSetsExt, SequencesExt

CONSTANTS
    RoomOrder,      \* data.rooms, which have IDs of their own
    Plates,         \* data.switches: ID, room and whether it has Basic Assignments
    Slots,          \* UTILITY_BUTTON_SLOTS
    ExtractorCount, \* length of EXTRACTOR_SCENE_NAMES
    StepCount,      \* SECURITY_STEP_COUNT
    ControlCount,   \* length of SECURITY_CONTROL_SCENE_NAMES, "Finish" the last
    TriggerCount,   \* length of SECURITY_TRIGGER_SCENE_NAMES
    UsesMax,        \* bound of the model: uses of a utility
    RemovalsMax     \* bound of the model: scenes deleted, and buttons assigned

UtilityAssumption ==
    /\ RoomOrder \in Seq(Nat \ {0}) /\ Slots \in Seq(Nat \ {0})
    /\ Plates \in Seq([id : Nat \ {0}, room : Nat, basic : BOOLEAN])
    /\ \A m, n \in DOMAIN RoomOrder : RoomOrder[m] = RoomOrder[n] => m = n
    /\ \A m, n \in DOMAIN Slots : Slots[m] = Slots[n] => m = n
    /\ \A m, n \in DOMAIN Plates : Plates[m].id = Plates[n].id => m = n
    /\ {ExtractorCount, StepCount, ControlCount, TriggerCount} \subseteq Nat \ {0}
    /\ {UsesMax, RemovalsMax} \subseteq Nat

VARIABLES
    scenes,    \* data.scenes
    binned,    \* data.deletedScenes
    groups,    \* data.sceneGroups
    buttons,   \* data.assignments, some of them to no scene
    uses, removals   \* history: counted for the bounds

utilityVars == <<scenes, binned, groups, buttons, uses, removals>>

\* 0 stands for no scene, or no group.
Scene(id, group, next, extender) ==
    [id |-> id, group |-> group, next |-> next, extender |-> extender]
Ids(set) == {x.id : x \in set}
Button(plate, slot, id) == [plate |-> plate, slot |-> slot, scene |-> id]
FirstPlate == IF Plates = <<>> THEN 0 ELSE Plates[1].id

UtilityInit ==
    /\ scenes = {} /\ binned = {} /\ groups = {}
    /\ buttons = {} /\ uses = 0 /\ removals = 0

-----------------------------------------------------------------------------
\* Faulty variant: the deleted scenes are not looked at.
NextSceneIdLive(live, deleted) == Max({0} \cup Ids(live)) + 1

NextSceneId(live, deleted) == Max({0} \cup Ids(live) \cup Ids(deleted)) + 1
NextGroupId == Max({0} \cup Ids(groups)) + 1

\* Faulty variant: a button that has a scene is given another.
FreeSlotsAll(plate) == {n \in DOMAIN Slots : plate # 0}

FreeSlots(plate) ==
    {n \in DOMAIN Slots : ~\E b \in buttons : b.plate = plate /\ b.slot = Slots[n]}

\* assignToFreeButtons: the n-th scene on the n-th slot, if nothing is assigned
\* there.  A button whose scene was deleted counts as taken.
Assigned(plate, created) ==
    {Button(plate, Slots[n], created[n]) : n \in FreeSlots(plate) \cap DOMAIN created}

Merge(newScenes, newGroups, newButtons) ==
    /\ uses < UsesMax /\ uses' = uses + 1
    /\ scenes' = scenes \cup newScenes
    /\ groups' = groups \cup newGroups
    /\ buttons' = buttons \cup newButtons
    /\ UNCHANGED <<binned, removals>>

\* simpleScenes: two for each room with a switch that has Basic Assignments,
\* of which the first in switch order counts.
CreateSimple(assign) ==
    LET has(m, n) == Plates[n].room = RoomOrder[m] /\ Plates[n].basic
        lit == {m \in DOMAIN RoomOrder : \E n \in DOMAIN Plates : has(m, n)}
        plate(m) == Plates[Min({n \in DOMAIN Plates : has(m, n)})].id
        before(m) == 2 * Cardinality({k \in lit : k < m})
        id(m, n) == NextSceneId(scenes, binned) + before(m) + (n - 1)
        created(m) == [n \in 1..2 |-> id(m, n)]
    IN  Merge({Scene(id(m, n), 0, 0, 0) : m \in lit, n \in 1..2}, {},
              IF assign THEN UNION {Assigned(plate(m), created(m)) : m \in lit} ELSE {})

\* extractorSequence: every scene leads to the next one, the last to none.
CreateExtractor(assign) ==
    LET first == NextSceneId(scenes, binned)
        created == [n \in 1..ExtractorCount |-> first + n - 1]
        next(n) == IF n = ExtractorCount THEN 0 ELSE created[n + 1]
    IN  Merge({Scene(created[n], NextGroupId, next(n), 0) : n \in DOMAIN created},
              {[id |-> NextGroupId, parent |-> 0]},
              IF assign /\ Plates # <<>> THEN Assigned(FirstPlate, created) ELSE {})

\* Faulty variant: the last step goes back to the first.
StepAfterLooping(n, step, finish) == IF n = StepCount THEN step[1] ELSE step[n + 1]

StepAfter(n, step, finish) == IF n = StepCount THEN finish ELSE step[n + 1]

\* securitySequence: each step runs its scene and leads to the next step, the
\* last one to "Finish".
CreateSecurity(assign) ==
    LET first == NextSceneId(scenes, binned)
        run(from, count) == [n \in 1..count |-> first + from + n - 1]
        step == run(0, StepCount)
        target == run(StepCount, StepCount)
        control == run(2 * StepCount, ControlCount)
        trigger == run(2 * StepCount + ControlCount, TriggerCount)
        root == NextGroupId
        plain(ids, group) == {Scene(ids[n], group, 0, 0) : n \in DOMAIN ids}
    IN  Merge({Scene(step[n], root + 1, StepAfter(n, step, Last(control)), target[n]) :
                 n \in DOMAIN step}
                \cup plain(target, root + 2) \cup plain(control, root) \cup plain(trigger, root),
              {[id |-> root, parent |-> 0], [id |-> root + 1, parent |-> root],
               [id |-> root + 2, parent |-> root]},
              IF assign /\ Plates # <<>> THEN Assigned(FirstPlate, trigger) ELSE {})

-----------------------------------------------------------------------------
(* What else happens to scenes and buttons in between *)

Removal == removals < RemovalsMax /\ removals' = removals + 1

\* moveSceneToDeleted: links to it are cleared, and buttons with it stay,
\* assigned to no scene.
Unlinked(scene, id) ==
    [scene EXCEPT !.next = IF @ = id THEN 0 ELSE @,
                  !.extender = IF @ = id THEN 0 ELSE @]
DeleteScene(s) ==
    /\ Removal
    /\ scenes' = {Unlinked(x, s.id) : x \in {y \in scenes : y.id # s.id}}
    /\ binned' = binned \cup {s}
    /\ buttons' = {IF b.scene = s.id THEN [b EXCEPT !.scene = 0] ELSE b : b \in buttons}
    /\ UNCHANGED <<groups, uses>>

\* restoreDeletedScene, at the top level
RestoreScene(s) ==
    /\ scenes' = scenes \cup {[s EXCEPT !.group = 0]}
    /\ binned' = {x \in binned : x.id # s.id}
    /\ UNCHANGED <<groups, buttons, uses, removals>>

PermanentlyDeleteScene(s) ==
    /\ binned' = {x \in binned : x.id # s.id}
    /\ UNCHANGED <<scenes, groups, buttons, uses, removals>>

\* setButtonScene: a button has one scene, or none.
SetButtonScene(plate, slot, id) ==
    /\ Removal
    /\ buttons' = {b \in buttons : b.plate # plate \/ b.slot # slot}
                    \cup IF id = 0 THEN {} ELSE {Button(plate, slot, id)}
    /\ UNCHANGED <<scenes, binned, groups, uses>>

UtilityNext ==
    \/ \E assign \in BOOLEAN :
          CreateSimple(assign) \/ CreateExtractor(assign) \/ CreateSecurity(assign)
    \/ \E s \in scenes : DeleteScene(s)
    \/ \E n \in DOMAIN Plates, m \in DOMAIN Slots, id \in {0} \cup Ids(scenes) :
          SetButtonScene(Plates[n].id, Slots[m], id)
    \/ \E s \in binned : RestoreScene(s) \/ PermanentlyDeleteScene(s)

UtilitySpec == UtilityInit /\ [][UtilityNext]_utilityVars

-----------------------------------------------------------------------------
(* Properties *)

\* However the utilities, deletions and restorations follow one another, no
\* two scenes, deleted or not, have one ID; every live group reference and
\* button leads to what is there, or nowhere; and no button is assigned twice,
\* whatever was on it when a utility offered it a new scene.
UtilitiesFit ==
    /\ \A s, t \in scenes \cup binned : s.id = t.id => s = t
    /\ scenes \cap binned = {}
    /\ \A s \in scenes : s.group \in {0} \cup Ids(groups)
    /\ \A b, c \in buttons : b.plate = c.plate /\ b.slot = c.slot => b = c
    /\ \A b \in buttons : b.scene \in {0} \cup Ids(scenes)

\* "Put automatically created scenes on to buttons 1, 2 & 3 if the button is
\* not currently in use?": a button that showed no scene has the new one, if
\* the installer says yes to the extractor sequence.  (It does not hold: a
\* button whose scene was deleted is passed over.)
Shown(plate, slot) == {b.scene : b \in {x \in buttons : x.plate = plate /\ x.slot = slot}} \ {0}
PromptFillsUnused ==
    CreateExtractor(TRUE) /\ Plates # <<>> =>
       \A n \in DOMAIN Slots \cap 1..ExtractorCount :
          Shown(FirstPlate, Slots[n]) = {} => Shown(FirstPlate, Slots[n])' # {}

\* A finished sequence stops, and the simulation terminates instead of running
\* for ever (scene-utilities.ts): no scene leads back to itself, also when some
\* were deleted and restored, and lead to what is no longer there.
NextOf(id) == Max({0} \cup {s.next : s \in {x \in scenes : x.id = id}})
SequencesEnd ==
    \A s \in scenes :
        LET walk[n \in 0..Cardinality(scenes)] == IF n = 0 THEN s.id ELSE NextOf(walk[n - 1])
        IN  walk[Cardinality(scenes)] \notin Ids(scenes)
=============================================================================
