----------------------------- MODULE SceneOrder -----------------------------
(***************************************************************************)
(* The display order of scenes and scene groups, the lock of a scene, and  *)
(* what the page tells of the switches a scene is on (app/scene-order.ts,  *)
(* and the edits of a scene in app/page.tsx).  Scenes come without a rank  *)
(* from the utilities, and with any rank from an import.                   *)
(***************************************************************************)
EXTENDS Integers, Sequences, FiniteSets, SequencesExt

CONSTANTS
    SceneCount,   \* scenes have the IDs 1..SceneCount
    Ranks,        \* ranks an imported scene may have, 0 as without a rank
    SceneLevels,  \* levels a scene may give its lights
    SceneEditsMax      \* bound of the model: edits of a scene

\* Stands for Number.MAX_SAFE_INTEGER, which no scene has for its rank.
Largest == 1000000

OrderAssumption ==
    /\ SceneCount \in 0..Largest - 1 /\ SceneEditsMax \in Nat
    /\ Ranks \subseteq 0..Largest - 1 /\ 0 \in Ranks

VARIABLES
    places,   \* the group (0 for none, 1 or 2) and displayRank of each scene
    locked,   \* the scenes that are locked
    levels,   \* the levels of each scene
    changed     \* history: edits so far

sceneOrderVars == <<places, locked, levels, changed>>

AllScenes == 1..SceneCount
GroupIds == {1, 2}
Place(group, rank) == [group |-> group, rank |-> rank]

SceneOrderTypeOK ==
    /\ \A s \in AllScenes : places[s].group \in GroupIds \cup {0} /\ places[s].rank \in Nat
    /\ locked \subseteq AllScenes /\ levels \in [AllScenes -> SceneLevels]

SceneOrderInit ==
    /\ places \in [AllScenes -> {Place(group, rank) : group \in GroupIds, rank \in Ranks}]
    /\ locked = {} /\ changed = 0
    /\ \E level \in SceneLevels : levels = [s \in AllScenes |-> level]

-----------------------------------------------------------------------------
(* Ordering.  Groups have a parent and a rank in the same way, and          *)
(* moveSceneGroup is moveScene with the parent for the group.               *)

\* orderedScenes: by rank, then by ID.
Before(all, s, t) == \/ all[s].rank < all[t].rank
                     \/ all[s].rank = all[t].rank /\ s <= t
Siblings(all, group) == {s \in AllScenes : all[s].group = group}
Index(all, s) ==
    Cardinality({t \in Siblings(all, all[s].group) : Before(all, t, s)}) - 1

\* The scenes of a group with their index as their rank.
Dense(all, group) ==
    [s \in AllScenes |-> IF s \in Siblings(all, group)
                        THEN Place(group, Index(all, s)) ELSE all[s]]

\* Faulty variant: the two exchange the ranks they have.
SwappedRanks(all, s, t) ==
    [all EXCEPT ![s].rank = all[t].rank, ![t].rank = all[s].rank]

\* Two scenes exchange their places, and the whole group is ranked afresh.
Swapped(all, s, t) ==
    [Dense(all, all[s].group) EXCEPT ![s].rank = Index(all, t), ![t].rank = Index(all, s)]

\* moveScene and moveSceneGroup
MoveScene(s, direction) ==
    /\ \E t \in Siblings(places, places[s].group) :
          /\ Index(places, t) = Index(places, s) + direction
          /\ places' = Swapped(places, s, t)
    /\ UNCHANGED <<locked, levels, changed>>

\* reparentScene: last in its new group, and both groups ranked afresh.
Reparented(all, s, group) ==
    Dense(Dense([all EXCEPT ![s] = Place(group, Largest)], group), all[s].group)

\* (The page has no control for it yet.)
ReparentScene(s, group) ==
    /\ places[s].group # group
    /\ places' = Reparented(places, s, group)
    /\ UNCHANGED <<locked, levels, changed>>

-----------------------------------------------------------------------------
(* Edits *)

Counted == changed < SceneEditsMax /\ changed' = changed + 1

\* editScene, of the lock alone
ToggleLock(s) ==
    /\ locked' = IF s \in locked THEN locked \ {s} ELSE locked \cup {s}
    /\ UNCHANGED <<places, levels, changed>>

\* updateScene, as by removing a light: refused when locked.
UpdateScene(s, level) ==
    /\ Counted
    /\ s \notin locked
    /\ levels' = [levels EXCEPT ![s] = level]
    /\ UNCHANGED <<places, locked>>

\* updateSceneChannel, of the brightness: it does not go through editScene,
\* and the slider is only disabled for those who are no installer.
UpdateSceneChannel(s, level) ==
    /\ Counted
    /\ levels' = [levels EXCEPT ![s] = level]
    /\ UNCHANGED <<places, locked>>

SceneOrderNext ==
    \E s \in AllScenes :
        \/ ToggleLock(s)
        \/ \E direction \in {-1, 1} : MoveScene(s, direction)
        \/ \E group \in GroupIds : ReparentScene(s, group)
        \/ \E level \in SceneLevels : UpdateScene(s, level) \/ UpdateSceneChannel(s, level)

SceneOrderSpec == SceneOrderInit /\ [][SceneOrderNext]_sceneOrderVars

-----------------------------------------------------------------------------
(* Properties *)

\* A scene moves one place within its own group, and no other two scenes of
\* the group change their order, whatever ranks the archive or the utilities
\* have left; and a scene that changes its group leaves the order of all others.
MoveIsOnePlace ==
    \A s \in AllScenes :
          /\ \A direction \in {-1, 1} :
                MoveScene(s, direction) => Index(places', s) = Index(places, s) + direction
          /\ \A group \in GroupIds :
                ReparentScene(s, group) =>
                    Index(places', s) = Cardinality(Siblings(places', group)) - 1
          /\ places'[s] # places[s] =>
                \A t, u \in AllScenes \ {s} :
                    /\ places[t].group = places[u].group
                    /\ \/ places[s].group # places'[s].group
                       \/ MoveScene(s, 1) \/ MoveScene(s, -1)
                    => Before(places, t, u) = Before(places', t, u)
MovesOnePlace == [][MoveIsOnePlace]_sceneOrderVars

\* page.tsx: edits route through editScene, so a locked scene stays read-only
\* everywhere.
KeepsLocked == \A s \in locked \cap locked' : levels'[s] = levels[s]
LockedIsReadOnly == [][KeepsLocked]_sceneOrderVars
=============================================================================
