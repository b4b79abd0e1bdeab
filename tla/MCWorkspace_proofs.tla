------------------------- MODULE MCWorkspace_proofs -------------------------
(***************************************************************************)
(* The safety of the editor's parts that share the page, continued: the    *)
(* scene utilities and the bin, with an inductive invariant of their own,  *)
(* and the sites, configurations and older workspaces, whose theorems are  *)
(* those of Workspace_proofs.  The entities of all parts together fit one  *)
(* another.                                                                *)
(***************************************************************************)
EXTENDS MCEditing_proofs

-----------------------------------------------------------------------------
(* Scene utilities and the bin *)

SceneRecords == [id : Nat \ {0}, group : Nat, next : Nat, extender : Nat]
GroupRecords == [id : Nat \ {0}, parent : Nat]
ButtonRecords == [plate : Nat, slot : Nat, scene : Nat]

\* All scenes there are, and all there may be again.
Both == scenes \cup binned

\* What a scene leads to was made after it, also where it is gone and its ID
\* was given out again.
LeadsOn(S) == \A s \in S : s.next = 0 \/ s.id < s.next

\* IDs up to a bound; nothing in the code has one, but there are only so many.
Below(S, N) == N \in Nat /\ \A x \in S : x.id <= N

UtilityInv ==
    /\ scenes \subseteq SceneRecords /\ binned \subseteq SceneRecords
    /\ groups \subseteq GroupRecords /\ buttons \subseteq ButtonRecords
    /\ \E N : Below(Both, N)
    /\ \E N : Below(groups, N)
    /\ LeadsOn(Both)
    /\ Utilities!UtilitiesFit

LEMMA InitUtility == MCInit => UtilityInv
<1> SUFFICES ASSUME MCInit PROVE UtilityInv
  OBVIOUS
<1>1. scenes = {} /\ binned = {} /\ groups = {} /\ buttons = {}
  BY DEF MCInit, Utilities!UtilityInit
<1>2. Below(Both, 0) /\ Below(groups, 0)
  BY <1>1 DEF Below, Both
<1>3. Utilities!UtilitiesFit
  BY <1>1 DEF Utilities!UtilitiesFit
<1> QED BY <1>1, <1>2, <1>3 DEF UtilityInv, LeadsOn, Both

\* An ID that is given out is higher than all in use.
LEMMA FreshId ==
    ASSUME NEW S, \A x \in S : x.id \in Nat \ {0}, \E N : Below(S, N)
    PROVE  LET m == Utilities!Max({0} \cup Utilities!Ids(S))
           IN  m \in Nat /\ Below(S, m)
<1>1. PICK N : Below(S, N)
  OBVIOUS
<1> DEFINE T == {0} \cup {x.id : x \in S}
<1>2. N \in Nat /\ T \in SUBSET (0..N) /\ T # {}
  BY <1>1 DEF Below
<1>3. Utilities!Max(T) = Gear!Max(T)
  BY DEF Utilities!Max, Gear!Max
<1>4. T = {0} \cup Utilities!Ids(S)
  BY DEF Utilities!Ids
<1>5. \A x \in S : x.id \in T
  OBVIOUS
<1> HIDE DEF T
<1>6. Gear!Max(T) \in T /\ \A n \in T : n <= Gear!Max(T)
  BY <1>2, MaxOfSet
<1>7. Gear!Max(T) \in Nat
  <2>1. Gear!Max(T) \in 0..N
    BY <1>2, <1>6
  <2> QED BY <2>1
<1> QED BY <1>3, <1>4, <1>5, <1>6, <1>7 DEF Below

LEMMA FreshScene ==
    ASSUME UtilityInv
    PROVE  /\ Utilities!NextSceneId(scenes, binned) \in Nat \ {0}
           /\ \A s \in Both : s.id < Utilities!NextSceneId(scenes, binned)
<1> DEFINE m == Utilities!Max({0} \cup Utilities!Ids(Both))
<1>1. \A s \in Both : s.id \in Nat \ {0}
  BY DEF UtilityInv, Both, SceneRecords
<1>2. m \in Nat /\ Below(Both, m)
  BY <1>1, FreshId DEF UtilityInv
<1>3. {0} \cup Utilities!Ids(scenes) \cup Utilities!Ids(binned) = {0} \cup Utilities!Ids(Both)
  BY DEF Utilities!Ids, Both
<1>4. Utilities!NextSceneId(scenes, binned) = m + 1
  BY <1>3 DEF Utilities!NextSceneId
<1> HIDE DEF m
<1> QED BY <1>1, <1>2, <1>4 DEF Below

LEMMA FreshGroup ==
    ASSUME UtilityInv
    PROVE  /\ Utilities!NextGroupId \in Nat \ {0}
           /\ \A g \in groups : g.id < Utilities!NextGroupId
<1> DEFINE m == Utilities!Max({0} \cup Utilities!Ids(groups))
<1>1. \A g \in groups : g.id \in Nat \ {0}
  BY DEF UtilityInv, GroupRecords
<1>2. m \in Nat /\ Below(groups, m)
  BY <1>1, FreshId DEF UtilityInv
<1>3. Utilities!NextGroupId = m + 1
  BY DEF Utilities!NextGroupId
<1> HIDE DEF m
<1> QED BY <1>1, <1>2, <1>3 DEF Below

-----------------------------------------------------------------------------
\* What a utility adds: scenes of new IDs, in groups that are there, and
\* buttons that were free.
LEMMA MergeFits ==
    ASSUME UtilityInv, NEW newScenes, NEW newGroups, NEW newButtons,
           Utilities!Merge(newScenes, newGroups, newButtons),
           newScenes \subseteq SceneRecords, newGroups \subseteq GroupRecords,
           newButtons \subseteq ButtonRecords,
           \E N : Below(newScenes, N), \E N : Below(newGroups, N), LeadsOn(newScenes),
           \A s \in newScenes : /\ s.id >= Utilities!NextSceneId(scenes, binned)
                                /\ \/ s.group = 0
                                   \/ \E g \in newGroups : s.group = g.id,
           \A s, t \in newScenes : s.id = t.id => s = t,
           \A b \in newButtons :
              /\ \E s \in newScenes : b.scene = s.id
              /\ \A c \in buttons : b.plate # c.plate \/ b.slot # c.slot,
           \A b, c \in newButtons : b.plate = c.plate /\ b.slot = c.slot => b = c
    PROVE  UtilityInv'
<1>1. /\ scenes' = scenes \cup newScenes /\ groups' = groups \cup newGroups
      /\ buttons' = buttons \cup newButtons /\ binned' = binned
  BY DEF Utilities!Merge
<1>2. /\ scenes' \subseteq SceneRecords /\ binned' \subseteq SceneRecords
      /\ groups' \subseteq GroupRecords /\ buttons' \subseteq ButtonRecords
  BY <1>1 DEF UtilityInv
<1>3. ASSUME NEW S, NEW T, \A x \in S \cup T : x.id \in Nat,
             \E N : Below(S, N), \E N : Below(T, N)
      PROVE  \E N : Below(S \cup T, N)
  <2>1. PICK M : Below(S, M)
    BY <1>3
  <2>2. PICK N : Below(T, N)
    BY <1>3
  <2>3. Below(S \cup T, M + N)
    BY <1>3, <2>1, <2>2 DEF Below
  <2> QED BY <2>3
<1>4. \E N : Below(Both', N)
  <2>1. Both' = Both \cup newScenes
    BY <1>1 DEF Both
  <2>2. \A x \in Both \cup newScenes : x.id \in Nat
    BY DEF UtilityInv, Both, SceneRecords
  <2> QED BY <1>3, <2>1, <2>2 DEF UtilityInv
<1>5. \E N : Below(groups', N)
  <2>1. \A x \in groups \cup newGroups : x.id \in Nat
    BY DEF UtilityInv, GroupRecords
  <2> QED BY <1>1, <1>3, <2>1 DEF UtilityInv
<1>6. LeadsOn(Both)'
  BY <1>1 DEF LeadsOn, Both, UtilityInv
<1>7. \A s \in Both, t \in newScenes : s.id # t.id
  <2>1. \A s \in Both : s.id \in Nat /\ s.id < Utilities!NextSceneId(scenes, binned)
    BY FreshScene DEF UtilityInv, Both, SceneRecords
  <2>2. Utilities!NextSceneId(scenes, binned) \in Nat
    BY FreshScene
  <2>3. \A t \in newScenes : t.id \in Nat
    BY DEF SceneRecords
  <2> QED BY <2>1, <2>2, <2>3
<1>8. Utilities!UtilitiesFit'
  <2>1. \A s, t \in scenes' \cup binned' : s.id = t.id => s = t
    BY <1>1, <1>7 DEF UtilityInv, Utilities!UtilitiesFit, Both
  <2>2. scenes' \cap binned' = {}
    BY <1>1, <1>7 DEF UtilityInv, Utilities!UtilitiesFit, Both
  <2>3. \A s \in scenes' : s.group \in {0} \cup Utilities!Ids(groups')
    BY <1>1 DEF UtilityInv, Utilities!UtilitiesFit, Utilities!Ids
  <2>4. \A b, c \in buttons' : b.plate = c.plate /\ b.slot = c.slot => b = c
    BY <1>1 DEF UtilityInv, Utilities!UtilitiesFit
  <2>5. \A b \in buttons' : b.scene \in {0} \cup Utilities!Ids(scenes')
    BY <1>1 DEF UtilityInv, Utilities!UtilitiesFit, Utilities!Ids
  <2> QED BY <2>1, <2>2, <2>3, <2>4, <2>5 DEF Utilities!UtilitiesFit
<1> QED BY <1>2, <1>4, <1>5, <1>6, <1>8 DEF UtilityInv

LEMMA UtilityInputs ==
    /\ \A n \in DOMAIN Plates : Plates[n].id \in Nat \ {0}
    /\ \A m, n \in DOMAIN Plates : Plates[m].id = Plates[n].id => m = n
    /\ DOMAIN Plates = 1..Len(Plates) /\ Len(Plates) \in Nat
    /\ \A n \in DOMAIN Slots : Slots[n] \in Nat \ {0}
    /\ \A m, n \in DOMAIN Slots : Slots[m] = Slots[n] => m = n
    /\ DOMAIN RoomOrder = 1..Len(RoomOrder) /\ Len(RoomOrder) \in Nat
    /\ \A m, n \in DOMAIN RoomOrder : RoomOrder[m] = RoomOrder[n] => m = n
    /\ {ExtractorCount, StepCount, ControlCount, TriggerCount} \subseteq Nat \ {0}
<1>1. /\ Plates \in Seq([id : Nat \ {0}, room : Nat, basic : BOOLEAN])
      /\ RoomOrder \in Seq(Nat \ {0}) /\ Slots \in Seq(Nat \ {0})
      /\ \A m, n \in DOMAIN RoomOrder : RoomOrder[m] = RoomOrder[n] => m = n
      /\ \A m, n \in DOMAIN Slots : Slots[m] = Slots[n] => m = n
      /\ \A m, n \in DOMAIN Plates : Plates[m].id = Plates[n].id => m = n
      /\ {ExtractorCount, StepCount, ControlCount, TriggerCount} \subseteq Nat \ {0}
  BY WorkspaceAssumption DEF Utilities!UtilityAssumption
<1>2. ASSUME NEW R, NEW s \in Seq(R), NEW n \in DOMAIN s
      PROVE  s[n] \in R
  OBVIOUS
<1>3. ASSUME NEW n \in DOMAIN Plates
      PROVE  Plates[n].id \in Nat \ {0}
  <2>1. Plates[n] \in [id : Nat \ {0}, room : Nat, basic : BOOLEAN]
    BY <1>1, <1>2
  <2> QED BY <2>1
<1>4. \A n \in DOMAIN Slots : Slots[n] \in Nat \ {0}
  BY <1>1
<1>5. DOMAIN Plates = 1..Len(Plates) /\ Len(Plates) \in Nat
  BY <1>1
<1>6. DOMAIN RoomOrder = 1..Len(RoomOrder) /\ Len(RoomOrder) \in Nat
  BY <1>1
<1> QED BY <1>1, <1>3, <1>4, <1>5, <1>6

LEMMA MoveSceneFits ==
    ASSUME UtilityInv,
           \/ \E s \in scenes : Utilities!DeleteScene(s)
           \/ \E s \in binned : Utilities!RestoreScene(s) \/ Utilities!PermanentlyDeleteScene(s)
           \/ \E n \in DOMAIN Plates, m \in DOMAIN Slots, id \in {0} \cup Utilities!Ids(scenes) :
                 Utilities!SetButtonScene(Plates[n].id, Slots[m], id)
    PROVE  UtilityInv'
<1>0. \A s \in Both : s.id \in Nat \ {0} /\ s.next \in Nat
  BY DEF UtilityInv, Both, SceneRecords
<1>1. ASSUME NEW s \in scenes, Utilities!DeleteScene(s)
      PROVE  UtilityInv'
  <2> DEFINE rest == {y \in scenes : y.id # s.id}
  <2>1. /\ scenes' = {Utilities!Unlinked(x, s.id) : x \in rest}
        /\ binned' = binned \cup {s} /\ groups' = groups
        /\ buttons' = {IF b.scene = s.id THEN [b EXCEPT !.scene = 0] ELSE b : b \in buttons}
    BY <1>1 DEF Utilities!DeleteScene
  <2>0. \A c \in buttons' : \E b \in buttons :
           /\ c \in ButtonRecords /\ c.plate = b.plate /\ c.slot = b.slot
           /\ c = IF b.scene = s.id THEN [b EXCEPT !.scene = 0] ELSE b
           /\ c.scene = 0 \/ (c.scene = b.scene /\ b.scene # s.id)
    <3> TAKE c \in buttons'
    <3>1. PICK b \in buttons : c = IF b.scene = s.id THEN [b EXCEPT !.scene = 0] ELSE b
      BY <2>1
    <3>2. b \in ButtonRecords
      BY DEF UtilityInv
    <3> QED BY <3>1, <3>2 DEF ButtonRecords
  <2>2. ASSUME NEW x \in rest
        PROVE  LET y == Utilities!Unlinked(x, s.id)
               IN  /\ y \in SceneRecords /\ y.id = x.id /\ y.group = x.group
                   /\ y.next \in {0, x.next}
    <3>1. x \in SceneRecords
      BY DEF UtilityInv
    <3> QED BY <3>1 DEF Utilities!Unlinked, SceneRecords
  <2> HIDE DEF rest
  <2>3. /\ scenes' \subseteq SceneRecords /\ binned' \subseteq SceneRecords
        /\ groups' \subseteq GroupRecords /\ buttons' \subseteq ButtonRecords
    BY <2>0, <2>1, <2>2 DEF UtilityInv
  <2>4. \A y \in scenes' : \E x \in scenes :
           /\ x.id # s.id /\ y.id = x.id /\ y.group = x.group /\ y.next \in {0, x.next}
           /\ y = Utilities!Unlinked(x, s.id)
    BY <2>1, <2>2 DEF rest
  <2>5. (\E N : Below(Both, N))'
    BY <2>1, <2>4 DEF UtilityInv, Below, Both
  <2>6. LeadsOn(Both)'
    BY <2>1, <2>4 DEF UtilityInv, LeadsOn, Both
  <2>7. Utilities!UtilitiesFit'
    <3>1. \A x, y \in scenes' : x.id = y.id => x = y
      BY <2>4 DEF UtilityInv, Utilities!UtilitiesFit
    <3>2. \A x \in scenes', y \in binned' : x.id # y.id
      BY <2>1, <2>4 DEF UtilityInv, Utilities!UtilitiesFit
    <3>3. \A x, y \in binned' : x.id = y.id => x = y
      BY <2>1 DEF UtilityInv, Utilities!UtilitiesFit
    <3>4. \A y \in scenes' : y.group \in {0} \cup Utilities!Ids(groups')
      BY <2>1, <2>4 DEF UtilityInv, Utilities!UtilitiesFit
    <3>5. \A b \in buttons' : b.scene \in {0} \cup Utilities!Ids(scenes')
      <4> TAKE b \in buttons'
      <4> SUFFICES ASSUME b.scene # 0
                   PROVE  b.scene \in Utilities!Ids(scenes')
        OBVIOUS
      <4>1. PICK x \in scenes : b.scene = x.id /\ x.id # s.id
        BY <2>0 DEF UtilityInv, Utilities!UtilitiesFit, Utilities!Ids
      <4>2. x \in rest
        BY <4>1 DEF rest
      <4>3. Utilities!Unlinked(x, s.id) \in scenes' /\ Utilities!Unlinked(x, s.id).id = x.id
        BY <2>1, <2>2, <4>2
      <4> QED BY <4>1, <4>3 DEF Utilities!Ids
    <3>6. \A b, c \in buttons' : b.plate = c.plate /\ b.slot = c.slot => b = c
      BY <2>0 DEF UtilityInv, Utilities!UtilitiesFit
    <3> QED BY <3>1, <3>2, <3>3, <3>4, <3>5, <3>6 DEF Utilities!UtilitiesFit
  <2> QED BY <2>1, <2>3, <2>5, <2>6, <2>7 DEF UtilityInv
<1>2. ASSUME NEW s \in binned, Utilities!RestoreScene(s)
      PROVE  UtilityInv'
  <2> DEFINE back == [s EXCEPT !.group = 0]
  <2>1. /\ scenes' = scenes \cup {back} /\ binned' = {x \in binned : x.id # s.id}
        /\ groups' = groups /\ buttons' = buttons
    BY <1>2 DEF Utilities!RestoreScene
  <2>2. /\ back \in SceneRecords /\ back.id = s.id /\ back.next = s.next /\ back.group = 0
    BY DEF UtilityInv, SceneRecords
  <2> HIDE DEF back
  <2>3. /\ scenes' \subseteq SceneRecords /\ binned' \subseteq SceneRecords
        /\ groups' \subseteq GroupRecords /\ buttons' \subseteq ButtonRecords
    BY <2>1, <2>2 DEF UtilityInv
  <2>4. (\E N : Below(Both, N))'
    BY <2>1, <2>2 DEF UtilityInv, Below, Both
  <2>5. LeadsOn(Both)'
    BY <2>1, <2>2 DEF UtilityInv, LeadsOn, Both
  <2>6. \A x \in scenes : x.id # s.id
    BY DEF UtilityInv, Utilities!UtilitiesFit
  <2>7. Utilities!UtilitiesFit'
    <3>1. \A x, y \in scenes' : x.id = y.id => x = y
      BY <2>1, <2>2, <2>6 DEF UtilityInv, Utilities!UtilitiesFit
    <3>2. \A x \in scenes', y \in binned' : x.id # y.id
      BY <2>1, <2>2 DEF UtilityInv, Utilities!UtilitiesFit
    <3>3. \A x, y \in binned' : x.id = y.id => x = y
      BY <2>1 DEF UtilityInv, Utilities!UtilitiesFit
    <3>4. \A y \in scenes' : y.group \in {0} \cup Utilities!Ids(groups')
      BY <2>1, <2>2 DEF UtilityInv, Utilities!UtilitiesFit
    <3>5. \A b \in buttons' : b.scene \in {0} \cup Utilities!Ids(scenes')
      BY <2>1 DEF UtilityInv, Utilities!UtilitiesFit, Utilities!Ids
    <3>6. \A b, c \in buttons' : b.plate = c.plate /\ b.slot = c.slot => b = c
      BY <2>1 DEF UtilityInv, Utilities!UtilitiesFit
    <3> QED BY <3>1, <3>2, <3>3, <3>4, <3>5, <3>6 DEF Utilities!UtilitiesFit
  <2> QED BY <2>1, <2>3, <2>4, <2>5, <2>7 DEF UtilityInv
<1>3. ASSUME NEW s \in binned, Utilities!PermanentlyDeleteScene(s)
      PROVE  UtilityInv'
  <2>1. /\ scenes' = scenes /\ binned' \subseteq binned
        /\ groups' = groups /\ buttons' = buttons
    BY <1>3 DEF Utilities!PermanentlyDeleteScene
  <2>2. (\E N : Below(Both, N))'
    BY <2>1 DEF UtilityInv, Below, Both
  <2>3. Utilities!UtilitiesFit'
    BY <2>1 DEF UtilityInv, Utilities!UtilitiesFit, Utilities!Ids
  <2> QED BY <2>1, <2>2, <2>3 DEF UtilityInv, LeadsOn, Both
<1>4. ASSUME NEW n \in DOMAIN Plates, NEW m \in DOMAIN Slots,
             NEW id \in {0} \cup Utilities!Ids(scenes),
             Utilities!SetButtonScene(Plates[n].id, Slots[m], id)
      PROVE  UtilityInv'
  <2> DEFINE plate == Plates[n].id
             slot == Slots[m]
             new == [plate |-> plate, slot |-> slot, scene |-> id]
  <2>1. /\ scenes' = scenes /\ binned' = binned /\ groups' = groups
        /\ buttons' = {b \in buttons : b.plate # plate \/ b.slot # slot}
                        \cup IF id = 0 THEN {} ELSE {new}
    BY <1>4 DEF Utilities!SetButtonScene, Utilities!Button
  <2>2. plate \in Nat /\ slot \in Nat
    BY UtilityInputs
  <2>3. id # 0 => new \in ButtonRecords
    BY <1>0, <2>2 DEF ButtonRecords, Utilities!Ids, Both
  <2>4. new.plate = plate /\ new.slot = slot /\ new.scene = id
    OBVIOUS
  <2> HIDE DEF plate, slot, new
  <2>5. buttons' \subseteq ButtonRecords
    BY <2>1, <2>3 DEF UtilityInv
  <2>6. \A b, c \in buttons' : b.plate = c.plate /\ b.slot = c.slot => b = c
    BY <2>1, <2>4 DEF UtilityInv, Utilities!UtilitiesFit
  <2>7. \A b \in buttons' : b.scene \in {0} \cup Utilities!Ids(scenes')
    BY <2>1, <2>4 DEF UtilityInv, Utilities!UtilitiesFit
  <2>8. Utilities!UtilitiesFit'
    BY <2>1, <2>6, <2>7 DEF UtilityInv, Utilities!UtilitiesFit, Utilities!Ids
  <2> QED BY <2>1, <2>5, <2>8 DEF UtilityInv, LeadsOn, Both, Below
<1> QED BY <1>1, <1>2, <1>3, <1>4

-----------------------------------------------------------------------------
\* The n-th scene created goes to the n-th slot, where that is free.
LEMMA AssignedIs ==
    ASSUME UtilityInv, NEW plate \in Nat, NEW created, NEW size \in Nat,
           created = [n \in 1..size |-> created[n]],
           \A n \in 1..size : created[n] \in Nat
    PROVE  LET new == Utilities!Assigned(plate, created)
           IN  /\ new \subseteq ButtonRecords
               /\ \A b \in new :
                     /\ b.plate = plate /\ \E n \in 1..size : b.scene = created[n]
                     /\ \A c \in buttons : b.plate # c.plate \/ b.slot # c.slot
               /\ \A b, c \in new : b.slot = c.slot => b = c
<1> DEFINE new == Utilities!Assigned(plate, created)
           button(n) == [plate |-> plate, slot |-> Slots[n], scene |-> created[n]]
           at == Utilities!FreeSlots(plate) \cap DOMAIN created
<1>1. new = {button(n) : n \in at}
  BY DEF Utilities!Assigned, Utilities!Button
<1>2. /\ \A n \in DOMAIN Slots : Slots[n] \in Nat
      /\ \A m, n \in DOMAIN Slots : Slots[m] = Slots[n] => m = n
  BY UtilityInputs
<1>3. \A n \in at : /\ n \in DOMAIN Slots /\ n \in 1..size
                    /\ \A c \in buttons : c.plate # plate \/ c.slot # Slots[n]
  BY DEF Utilities!FreeSlots
<1>4. \A n \in at : /\ button(n) \in ButtonRecords /\ button(n).plate = plate
                    /\ button(n).slot = Slots[n] /\ button(n).scene = created[n]
  BY <1>2, <1>3 DEF ButtonRecords
<1> HIDE DEF new, button, at
<1>5. new \subseteq ButtonRecords
  BY <1>1, <1>4
<1>6. ASSUME NEW b \in new
      PROVE  /\ b.plate = plate /\ \E n \in 1..size : b.scene = created[n]
             /\ \A c \in buttons : b.plate # c.plate \/ b.slot # c.slot
  <2>1. PICK n \in at : b = button(n)
    BY <1>1
  <2> QED BY <1>3, <1>4, <2>1
<1>7. ASSUME NEW b \in new, NEW c \in new, b.slot = c.slot
      PROVE  b = c
  <2>1. PICK m \in at, n \in at : b = button(m) /\ c = button(n)
    BY <1>1
  <2>2. m \in DOMAIN Slots /\ n \in DOMAIN Slots /\ Slots[m] = Slots[n]
    BY <1>3, <1>4, <1>7, <2>1
  <2>3. m = n
    BY <1>2, <2>2
  <2> QED BY <2>1, <2>3
<1> QED BY <1>5, <1>6, <1>7 DEF new

\* The same, for the first switch if there is one.
LEMMA OfferedIs ==
    ASSUME UtilityInv, NEW size \in Nat, NEW created,
           created = [n \in 1..size |-> created[n]],
           \A n \in 1..size : created[n] \in Nat,
           NEW offered,
           offered = {} \/ offered = Utilities!Assigned(Utilities!FirstPlate, created)
    PROVE  /\ offered \subseteq ButtonRecords
           /\ \A b \in offered :
                 /\ \E n \in 1..size : b.scene = created[n]
                 /\ \A c \in buttons : b.plate # c.plate \/ b.slot # c.slot
           /\ \A b, c \in offered : b.plate = c.plate /\ b.slot = c.slot => b = c
<1>1. Utilities!FirstPlate \in Nat
  <2>1. CASE Plates = <<>>
    BY <2>1 DEF Utilities!FirstPlate
  <2>2. CASE Plates # <<>>
    <3>1. 1 \in DOMAIN Plates
      BY <2>2, UtilityInputs
    <3> QED BY <2>2, <3>1, UtilityInputs DEF Utilities!FirstPlate
  <2> QED BY <2>1, <2>2
<1>2. CASE offered = {}
  BY <1>2
<1>3. CASE offered = Utilities!Assigned(Utilities!FirstPlate, created)
  <2>1. LET new == Utilities!Assigned(Utilities!FirstPlate, created)
        IN  /\ new \subseteq ButtonRecords
            /\ \A b \in new :
                  /\ b.plate = Utilities!FirstPlate /\ \E n \in 1..size : b.scene = created[n]
                  /\ \A c \in buttons : b.plate # c.plate \/ b.slot # c.slot
            /\ \A b, c \in new : b.slot = c.slot => b = c
    BY <1>1, AssignedIs, Zenon
  <2> QED BY <1>3, <2>1
<1> QED BY <1>2, <1>3

\* A chain of scenes, each leading to the next one.
LEMMA ExtractorFits ==
    ASSUME UtilityInv, NEW assign \in BOOLEAN, Utilities!CreateExtractor(assign)
    PROVE  UtilityInv'
<1> DEFINE first == Utilities!NextSceneId(scenes, binned)
           root == Utilities!NextGroupId
           created == [n \in 1..ExtractorCount |-> first + n - 1]
           next(n) == IF n = ExtractorCount THEN 0 ELSE created[n + 1]
           new(n) == [id |-> created[n], group |-> root, next |-> next(n), extender |-> 0]
           newScenes == {new(n) : n \in 1..ExtractorCount}
           newGroups == {[id |-> root, parent |-> 0]}
           newButtons == IF assign /\ Plates # <<>>
                         THEN Utilities!Assigned(Utilities!FirstPlate, created) ELSE {}
<1>1. Utilities!Merge(newScenes, newGroups, newButtons)
  BY DEF Utilities!CreateExtractor, Utilities!Scene
<1>2. ExtractorCount \in Nat \ {0}
  BY UtilityInputs
<1>3. first \in Nat \ {0} /\ root \in Nat \ {0}
  BY FreshScene, FreshGroup
<1> HIDE DEF first, root
<1>4. \A n \in 1..ExtractorCount : /\ created[n] = first + n - 1 /\ created[n] \in Nat \ {0}
                                   /\ next(n) \in Nat
                                   /\ next(n) = 0 \/ created[n] < next(n)
  BY <1>2, <1>3
<1>5. created = [n \in 1..ExtractorCount |-> created[n]]
  OBVIOUS
<1> HIDE DEF next
<1>6. \A n \in 1..ExtractorCount :
         /\ new(n) \in SceneRecords /\ new(n).id = first + n - 1 /\ new(n).group = root
         /\ new(n).next = 0 \/ new(n).id < new(n).next
  BY <1>3, <1>4 DEF SceneRecords
<1> HIDE DEF new
<1>7. /\ newScenes \subseteq SceneRecords /\ LeadsOn(newScenes)
      /\ \A s \in newScenes : s.id >= first /\ s.group = root
      /\ \A s, t \in newScenes : s.id = t.id => s = t
  <2>1. newScenes \subseteq SceneRecords /\ LeadsOn(newScenes)
    BY <1>6 DEF LeadsOn
  <2>2. \A s \in newScenes : s.id >= first /\ s.group = root
    BY <1>3, <1>6
  <2>3. ASSUME NEW s \in newScenes, NEW t \in newScenes, s.id = t.id
        PROVE  s = t
    <3>1. PICK m \in 1..ExtractorCount, n \in 1..ExtractorCount : s = new(m) /\ t = new(n)
      OBVIOUS
    <3>2. m = n
      BY <1>3, <1>6, <2>3, <3>1
    <3> QED BY <3>1, <3>2
  <2> QED BY <2>1, <2>2, <2>3
<1>8. Below(newScenes, first + ExtractorCount) /\ Below(newGroups, root)
  BY <1>2, <1>3, <1>6 DEF Below
<1>9. /\ newGroups \subseteq GroupRecords
      /\ \A s \in newScenes : \E g \in newGroups : s.group = g.id
  BY <1>3, <1>7 DEF GroupRecords
<1>10. \A n \in 1..ExtractorCount : \E s \in newScenes : s.id = created[n]
  BY <1>4, <1>6
<1> HIDE DEF newScenes, newGroups, created
<1>11. /\ newButtons \subseteq ButtonRecords
       /\ \A b \in newButtons :
             /\ \E s \in newScenes : b.scene = s.id
             /\ \A c \in buttons : b.plate # c.plate \/ b.slot # c.slot
       /\ \A b, c \in newButtons : b.plate = c.plate /\ b.slot = c.slot => b = c
  <2>1. \A n \in 1..ExtractorCount : created[n] \in Nat
    BY <1>4
  <2>2. newButtons = {} \/ newButtons = Utilities!Assigned(Utilities!FirstPlate, created)
    OBVIOUS
  <2> HIDE DEF newButtons
  <2>3. /\ newButtons \subseteq ButtonRecords
        /\ \A b \in newButtons :
              /\ \E n \in 1..ExtractorCount : b.scene = created[n]
              /\ \A c \in buttons : b.plate # c.plate \/ b.slot # c.slot
        /\ \A b, c \in newButtons : b.plate = c.plate /\ b.slot = c.slot => b = c
    BY <1>2, <1>5, <2>1, <2>2, OfferedIs
  <2>4. \A b \in newButtons : \E s \in newScenes : b.scene = s.id
    BY <1>10, <2>3
  <2> QED BY <2>3, <2>4
<1> HIDE DEF newButtons
<1>12. \E N : Below(newScenes, N)
  BY <1>8
<1>13. \E N : Below(newGroups, N)
  BY <1>8
<1> QED BY <1>1, <1>7, <1>9, <1>11, <1>12, <1>13, MergeFits DEF first

\* Scenes made one after another: their IDs are, too.
IsRow(S, row, from, size) ==
    /\ from \in Nat \ {0} /\ size \in Nat
    /\ \A n \in 1..size : /\ row[n] \in SceneRecords /\ row[n].id = from + n - 1
                          /\ row[n].next = 0 \/ row[n].id < row[n].next
    /\ S = {row[n] : n \in 1..size}

LEMMA RowIs ==
    ASSUME NEW S, NEW row, NEW from, NEW size, IsRow(S, row, from, size)
    PROVE  /\ S \subseteq SceneRecords /\ LeadsOn(S)
           /\ \A s \in S : from <= s.id /\ s.id < from + size
           /\ \A s, t \in S : s.id = t.id => s = t
<1>1. S \subseteq SceneRecords /\ LeadsOn(S)
  BY DEF LeadsOn, IsRow
<1>2. \A s \in S : from <= s.id /\ s.id < from + size
  BY DEF IsRow
<1>3. ASSUME NEW s \in S, NEW t \in S, s.id = t.id
      PROVE  s = t
  <2>1. PICK m \in 1..size, n \in 1..size : s = row[m] /\ t = row[n]
    BY DEF IsRow
  <2>2. m = n
    BY <1>3, <2>1 DEF IsRow
  <2> QED BY <2>1, <2>2
<1> QED BY <1>1, <1>2, <1>3

\* Steps that lead to one another and to the last of the control scenes, and
\* scenes that lead nowhere.
LEMMA SecurityFits ==
    ASSUME UtilityInv, NEW assign \in BOOLEAN, Utilities!CreateSecurity(assign)
    PROVE  UtilityInv'
<1> DEFINE first == Utilities!NextSceneId(scenes, binned)
           root == Utilities!NextGroupId
           run(from, size) == [n \in 1..size |-> first + from + n - 1]
           step == run(0, StepCount)
           target == run(StepCount, StepCount)
           control == run(2 * StepCount, ControlCount)
           trigger == run(2 * StepCount + ControlCount, TriggerCount)
           after(n) == Utilities!StepAfter(n, step, Utilities!Last(control))
           steps == [n \in 1..StepCount |->
                       [id |-> step[n], group |-> root + 1, next |-> after(n),
                        extender |-> target[n]]]
           plain(ids, size, group) ==
               [n \in 1..size |-> [id |-> ids[n], group |-> group, next |-> 0, extender |-> 0]]
           targets == plain(target, StepCount, root + 2)
           controls == plain(control, ControlCount, root)
           triggers == plain(trigger, TriggerCount, root)
           S1 == {steps[n] : n \in 1..StepCount}
           S2 == {targets[n] : n \in 1..StepCount}
           S3 == {controls[n] : n \in 1..ControlCount}
           S4 == {triggers[n] : n \in 1..TriggerCount}
           newScenes == S1 \cup S2 \cup S3 \cup S4
           newGroups == {[id |-> root, parent |-> 0], [id |-> root + 1, parent |-> root],
                         [id |-> root + 2, parent |-> root]}
           newButtons == IF assign /\ Plates # <<>>
                         THEN Utilities!Assigned(Utilities!FirstPlate, trigger) ELSE {}
<1>1. Utilities!Merge(newScenes, newGroups, newButtons)
  <2> DEFINE flat(ids, group) == {Utilities!Scene(ids[n], group, 0, 0) : n \in DOMAIN ids}
             flatSteps == {Utilities!Scene(step[n], root + 1, after(n), target[n]) :
                            n \in DOMAIN step}
  <2>1. Utilities!Merge(flatSteps \cup flat(target, root + 2) \cup flat(control, root)
                          \cup flat(trigger, root), newGroups, newButtons)
    BY DEF Utilities!CreateSecurity
  <2>2. flatSteps = S1
    BY DEF Utilities!Scene
  <2>3. flat(target, root + 2) = S2
    BY DEF Utilities!Scene
  <2>4. flat(control, root) = S3
    BY DEF Utilities!Scene
  <2>5. flat(trigger, root) = S4
    BY DEF Utilities!Scene
  <2> HIDE DEF flat, flatSteps, S1, S2, S3, S4, newGroups, newButtons
  <2> QED BY <2>1, <2>2, <2>3, <2>4, <2>5
<1>2. /\ StepCount \in Nat \ {0} /\ ControlCount \in Nat \ {0} /\ TriggerCount \in Nat \ {0}
  BY UtilityInputs
<1>3. first \in Nat \ {0} /\ root \in Nat \ {0}
  BY FreshScene, FreshGroup
<1> HIDE DEF first, root
<1>4. Utilities!Last(control) = first + 2 * StepCount + ControlCount - 1
  <2>1. Len(control) = ControlCount
    BY <1>2
  <2> QED BY <1>2, <1>3, <2>1 DEF Utilities!Last
<1>5. \A n \in 1..StepCount : after(n) \in Nat /\ step[n] < after(n)
  BY <1>2, <1>3, <1>4 DEF Utilities!StepAfter
<1> HIDE DEF after
<1>6. \A n \in 1..StepCount : steps[n] \in SceneRecords
  <2>1. \A n \in 1..StepCount : step[n] \in Nat \ {0} /\ target[n] \in Nat
    BY <1>2, <1>3
  <2> QED BY <1>3, <1>5, <2>1 DEF SceneRecords
<1>7. \A n \in 1..StepCount : /\ steps[n].id = first + n - 1
                              /\ steps[n].next = 0 \/ steps[n].id < steps[n].next
  BY <1>2, <1>3, <1>5
<1>8. \A n \in 1..StepCount : targets[n] \in SceneRecords
                              /\ targets[n].id = (first + StepCount) + n - 1
                              /\ targets[n].next = 0
  BY <1>2, <1>3 DEF SceneRecords
<1>9. \A n \in 1..ControlCount : controls[n] \in SceneRecords
                              /\ controls[n].id = (first + 2 * StepCount) + n - 1
                              /\ controls[n].next = 0
  BY <1>2, <1>3 DEF SceneRecords
<1>10. \A n \in 1..TriggerCount : triggers[n] \in SceneRecords
                              /\ triggers[n].id = (first + 2 * StepCount + ControlCount) + n - 1
                              /\ triggers[n].next = 0 /\ triggers[n].id = trigger[n]
  BY <1>2, <1>3 DEF SceneRecords
<1>11. /\ \A n \in 1..TriggerCount : trigger[n] \in Nat
       /\ trigger = [n \in 1..TriggerCount |-> trigger[n]]
  BY <1>2, <1>3
<1>12. /\ \A s \in S1 : s.group = root + 1
       /\ \A s \in S2 : s.group = root + 2
       /\ \A s \in S3 \cup S4 : s.group = root
  OBVIOUS
<1> HIDE DEF steps, targets, controls, triggers, trigger
<1>13. /\ S1 \subseteq SceneRecords /\ LeadsOn(S1)
       /\ \A s \in S1 : first <= s.id /\ s.id < first + StepCount
       /\ \A s, t \in S1 : s.id = t.id => s = t
  <2>1. first \in Nat \ {0}
    BY <1>2, <1>3
  <2>2. IsRow(S1, steps, first, StepCount)
    BY <1>2, <2>1, <1>6, <1>7 DEF IsRow
  <2> HIDE DEF S1
  <2> QED BY <2>2, RowIs
<1>14. /\ S2 \subseteq SceneRecords /\ LeadsOn(S2)
       /\ \A s \in S2 : first + StepCount <= s.id /\ s.id < (first + StepCount) + StepCount
       /\ \A s, t \in S2 : s.id = t.id => s = t
  <2>1. first + StepCount \in Nat \ {0}
    BY <1>2, <1>3
  <2>2. IsRow(S2, targets, first + StepCount, StepCount)
    BY <1>2, <2>1, <1>8 DEF IsRow
  <2> HIDE DEF S2
  <2> QED BY <2>2, RowIs
<1>15. /\ S3 \subseteq SceneRecords /\ LeadsOn(S3)
       /\ \A s \in S3 : first + 2 * StepCount <= s.id /\ s.id < (first + 2 * StepCount) + ControlCount
       /\ \A s, t \in S3 : s.id = t.id => s = t
  <2>1. first + 2 * StepCount \in Nat \ {0}
    BY <1>2, <1>3
  <2>2. IsRow(S3, controls, first + 2 * StepCount, ControlCount)
    BY <1>2, <2>1, <1>9 DEF IsRow
  <2> HIDE DEF S3
  <2> QED BY <2>2, RowIs
<1>16. /\ S4 \subseteq SceneRecords /\ LeadsOn(S4)
       /\ \A s \in S4 : first + 2 * StepCount + ControlCount <= s.id /\ s.id < (first + 2 * StepCount + ControlCount) + TriggerCount
       /\ \A s, t \in S4 : s.id = t.id => s = t
  <2>1. first + 2 * StepCount + ControlCount \in Nat \ {0}
    BY <1>2, <1>3
  <2>2. IsRow(S4, triggers, first + 2 * StepCount + ControlCount, TriggerCount)
    BY <1>2, <2>1, <1>10 DEF IsRow
  <2> HIDE DEF S4
  <2> QED BY <2>2, RowIs
<1>17. /\ newGroups \subseteq GroupRecords
       /\ \E g \in newGroups : g.id = root
       /\ \E g \in newGroups : g.id = root + 1
       /\ \E g \in newGroups : g.id = root + 2
       /\ Below(newGroups, root + 2)
  BY <1>3 DEF GroupRecords, Below
<1>18. \A n \in 1..TriggerCount : \E s \in newScenes : s.id = trigger[n]
  BY <1>10
<1>19. /\ newButtons \subseteq ButtonRecords
       /\ \A b \in newButtons :
             /\ \E s \in newScenes : b.scene = s.id
             /\ \A c \in buttons : b.plate # c.plate \/ b.slot # c.slot
       /\ \A b, c \in newButtons : b.plate = c.plate /\ b.slot = c.slot => b = c
  <2>1. newButtons = {} \/ newButtons = Utilities!Assigned(Utilities!FirstPlate, trigger)
    OBVIOUS
  <2> HIDE DEF newButtons, newScenes
  <2>2. /\ newButtons \subseteq ButtonRecords
        /\ \A b \in newButtons :
              /\ \E n \in 1..TriggerCount : b.scene = trigger[n]
              /\ \A c \in buttons : b.plate # c.plate \/ b.slot # c.slot
        /\ \A b, c \in newButtons : b.plate = c.plate /\ b.slot = c.slot => b = c
    BY <1>2, <1>11, <2>1, OfferedIs
  <2>3. \A b \in newButtons : \E s \in newScenes : b.scene = s.id
    BY <1>18, <2>2
  <2> QED BY <2>2, <2>3
<1> HIDE DEF S1, S2, S3, S4, newGroups, newButtons
<1>20. /\ newScenes \subseteq SceneRecords /\ LeadsOn(newScenes)
       /\ \A s \in newScenes : \E g \in newGroups : s.group = g.id
  BY <1>12, <1>13, <1>14, <1>15, <1>16, <1>17 DEF LeadsOn
<1>21. \A s \in newScenes : /\ s.id >= first
                            /\ s.id <= first + 2 * StepCount + ControlCount + TriggerCount
  <2>1. \A s \in newScenes : s.id \in Nat
    BY <1>20 DEF SceneRecords
  <2> QED BY <1>2, <1>3, <1>13, <1>14, <1>15, <1>16, <2>1
<1>22. Below(newScenes, first + 2 * StepCount + ControlCount + TriggerCount)
  BY <1>2, <1>3, <1>21 DEF Below
<1>23. \A s, t \in newScenes : s.id = t.id => s = t
  <2>1. \A s \in newScenes : s.id \in Nat
    BY <1>20 DEF SceneRecords
  <2> QED BY <1>2, <1>3, <1>13, <1>14, <1>15, <1>16, <2>1
<1> HIDE DEF newScenes
<1>24. \E N : Below(newScenes, N)
  BY <1>22
<1>25. \E N : Below(newGroups, N)
  BY <1>17
<1> QED BY <1>1, <1>17, <1>19, <1>20, <1>21, <1>23, <1>24, <1>25, MergeFits DEF first

-----------------------------------------------------------------------------
\* Of rooms in their order, each has more before it than the one before it.
LEMMA RoomsBefore ==
    ASSUME NEW N \in Nat, NEW S \in SUBSET (1..N)
    PROVE  LET before(m) == Utilities!Cardinality({k \in S : k < m})
           IN  /\ \A m \in S : before(m) \in 0..N
               /\ \A m, n \in S : m < n => before(m) < before(n)
<1> DEFINE P(m) == {k \in S : k < m}
<1>1. IsFiniteSet(1..N) /\ Cardinality(1..N) = N
  BY FS_Interval
<1>2. IsFiniteSet(S) /\ Cardinality(S) \in Nat /\ Cardinality(S) <= N
  BY <1>1, FS_Subset, FS_CardinalityType
<1>3. \A T : Utilities!Cardinality(T) = Cardinality(T)
  BY DEF Utilities!Cardinality, Cardinality, Utilities!IsFiniteSet, IsFiniteSet
<1>4. ASSUME NEW m \in S
      PROVE  /\ IsFiniteSet(P(m)) /\ Cardinality(P(m)) \in Nat
             /\ Cardinality(P(m)) <= N
  <2>1. P(m) \in SUBSET S
    OBVIOUS
  <2> HIDE DEF P
  <2>2. IsFiniteSet(P(m)) /\ Cardinality(P(m)) <= Cardinality(S)
    BY <1>2, <2>1, FS_Subset
  <2>3. Cardinality(P(m)) \in Nat
    BY <2>2, FS_CardinalityType
  <2> QED BY <1>2, <2>2, <2>3
<1>5. ASSUME NEW m \in S, NEW n \in S, m < n
      PROVE  Cardinality(P(m)) < Cardinality(P(n))
  <2>1. P(m) \in SUBSET P(n) /\ P(m) # P(n)
    <3>1. m \in P(n) /\ m \notin P(m)
      BY <1>5
    <3>2. ASSUME NEW k \in P(m)
          PROVE  k \in P(n)
      <4>1. k \in S /\ k < m /\ k \in Int /\ m \in Int /\ n \in Int
        OBVIOUS
      <4> QED BY <1>5, <4>1
    <3> QED BY <3>1, <3>2
  <2> HIDE DEF P
  <2>2. Cardinality(P(m)) <= Cardinality(P(n)) /\ Cardinality(P(m)) # Cardinality(P(n))
    BY <1>4, <2>1, FS_Subset
  <2> QED BY <1>4, <2>2
<1>6. \A m : Utilities!Cardinality(P(m)) = Cardinality(P(m))
  BY <1>3
<1> HIDE DEF P
<1>7. \A m \in S : Utilities!Cardinality(P(m)) \in 0..N
  BY <1>4, <1>6
<1>8. \A m, n \in S : m < n => Utilities!Cardinality(P(m)) < Utilities!Cardinality(P(n))
  BY <1>5, <1>6
<1> QED BY <1>7, <1>8 DEF P

\* The switch of a room is the first that qualifies, and of no other room.
LEMMA SwitchIs ==
    ASSUME UtilityInv, NEW m \in DOMAIN RoomOrder,
           \E n \in DOMAIN Plates : Plates[n].room = RoomOrder[m] /\ Plates[n].basic
    PROVE  LET n == Utilities!Min({k \in DOMAIN Plates :
                                     Plates[k].room = RoomOrder[m] /\ Plates[k].basic})
           IN  n \in DOMAIN Plates /\ Plates[n].room = RoomOrder[m] /\ Plates[n].id \in Nat
<1> DEFINE S == {k \in DOMAIN Plates : Plates[k].room = RoomOrder[m] /\ Plates[k].basic}
<1>1. S \in SUBSET Nat /\ S # {}
  BY UtilityInputs
<1>2. Utilities!Min(S) = CHOOSE x \in S : \A y \in S : x <= y
  BY DEF Utilities!Min
<1>3. Utilities!Min(S) \in S
  <2> HIDE DEF S
  <2>1. \E x \in S : \A y \in S : x <= y
    BY <1>1, Smallest
  <2> QED BY <1>2, <2>1, Zenon
<1> QED BY <1>3, UtilityInputs

\* Two scenes for each room with a switch, which go on that switch.
LEMMA SimpleFits ==
    ASSUME UtilityInv, NEW assign \in BOOLEAN, Utilities!CreateSimple(assign)
    PROVE  UtilityInv'
<1> DEFINE first == Utilities!NextSceneId(scenes, binned)
           has(m, n) == Plates[n].room = RoomOrder[m] /\ Plates[n].basic
           lit == {m \in DOMAIN RoomOrder : \E n \in DOMAIN Plates : has(m, n)}
           place(m) == Utilities!Min({n \in DOMAIN Plates : has(m, n)})
           plate(m) == Plates[place(m)].id
           earlier(m) == Utilities!Cardinality({k \in lit : k < m})
           id(m, n) == first + 2 * earlier(m) + (n - 1)
           created(m) == [n \in 1..2 |-> id(m, n)]
           new(m, n) == [id |-> id(m, n), group |-> 0, next |-> 0, extender |-> 0]
           newScenes == {new(m, n) : m \in lit, n \in 1..2}
           offered(m) == Utilities!Assigned(plate(m), created(m))
           newButtons == IF assign THEN UNION {offered(m) : m \in lit} ELSE {}
           rooms == Len(RoomOrder)
<1>1. Utilities!Merge(newScenes, {}, newButtons)
  BY DEF Utilities!CreateSimple, Utilities!Scene
<1>2. first \in Nat \ {0} /\ rooms \in Nat /\ lit \in SUBSET (1..rooms)
  BY FreshScene, UtilityInputs
<1>3. ASSUME NEW m \in lit
      PROVE  /\ m \in DOMAIN RoomOrder /\ place(m) \in DOMAIN Plates
             /\ Plates[place(m)].room = RoomOrder[m] /\ plate(m) \in Nat
  BY SwitchIs, Zenon
<1>4. ASSUME NEW m \in lit, NEW n \in lit, plate(m) = plate(n)
      PROVE  m = n
  <2> HIDE DEF place, lit
  <2>1. place(m) = place(n)
    BY <1>3, <1>4, UtilityInputs
  <2> QED BY <1>3, <2>1, UtilityInputs
<1> HIDE DEF first, rooms, lit, place
<1>5. /\ \A m \in lit : earlier(m) \in 0..rooms
      /\ \A m, n \in lit : m < n => earlier(m) < earlier(n)
  BY <1>2, RoomsBefore, Zenon
<1> HIDE DEF earlier
<1>6. \A m \in lit, n \in 1..2 : /\ id(m, n) \in Nat \ {0} /\ first <= id(m, n)
                                 /\ id(m, n) <= first + 2 * rooms + 1
  BY <1>2, <1>5
<1>7. \A m, l \in lit : \A n, k \in 1..2 : id(m, n) = id(l, k) => m = l /\ n = k
  <2> SUFFICES ASSUME NEW m \in lit, NEW l \in lit, NEW n \in 1..2, NEW k \in 1..2,
                      id(m, n) = id(l, k)
               PROVE  m = l /\ n = k
    OBVIOUS
  <2>1. earlier(m) \in Nat /\ earlier(l) \in Nat /\ m \in Nat /\ l \in Nat
    BY <1>2, <1>5
  <2>2. earlier(m) = earlier(l)
    BY <1>2, <2>1
  <2>3. ~(m < l) /\ ~(l < m)
    BY <1>5, <2>1, <2>2
  <2> QED BY <1>2, <2>1, <2>2, <2>3
<1>8. \A m \in lit : /\ created(m) = [n \in 1..2 |-> created(m)[n]]
                     /\ \A n \in 1..2 : created(m)[n] = id(m, n) /\ created(m)[n] \in Nat
  BY <1>6
<1> HIDE DEF id, created
<1>9. newScenes \subseteq SceneRecords /\ LeadsOn(newScenes)
  BY <1>6 DEF SceneRecords, LeadsOn
<1>10. \A s \in newScenes : s.id >= first /\ s.group = 0
  BY <1>2, <1>6
<1>11. \A s, t \in newScenes : s.id = t.id => s = t
  BY <1>7
<1>12. Below(newScenes, first + 2 * rooms + 1)
  BY <1>2, <1>6 DEF Below
<1>13. ASSUME NEW m \in lit, NEW n \in 1..2
       PROVE  \E s \in newScenes : s.id = id(m, n)
  <2>1. new(m, n).id = id(m, n)
    OBVIOUS
  <2> HIDE DEF new
  <2>2. new(m, n) \in newScenes
    OBVIOUS
  <2> HIDE DEF newScenes
  <2> QED BY <2>1, <2>2
<1> HIDE DEF newScenes
<1>14. ASSUME NEW m \in lit
       PROVE  /\ offered(m) \subseteq ButtonRecords
              /\ \A b \in offered(m) :
                    /\ b.plate = plate(m) /\ \E n \in 1..2 : b.scene = created(m)[n]
                    /\ \A c \in buttons : b.plate # c.plate \/ b.slot # c.slot
              /\ \A b, c \in offered(m) : b.slot = c.slot => b = c
  <2>1. plate(m) \in Nat /\ created(m) = [n \in 1..2 |-> created(m)[n]] /\ 2 \in Nat
    BY <1>3, <1>8
  <2>2. \A n \in 1..2 : created(m)[n] \in Nat
    BY <1>8
  <2> HIDE DEF plate
  <2> QED BY <2>1, <2>2, AssignedIs, ZenonT(30)
<1> HIDE DEF plate, offered
<1>15. \A b \in newButtons : \E m \in lit : b \in offered(m)
  OBVIOUS
<1> HIDE DEF newButtons
<1>16. /\ newButtons \subseteq ButtonRecords
       /\ \A b \in newButtons :
             /\ \E s \in newScenes : b.scene = s.id
             /\ \A c \in buttons : b.plate # c.plate \/ b.slot # c.slot
  <2> SUFFICES ASSUME NEW b \in newButtons
               PROVE  /\ b \in ButtonRecords
                      /\ \E s \in newScenes : b.scene = s.id
                      /\ \A c \in buttons : b.plate # c.plate \/ b.slot # c.slot
    OBVIOUS
  <2>1. PICK m \in lit : b \in offered(m)
    BY <1>15
  <2>2. PICK n \in 1..2 : b.scene = created(m)[n]
    BY <1>14, <2>1
  <2>3. b.scene = id(m, n)
    BY <1>8, <2>2
  <2>4. \E s \in newScenes : b.scene = s.id
    BY <1>13, <2>3
  <2> QED BY <1>14, <2>1, <2>4
<1>17. \A b, c \in newButtons : b.plate = c.plate /\ b.slot = c.slot => b = c
  <2> SUFFICES ASSUME NEW b \in newButtons, NEW c \in newButtons,
                      b.plate = c.plate, b.slot = c.slot
               PROVE  b = c
    OBVIOUS
  <2>1. PICK m \in lit : b \in offered(m)
    BY <1>15
  <2>2. PICK n \in lit : c \in offered(n)
    BY <1>15
  <2>3. plate(m) = plate(n)
    BY <1>14, <2>1, <2>2
  <2>4. m = n
    BY <1>4, <2>3 DEF plate
  <2> QED BY <1>14, <2>1, <2>2, <2>4
<1>18. \E N : Below(newScenes, N)
  BY <1>12
<1>19. \E N : Below({}, N)
  <2>1. Below({}, 0)
    BY DEF Below
  <2> QED BY <2>1
<1> QED BY <1>1, <1>9, <1>10, <1>11, <1>16, <1>17, <1>18, <1>19, MergeFits DEF first

LEMMA UtilityStep ==
    ASSUME UtilityInv, Utilities!UtilityNext
    PROVE  UtilityInv'
<1>1. CASE \E assign \in BOOLEAN : Utilities!CreateSimple(assign)
  BY <1>1, SimpleFits
<1>2. CASE \E assign \in BOOLEAN : Utilities!CreateExtractor(assign)
  BY <1>2, ExtractorFits
<1>3. CASE \E assign \in BOOLEAN : Utilities!CreateSecurity(assign)
  BY <1>3, SecurityFits
<1>4. CASE \/ \E s \in scenes : Utilities!DeleteScene(s)
           \/ \E s \in binned : Utilities!RestoreScene(s) \/ Utilities!PermanentlyDeleteScene(s)
           \/ \E n \in DOMAIN Plates, m \in DOMAIN Slots, id \in {0} \cup Utilities!Ids(scenes) :
                 Utilities!SetButtonScene(Plates[n].id, Slots[m], id)
  BY <1>4, MoveSceneFits, Zenon
<1> QED BY <1>1, <1>2, <1>3, <1>4 DEF Utilities!UtilityNext

-----------------------------------------------------------------------------
(* That the sequences end *)

IsWalk(f, id, N) ==
    f = [n \in 0..N |-> IF n = 0 THEN id ELSE Utilities!NextOf(f[n - 1])]

\* From every scene there is a walk of every length.
LEMMA WalkExists ==
    ASSUME NEW id, NEW N \in Nat
    PROVE  \E f : IsWalk(f, id, N)
<1> DEFINE T == {k \in Nat : ~\E f : IsWalk(f, id, k)}
<1>1. ASSUME T # {}
      PROVE  FALSE
  <2>1. PICK k \in T : \A n \in T : k <= n
    <3>1. T \in SUBSET Nat
      OBVIOUS
    <3> HIDE DEF T
    <3> QED BY <1>1, <3>1, Smallest
  <2>2. CASE k = 0
    <3>1. IsWalk([n \in 0..0 |-> id], id, 0)
      BY DEF IsWalk
    <3> QED BY <2>1, <2>2, <3>1
  <2>3. CASE k # 0
    <3>1. k \in Nat \ {0} /\ k - 1 \in Nat /\ k - 1 \notin T
      <4>1. k \in Nat \ {0} /\ k - 1 \in Nat
        BY <2>3
      <4> HIDE DEF T
      <4> QED BY <2>1, <4>1
    <3>2. PICK g : IsWalk(g, id, k - 1)
      BY <3>1
    <3> DEFINE f == [n \in 0..k |-> IF n = k THEN Utilities!NextOf(g[k - 1]) ELSE g[n]]
    <3>3. \A n \in 0..k - 1 : g[n] = IF n = 0 THEN id ELSE Utilities!NextOf(g[n - 1])
      BY <3>2 DEF IsWalk
    <3>4. \A n \in 0..k : f[n] = IF n = 0 THEN id ELSE Utilities!NextOf(f[n - 1])
      <4> TAKE n \in 0..k
      <4>1. CASE n = k
        <5>1. k - 1 \in 0..k /\ k - 1 # k /\ f[n - 1] = g[k - 1]
          BY <3>1, <4>1
        <5> QED BY <3>1, <4>1, <5>1
      <4>2. CASE n # k
        <5>1. n \in 0..k - 1
          BY <3>1, <4>2
        <5>2. CASE n = 0
          BY <3>3, <4>2, <5>1, <5>2
        <5>3. CASE n # 0
          <6>1. n - 1 \in 0..k /\ n - 1 # k
            BY <3>1, <5>1, <5>3
          <6>2. f[n - 1] = g[n - 1]
            BY <6>1
          <6>3. f[n] = g[n]
            BY <4>2
          <6> HIDE DEF f
          <6> QED BY <3>3, <5>1, <5>3, <6>2, <6>3
        <5> QED BY <5>2, <5>3
      <4> QED BY <4>1, <4>2
    <3>5. f = [n \in 0..k |-> f[n]]
      OBVIOUS
    <3> HIDE DEF f
    <3>6. IsWalk(f, id, k)
      BY <3>4, <3>5 DEF IsWalk
    <3> QED BY <3>6
  <2> QED BY <2>2, <2>3
<1> QED BY <1>1

LEMMA ScenesOfBoth ==
    ASSUME UtilityInv
    PROVE  IsFiniteSet(scenes) /\ Utilities!Cardinality(scenes) = Cardinality(scenes)
<1>1. PICK N : Below(Both, N)
  BY DEF UtilityInv
<1> DEFINE id == [s \in scenes |-> s.id]
<1>2. id \in Injection(scenes, 0..N)
  <2>1. \A s \in scenes : s.id \in 0..N
    BY <1>1 DEF Below, Both, UtilityInv, SceneRecords
  <2>2. \A s, t \in scenes : s.id = t.id => s = t
    BY DEF UtilityInv, Utilities!UtilitiesFit
  <2> QED BY <2>1, <2>2 DEF Injection, IsInjective
<1>3. IsFiniteSet(0..N)
  BY <1>1, FS_Interval DEF Below
<1>4. IsFiniteSet(scenes)
  BY <1>2, <1>3, FS_Injection
<1> QED BY <1>4 DEF Utilities!Cardinality, Cardinality, Utilities!IsFiniteSet, IsFiniteSet

\* What follows a scene is what the scene says; nothing follows what is gone.
LEMMA NextIs ==
    ASSUME UtilityInv
    PROVE  /\ \A s \in scenes : Utilities!NextOf(s.id) = s.next
           /\ \A id : id \notin Utilities!Ids(scenes) => Utilities!NextOf(id) = 0
<1>1. ASSUME NEW N \in Nat
      PROVE  Utilities!Max({0, N}) = N
  <2> DEFINE T == {0, N}
  <2>1. T \in SUBSET (0..N) /\ T # {}
    OBVIOUS
  <2>2. N \in T /\ \A n \in T : n \in Nat /\ n <= N
    OBVIOUS
  <2> HIDE DEF T
  <2>3. Gear!Max(T) \in T /\ \A n \in T : n <= Gear!Max(T)
    BY <2>1, MaxOfSet
  <2>4. Gear!Max(T) = N
    <3>1. Gear!Max(T) \in Nat /\ Gear!Max(T) <= N /\ N <= Gear!Max(T)
      BY <2>2, <2>3
    <3> QED BY <3>1
  <2>5. Utilities!Max(T) = Gear!Max(T)
    BY DEF Utilities!Max, Gear!Max
  <2> QED BY <2>4, <2>5 DEF T
<1>2. ASSUME NEW s \in scenes
      PROVE  Utilities!NextOf(s.id) = s.next
  <2>1. {x \in scenes : x.id = s.id} = {s}
    BY DEF UtilityInv, Utilities!UtilitiesFit
  <2>2. {0} \cup {x.next : x \in {s}} = {0, s.next}
    OBVIOUS
  <2>3. s.next \in Nat
    BY DEF UtilityInv, SceneRecords
  <2>4. Utilities!NextOf(s.id) = Utilities!Max({0} \cup {x.next : x \in {y \in scenes : y.id = s.id}})
    BY DEF Utilities!NextOf
  <2> QED BY <1>1, <2>1, <2>2, <2>3, <2>4
<1>3. ASSUME NEW id, id \notin Utilities!Ids(scenes)
      PROVE  Utilities!NextOf(id) = 0
  <2>1. {x \in scenes : x.id = id} = {}
    BY <1>3 DEF Utilities!Ids
  <2>2. {0} \cup {x.next : x \in {}} = {0, 0}
    OBVIOUS
  <2>3. Utilities!NextOf(id) = Utilities!Max({0} \cup {x.next : x \in {y \in scenes : y.id = id}})
    BY DEF Utilities!NextOf
  <2> QED BY <1>1, <2>1, <2>2, <2>3
<1> QED BY <1>2, <1>3

\* A walk that stays in the scenes goes from ID to higher ID, and cannot visit
\* one more than there are.
LEMMA WalkEnds ==
    ASSUME UtilityInv, NEW s \in scenes, NEW f, IsWalk(f, s.id, Cardinality(scenes))
    PROVE  f[Cardinality(scenes)] \notin Utilities!Ids(scenes)
<1> DEFINE c == Cardinality(scenes)
           ids == Utilities!Ids(scenes)
<1>1. IsFiniteSet(scenes) /\ c \in Nat
  BY ScenesOfBoth, FS_CardinalityType
<1> HIDE DEF c
<1>2. \A n \in 0..c : f[n] = IF n = 0 THEN s.id ELSE Utilities!NextOf(f[n - 1])
  BY DEF IsWalk, c
<1>3. 0 \notin ids /\ \A i \in ids : i \in Nat
  BY DEF Utilities!Ids, UtilityInv, SceneRecords
<1> HIDE DEF ids
<1>4. SUFFICES ASSUME f[c] \in ids
               PROVE  FALSE
  BY DEF c, ids
<1>5. \A n \in 0..c : f[n] \in ids
  <2> SUFFICES ASSUME NEW n \in 0..c, f[n] \notin ids
               PROVE  FALSE
    OBVIOUS
  <2> DEFINE T == {k \in n..c : f[k] \in ids}
  <2>1. T \in SUBSET Nat /\ c \in T
    BY <1>1, <1>4
  <2> HIDE DEF T
  <2>2. PICK k \in T : \A l \in T : k <= l
    BY <2>1, Smallest
  <2>3. k \in n..c /\ f[k] \in ids
    BY <2>2 DEF T
  <2>4. k \in 1..c /\ k - 1 \in n..c
    BY <1>1, <2>3
  <2>5. f[k - 1] \notin ids
    <3>1. k - 1 \notin T
      BY <2>2, <2>4
    <3> QED BY <2>4, <3>1 DEF T
  <2>6. f[k] = 0
    BY <1>2, <2>4, <2>5, NextIs DEF ids
  <2> QED BY <1>3, <2>3, <2>6
<1>6. \A n \in 1..c : f[n - 1] < f[n]
  <2> TAKE n \in 1..c
  <2>1. n - 1 \in 0..c /\ n \in 0..c /\ n # 0
    BY <1>1
  <2>2. PICK t \in scenes : f[n - 1] = t.id
    BY <1>5, <2>1 DEF ids, Utilities!Ids
  <2>3. f[n] = t.next
    BY <1>2, <2>1, <2>2, NextIs
  <2>4. f[n] # 0
    BY <1>3, <1>5, <2>1
  <2> QED BY <2>2, <2>3, <2>4 DEF UtilityInv, LeadsOn, Both
<1>7. ASSUME NEW m \in 0..c, NEW n \in 0..c, m < n
      PROVE  f[m] < f[n]
  <2> DEFINE T == {k \in m + 1..c : ~(f[m] < f[k])}
  <2>1. T \in SUBSET Nat
    BY <1>1
  <2>2. T = {}
    <3> SUFFICES ASSUME T # {}
                 PROVE  FALSE
      OBVIOUS
    <3>1. PICK k \in T : \A l \in T : k <= l
      <4> HIDE DEF T
      <4> QED BY <2>1, Smallest
    <3>2. k \in m + 1..c /\ ~(f[m] < f[k])
      OBVIOUS
    <3>3. k \in 1..c /\ k \in 0..c /\ k - 1 \in 0..c
      BY <1>1, <3>2
    <3>4. f[k - 1] < f[k] /\ f[m] \in Nat /\ f[k] \in Nat /\ f[k - 1] \in Nat
      BY <1>3, <1>5, <1>6, <3>3
    <3>5. CASE k - 1 = m
      BY <3>2, <3>4, <3>5
    <3>6. CASE k - 1 # m
      <4>1. k - 1 \in m + 1..c
        BY <1>1, <3>2, <3>3, <3>6
      <4>2. k - 1 \notin T
        <5> HIDE DEF T
        <5> QED BY <3>1, <3>3
      <4>3. f[m] < f[k - 1]
        BY <4>1, <4>2
      <4> QED BY <3>2, <3>4, <4>3
    <3> QED BY <3>5, <3>6
  <2>3. n \in m + 1..c
    BY <1>1, <1>7
  <2> QED BY <2>2, <2>3
<1> DEFINE at(n) == CHOOSE t \in scenes : t.id = f[n]
           visit == [n \in 0..c |-> at(n)]
<1>8. \A n \in 0..c : at(n) \in scenes /\ at(n).id = f[n]
  <2> TAKE n \in 0..c
  <2>1. \E t \in scenes : t.id = f[n]
    BY <1>5 DEF ids, Utilities!Ids
  <2> QED BY <2>1, Zenon
<1> HIDE DEF at
<1>9. visit \in [0..c -> scenes]
  BY <1>8
<1>10. IsFiniteSet(0..c) /\ Cardinality(scenes) < Cardinality(0..c)
  <2>1. IsFiniteSet(0..c) /\ Cardinality(0..c) = c + 1
    BY <1>1, FS_Interval
  <2>2. Cardinality(scenes) = c
    BY DEF c
  <2> QED BY <1>1, <2>1, <2>2
<1> HIDE DEF visit
<1>11. PICK m \in 0..c, n \in 0..c : m # n /\ visit[m] = visit[n]
  BY <1>1, <1>9, <1>10, FS_PigeonHole
<1>12. f[m] = f[n]
  BY <1>8, <1>11 DEF visit
<1>13. (m < n \/ n < m) /\ f[m] \in Nat /\ f[n] \in Nat
  BY <1>1, <1>3, <1>5, <1>11
<1>14. ~(f[m] < f[n]) /\ ~(f[n] < f[m])
  BY <1>12, <1>13
<1> QED BY <1>7, <1>13, <1>14

LEMMA SequencesDoEnd == UtilityInv => Utilities!SequencesEnd
<1> SUFFICES ASSUME UtilityInv, NEW s \in scenes
             PROVE  LET walk[n \in 0..Utilities!Cardinality(scenes)] ==
                            IF n = 0 THEN s.id ELSE Utilities!NextOf(walk[n - 1])
                    IN  walk[Utilities!Cardinality(scenes)] \notin Utilities!Ids(scenes)
  BY DEF Utilities!SequencesEnd
<1> DEFINE c == Cardinality(scenes)
           walk == CHOOSE f : f = [n \in 0..Utilities!Cardinality(scenes) |->
                                     IF n = 0 THEN s.id ELSE Utilities!NextOf(f[n - 1])]
<1>1. Utilities!Cardinality(scenes) = c /\ c \in Nat
  BY ScenesOfBoth, FS_CardinalityType
<1>2. IsWalk(walk, s.id, c)
  <2>1. \E f : IsWalk(f, s.id, Utilities!Cardinality(scenes))
    BY <1>1, WalkExists
  <2> HIDE DEF c
  <2>2. walk = [n \in 0..Utilities!Cardinality(scenes) |->
                  IF n = 0 THEN s.id ELSE Utilities!NextOf(walk[n - 1])]
    BY <2>1, Zenon DEF IsWalk
  <2> HIDE DEF walk
  <2> QED BY <1>1, <2>2 DEF IsWalk
<1>3. walk[c] \notin Utilities!Ids(scenes)
  <2> HIDE DEF walk
  <2> QED BY <1>2, WalkEnds
<1>4. walk[Utilities!Cardinality(scenes)] \notin Utilities!Ids(scenes)
  <2> HIDE DEF walk
  <2> QED BY <1>1, <1>3
<1> QED BY <1>4, Zenon

-----------------------------------------------------------------------------
(* Sites and configurations *)

LEMMA InitSitesPart == MCInit => SitesInv /\ ImportsFit
BY WorkspaceAssumption, InitSites DEF MCInit

LEMMA NextSitesPart ==
    ASSUME SitesInv, ImportsFit, [MCNext]_vars
    PROVE  SitesInv' /\ ImportsFit' /\ ((part = "sites" => StepKeeps) \/ UNCHANGED vars)
<1>1. CASE part = "sites" /\ SitesNext
  BY <1>1, WorkspaceAssumption, SitesStep, ImportsStay
<1>2. CASE part # "sites" /\ UNCHANGED sitesVars
  BY <1>2, SitesStutter
<1>3. CASE UNCHANGED vars
  <2>1. UNCHANGED sitesVars
    BY <1>3 DEF vars
  <2> QED BY <1>3, <2>1, SitesStutter
<1> QED BY <1>1, <1>2, <1>3 DEF MCNext

\* The view of the workspace is whole after every step: every configuration is
\* of a site that is there, every site has one, the one that is shown has the
\* active one, whose content alone is on top, and configurations of one ID are the
\* same (canonicalizeAppData and materializeAppData after every operation).
THEOREM WorkspaceIsWhole == MCSpec => [](SitesInv /\ SitesTypeOK)
<1>1. MCInit => SitesInv /\ ImportsFit
  BY InitSitesPart
<1>2. SitesInv /\ ImportsFit /\ [MCNext]_vars => SitesInv' /\ ImportsFit'
  BY NextSitesPart
<1>3. SitesInv /\ ImportsFit => SitesTypeOK
  BY SitesTyped
<1> QED BY <1>1, <1>2, <1>3, PTL DEF MCSpec

\* No content of a configuration and no site gets lost or mixed up, whatever
\* is selected, created, renamed, duplicated, deleted or imported; and a site
\* that an import found as it is keeps the address in use and a valid code.
THEOREM WorkspaceContentsKept == MCSpec => ContentsKept
<1>1. MCInit => SitesInv /\ ImportsFit
  BY InitSitesPart
<1>2. SitesInv /\ ImportsFit /\ [MCNext]_vars => SitesInv' /\ ImportsFit'
  BY NextSitesPart
<1>3. SitesInv /\ ImportsFit /\ [MCNext]_vars =>
        [part = "sites" => KeepsContents /\ KeepsSites /\ NamedKeepConfigurations]_vars
  BY NextSitesPart DEF StepKeeps
<1> QED BY <1>1, <1>2, <1>3, PTL DEF MCSpec, ContentsKept

-----------------------------------------------------------------------------
(* Equipment, utilities, sites and migrations together *)

\* What was found of an older build stays what it was.
FoundOld == part = "old" => MigrationInit

\* Whatever is added, deleted, restored and created, in any order: no two
\* devices or areas, deleted or not, have one key; no two scenes have one ID,
\* the group of a scene is there, a button is assigned once, to a scene that is
\* there or to none, and no scene leads back to itself.  And whatever is done to sites and configurations:
\* as long as the site IDs are distinct, the server takes the workspace, and its
\* backup restores what the editor shows.  And what was made by an older build
\* is whole and right after the migrations, and they change nothing the second
\* time (isFlexiDimWorkspace, addEntity, restoreDeletedEntity,
\* createSceneUtility, moveSceneToDeleted, restoreDeletedScene, setButtonScene,
\* restoreAreaHierarchy, the migrations of app/fd4cfg.ts).
THEOREM WorkspaceEntitiesFit == MCSpec => []EntitiesFit
<1>1. UtilityInv /\ [MCNext]_vars => UtilityInv'
  <2> SUFFICES ASSUME UtilityInv, [MCNext]_vars
               PROVE  UtilityInv'
    OBVIOUS
  <2>1. CASE Utilities!UtilityNext
    BY <2>1, UtilityStep
  <2>2. CASE UNCHANGED utilityVars
    BY <2>2 DEF utilityVars, UtilityInv, LeadsOn, Below, Both, Utilities!UtilitiesFit,
                Utilities!Ids
  <2> QED BY <2>1, <2>2 DEF MCNext, vars
<1>2. MCSpec => []UtilityInv
  BY <1>1, InitUtility, PTL DEF MCSpec
<1>3. MCInit => FoundOld
  BY DEF MCInit, FoundOld
<1>4. FoundOld /\ [MCNext]_vars => FoundOld'
  BY DEF MCNext, vars, FoundOld, MigrationInit
<1>5. FoundOld => (part = "old" => MigrationsRight)
  BY MigrationsHold, WorkspaceAssumption DEF FoundOld
<1>6. UtilityInv /\ Gear!KeysUnique /\ SitesInv /\ FoundOld => EntitiesFit
  BY <1>5, SequencesDoEnd, SavedAndRestored, WorkspaceAssumption DEF UtilityInv, EntitiesFit
<1> QED BY <1>2, <1>3, <1>4, <1>6, WorkspaceKeysUnique, WorkspaceIsWhole, PTL DEF MCSpec
=============================================================================
