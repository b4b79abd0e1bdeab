-------------------------- MODULE MCEditing_proofs --------------------------
(***************************************************************************)
(* The safety of the editor's parts that move things about, for any        *)
(* channels, devices, modules and scenes that the assumptions of their     *)
(* modules allow: live dimming, the equipment and what was deleted of it,  *)
(* the order of scenes and that of modules.  Each part has an inductive    *)
(* invariant of its own, and the parts share no variables.  The sets are   *)
(* finite but of no fixed size: where the code counts (the place of a      *)
(* scene in its group) the proofs count with bijections to 0..n-1, and the *)
(* highest of a set of numbers exists by the least-number principle        *)
(* (Smallest).                                                             *)
(***************************************************************************)
EXTENDS MCWorkspace, Workspace_proofs

-----------------------------------------------------------------------------
(* Live dimming *)

\* Settings of a channel there is, of any level.
IsSetting(s) == \E c \in Dims!ChannelSet : \E level : s = Dims!Setting(c, level)

\* What transmitDim was called with last has been sent, or it is what waits for
\* the timer, which runs as long as something waits.
LatestOnItsWay ==
    /\ latest # Dims!NoSetting =>
         IF pending = Dims!NoSetting THEN sent[latest.channel] = latest.level
         ELSE pending = latest
    /\ ~timer => pending = Dims!NoSetting

DimTyped ==
    /\ sent = [c \in Dims!ChannelSet |-> sent[c]]
    /\ pending # Dims!NoSetting => IsSetting(pending)
    /\ \A s \in flashes : IsSetting(s)

DimInv == DimTyped /\ LatestOnItsWay

LEMMA InitDim == MCInit => DimInv
BY WorkspaceAssumption DEF MCInit, Dims!ThrottleInit, Dims!ThrottleAssumption, DimInv, DimTyped,
   LatestOnItsWay

LEMMA SettingIsOne ==
    ASSUME NEW s, IsSetting(s)
    PROVE  s # Dims!NoSetting /\ s.channel \in Dims!ChannelSet
<1>1. \A c \in Dims!ChannelSet : c \in Nat \ {0}
  BY WorkspaceAssumption DEF Dims!ThrottleAssumption, Dims!ChannelSet
<1> QED BY <1>1 DEF IsSetting, Dims!Setting, Dims!NoSetting

LEMMA TransmitDim ==
    ASSUME DimInv, NEW settings,
           Len(settings) \in Nat \ {0},
           \A n \in 1..Len(settings) : IsSetting(settings[n]),
           \A s \in flashes' : IsSetting(s),
           Dims!Transmit(settings)
    PROVE  DimInv'
<1> DEFINE final == Dims!Last(settings)
           first == Head(settings)
<1>1. final = settings[Len(settings)] /\ first = settings[1]
  BY DEF Dims!Last
<1>2. IsSetting(final) /\ IsSetting(first)
  BY <1>1
<1>3. Len(settings) > 1 \/ final = first
  BY <1>1
<1>4. /\ latest' = final
      /\ IF timer THEN pending' = final /\ UNCHANGED <<sent, timer>>
         ELSE /\ sent' = [sent EXCEPT ![first.channel] = first.level]
              /\ pending' = IF Len(settings) > 1 THEN final ELSE Dims!NoSetting
              /\ timer' = TRUE
  BY DEF Dims!Transmit
<1> HIDE DEF final, first
<1>5. final # Dims!NoSetting /\ first # Dims!NoSetting /\ first.channel \in Dims!ChannelSet
  BY <1>2, SettingIsOne
<1>6. CASE timer
  BY <1>2, <1>4, <1>5, <1>6 DEF DimInv, DimTyped, LatestOnItsWay, IsSetting
<1>7. CASE ~timer
  <2>1. DimTyped'
    BY <1>2, <1>4, <1>7 DEF DimInv, DimTyped, IsSetting
  <2>2. sent'[first.channel] = first.level
    BY <1>4, <1>5, <1>7 DEF DimInv, DimTyped
  <2> QED BY <1>3, <1>4, <1>5, <1>7, <2>1, <2>2 DEF DimInv, LatestOnItsWay
<1> QED BY <1>6, <1>7

LEMMA DimStep == DimInv /\ Dims!ThrottleNext => DimInv'
<1> SUFFICES ASSUME DimInv, Dims!ThrottleNext PROVE DimInv'
  OBVIOUS
<1>1. CASE Dims!IntervalEnds
  <2>1. CASE pending = Dims!NoSetting
    BY <1>1, <2>1 DEF Dims!IntervalEnds, DimInv, DimTyped, LatestOnItsWay, IsSetting
  <2>2. CASE pending # Dims!NoSetting
    <3>1. pending.channel \in Dims!ChannelSet
      BY <2>2, SettingIsOne DEF DimInv, DimTyped
    <3>2. /\ sent' = [sent EXCEPT ![pending.channel] = pending.level]
          /\ pending' = Dims!NoSetting /\ UNCHANGED <<timer, flashes, latest>>
      BY <1>1, <2>2 DEF Dims!IntervalEnds
    <3>3. sent'[pending.channel] = pending.level
      BY <3>1, <3>2 DEF DimInv, DimTyped
    <3>4. latest # Dims!NoSetting => pending = latest
      BY <2>2 DEF DimInv, LatestOnItsWay
    <3>5. timer
      BY <1>1 DEF Dims!IntervalEnds
    <3> QED BY <3>2, <3>3, <3>4, <3>5 DEF DimInv, DimTyped, LatestOnItsWay, IsSetting
  <2> QED BY <2>1, <2>2
<1>2. ASSUME NEW c \in Dims!ChannelSet, Dims!Flash(c) PROVE DimInv'
  <2> DEFINE s == Dims!Setting(c, IF shown[c] >= 50 THEN 0 ELSE 100)
  <2>1. Dims!Transmit(<<s>>)
    BY <1>2 DEF Dims!Flash
  <2>2. IsSetting(s) /\ IsSetting(Dims!Setting(c, shown[c]))
    BY DEF IsSetting
  <2>3. \A f \in flashes' : IsSetting(f)
    BY <1>2, <2>2 DEF Dims!Flash, DimInv, DimTyped
  <2> QED
    <3> HIDE DEF s
    <3> QED BY <2>1, <2>2, <2>3, TransmitDim
<1>3. ASSUME NEW c \in Dims!ChannelSet, NEW level \in Levels, Dims!SetLevel(c, level)
      PROVE  DimInv'
  <2> DEFINE s == Dims!Setting(c, level)
  <2>1. Dims!Transmit(<<s>>)
    BY <1>3 DEF Dims!SetLevel
  <2>2. IsSetting(s) /\ \A f \in flashes' : IsSetting(f)
    BY <1>3 DEF IsSetting, Dims!SetLevel, DimInv, DimTyped
  <2> QED
    <3> HIDE DEF s
    <3> QED BY <2>1, <2>2, TransmitDim
<1>4. ASSUME NEW level \in {0, 100}, Dims!SetAll(level) PROVE DimInv'
  <2> DEFINE all == [n \in DOMAIN Channels |-> Dims!Setting(Channels[n], level)]
  <2>1. Dims!Transmit(all) /\ \A f \in flashes' : IsSetting(f)
    BY <1>4 DEF Dims!SetAll, DimInv, DimTyped
  <2>2. DOMAIN Channels = 1..Len(Channels)
    BY WorkspaceAssumption DEF Dims!ThrottleAssumption
  <2>3. Len(Channels) \in Nat
    BY WorkspaceAssumption DEF Dims!ThrottleAssumption
  <2>4. Len(Channels) # 0
    BY WorkspaceAssumption DEF Dims!ThrottleAssumption
  <2>5. Len(all) = Len(Channels)
    BY <2>2, <2>3
  <2>6. \A n \in 1..Len(Channels) : IsSetting(all[n])
    <3> TAKE n \in 1..Len(Channels)
    <3>1. all[n] = Dims!Setting(Channels[n], level)
      BY <2>2
    <3>2. Channels[n] \in Dims!ChannelSet
      BY <2>2 DEF Dims!ChannelSet
    <3> HIDE DEF all
    <3> QED BY <3>1, <3>2 DEF IsSetting
  <2> QED
    <3> HIDE DEF all
    <3> QED BY <2>1, <2>3, <2>4, <2>5, <2>6, TransmitDim
<1>5. ASSUME NEW s \in flashes, Dims!FlashEnds(s) PROVE DimInv'
  <2>1. IsSetting(s) /\ \A f \in flashes' : IsSetting(f)
    BY <1>5 DEF Dims!FlashEnds, DimInv, DimTyped
  <2>2. Dims!Transmit(<<s>>)
    BY <1>5 DEF Dims!FlashEnds
  <2> QED BY <2>1, <2>2, TransmitDim
<1> QED BY <1>1, <1>2, <1>3, <1>4, <1>5 DEF Dims!ThrottleNext

\* However settings, flashes and intervals interleave, an idle throttle has
\* sent the controller what was set last (transmitDim and its flush in
\* app/page.tsx).
THEOREM WorkspaceLatestIsSent == MCSpec => []LatestIsSent
<1>1. DimInv /\ [MCNext]_vars => DimInv'
  <2>1. DimInv /\ UNCHANGED dimVars => DimInv'
    BY DEF dimVars, DimInv, DimTyped, LatestOnItsWay, IsSetting
  <2> QED BY <2>1, DimStep DEF MCNext, vars
<1>2. DimInv => LatestIsSent
  BY DEF DimInv, LatestOnItsWay, LatestIsSent, Dims!LatestIsSent
<1> QED BY <1>1, <1>2, InitDim, PTL DEF MCSpec

-----------------------------------------------------------------------------
(* Equipment and deleted items *)

\* Items, wherever they are.
ItemRecords ==
    [type : Gear!Types, id : Nat \ {0}, area : Nat, lights : SUBSET Nat, scenes : SUBSET Nat,
     tag : Nat]

GearTyped ==
    /\ count \in Nat /\ selected \in Nat
    /\ items \subseteq ItemRecords /\ bin \subseteq ItemRecords
    /\ \A d \in deleted : /\ d = [key |-> d.key, item |-> d.item]
                          /\ d.item \in ItemRecords /\ d.item.type # "scene"
    /\ \A s \in bin : s.type = "scene"

\* No tag and no ID is higher than the number of items made.
Counts ==
    /\ \A i \in items \cup bin : i.tag <= count /\ i.id <= count
    /\ \A d \in deleted : d.item.tag <= count /\ d.item.id <= count

\* An item is in one place, once.
TagsApart ==
    /\ \A i, j \in items : i.tag = j.tag => i = j
    /\ \A i, j \in bin : i.tag = j.tag => i = j
    /\ \A d, e \in deleted : d.item.tag = e.item.tag => d = e
    /\ \A i \in items, s \in bin : i.tag # s.tag
    /\ \A d \in deleted, i \in items \cup bin : d.item.tag # i.tag

\* nextId looks at the deleted scenes too: no scene has the ID of another.
ScenesApart ==
    /\ \A s, t \in bin : s.id = t.id => s = t
    /\ \A s \in bin, i \in items : i.type = "scene" => i.id # s.id

GearInv == GearTyped /\ Counts /\ TagsApart /\ ScenesApart /\ Gear!KeysUnique

\* The highest of a bounded set of numbers is one of them.
LEMMA MaxOfSet ==
    ASSUME NEW N \in Nat, NEW S \in SUBSET (0..N), S # {}
    PROVE  Gear!Max(S) \in S /\ \A x \in S : x <= Gear!Max(S)
<1> DEFINE T == {N - x : x \in S}
<1>1. T \subseteq Nat /\ T # {}
  <2>1. \A x \in S : N - x \in Nat
    OBVIOUS
  <2> QED BY <2>1
<1>2. PICK t \in T : \A u \in T : t <= u
  <2> HIDE DEF T
  <2> QED BY <1>1, Smallest
<1>3. PICK m \in S : t = N - m
  OBVIOUS
<1>4. \A x \in S : m >= x
  <2> TAKE x \in S
  <2>1. N - m <= N - x
    BY <1>2, <1>3
  <2> QED BY <2>1
<1>5. Gear!Max(S) \in S /\ \A x \in S : Gear!Max(S) >= x
  <2>1. Gear!Max(S) = CHOOSE x \in S : \A y \in S : x >= y
    BY DEF Gear!Max
  <2>2. \E x \in S : \A y \in S : x >= y
    BY <1>4
  <2> HIDE DEF T
  <2> QED BY <2>1, <2>2, Zenon
<1>6. \A x \in S : x \in Nat
  OBVIOUS
<1> HIDE DEF T
<1> QED BY <1>5, <1>6

\* An ID that is given out is one more than all in use.
LEMMA NewIdIsNew ==
    ASSUME GearInv, NEW type
    PROVE  /\ Gear!NewId(type) \in Nat \ {0} /\ Gear!NewId(type) <= count + 1
           /\ \A i \in items : i.type = type => i.id < Gear!NewId(type)
           /\ type = "scene" => \A s \in bin : s.id < Gear!NewId(type)
<1> DEFINE S == {0} \cup Gear!Ids(type)
                  \cup IF type = "scene" THEN {s.id : s \in bin} ELSE {}
<1>1. \A i \in items \cup bin : i.id \in 0..count
  BY DEF GearInv, GearTyped, Counts, ItemRecords
<1>2. S \subseteq 0..count /\ S # {} /\ count \in Nat
  BY <1>1 DEF Gear!Ids, Gear!Of, GearInv, GearTyped
<1>3. Gear!NewId(type) = Gear!Max(S) + 1
  BY DEF Gear!NewId
<1>4. /\ \A i \in items : i.type = type => i.id \in S
      /\ type = "scene" => \A s \in bin : s.id \in S
  BY DEF Gear!Ids, Gear!Of
<1> HIDE DEF S
<1>5. Gear!Max(S) \in S /\ \A x \in S : x <= Gear!Max(S)
  BY <1>2, MaxOfSet
<1>6. Gear!Max(S) \in 0..count
  BY <1>2, <1>5
<1>7. \A x \in S : x \in Nat /\ x < Gear!NewId(type)
  BY <1>2, <1>3, <1>5, <1>6
<1>8. Gear!NewId(type) \in Nat \ {0} /\ Gear!NewId(type) <= count + 1
  BY <1>2, <1>3, <1>6
<1> QED BY <1>4, <1>7, <1>8

LEMMA InitGear == MCInit => GearInv
BY DEF MCInit, Gear!EquipmentInit, Gear!Item, GearInv, GearTyped, Counts, TagsApart, ScenesApart,
   Gear!KeysUnique, ItemRecords, Gear!Types

\* No edit of an item makes another one of it.
SameItem(i, j) == i.type = j.type /\ i.id = j.id /\ i.tag = j.tag

Redrawn ==
    /\ items' \subseteq ItemRecords
    /\ \A j \in items' : \E i \in items : SameItem(i, j)
    /\ \A j, k \in items' : j.tag = k.tag => j = k
KeepsTags == \A i \in items : \E j \in items' : j.tag = i.tag

LEMMA RedrawnInv ==
    ASSUME GearInv, Redrawn, UNCHANGED <<deleted, bin, selected, count>>
    PROVE  GearInv'
<1> USE DEF GearInv, Redrawn, SameItem
<1>1. GearTyped'
  BY DEF GearTyped
<1>2. Counts'
  BY DEF Counts
<1>3. TagsApart'
  BY DEF TagsApart
<1>4. ScenesApart'
  BY DEF ScenesApart
<1>5. Gear!KeysUnique'
  BY DEF Gear!KeysUnique
<1> QED BY <1>1, <1>2, <1>3, <1>4, <1>5

LEMMA ReplaceRedraws ==
    ASSUME GearInv, NEW i \in items, NEW new \in ItemRecords, SameItem(i, new),
           Gear!Replace(i, new)
    PROVE  Redrawn /\ KeepsTags /\ UNCHANGED <<deleted, bin, selected, count>>
BY DEF Gear!Replace, GearInv, GearTyped, TagsApart, Redrawn, KeepsTags, SameItem

LEMMA MakeInv ==
    ASSUME GearInv, NEW type \in Gear!Types, NEW area \in Nat,
           NEW lights \in SUBSET Nat, NEW links \in SUBSET Nat,
           Gear!Make(type, area, lights, links), selected' \in Nat
    PROVE  GearInv'
<1> DEFINE new == Gear!Item(type, Gear!NewId(type), area, lights, links, count + 1)
<1>1. /\ new \in ItemRecords /\ new.tag = count + 1 /\ new.id <= count + 1
      /\ new.type = type /\ new.id = Gear!NewId(type)
  BY NewIdIsNew DEF Gear!Item, ItemRecords, GearInv, GearTyped
<1>2. /\ items' = items \cup {new} /\ count' = count + 1 /\ UNCHANGED <<deleted, bin>>
  BY DEF Gear!Make
<1>3. \A i \in items \cup bin : i.tag <= count /\ i.id <= count /\ i.tag \in Nat /\ i.id \in Nat
  BY DEF GearInv, GearTyped, Counts, ItemRecords
<1>4. \A d \in deleted : /\ d.item.tag <= count /\ d.item.id <= count
                         /\ d.item.tag \in Nat /\ d.item.id \in Nat
  BY DEF GearInv, GearTyped, Counts, ItemRecords
<1>5. type = "scene" => \A s \in bin : s.id # Gear!NewId(type)
  <2> SUFFICES ASSUME type = "scene", NEW s \in bin PROVE s.id # Gear!NewId(type)
    OBVIOUS
  <2>1. s.id < Gear!NewId(type) /\ s.id \in Nat
    BY <1>3, NewIdIsNew
  <2> QED BY <2>1
<1>6. count \in Nat
  BY DEF GearInv, GearTyped
<1> HIDE DEF new
<1>7. GearTyped'
  BY <1>1, <1>2, <1>6 DEF GearInv, GearTyped
<1>8. Counts'
  BY <1>1, <1>2, <1>3, <1>4, <1>6 DEF Counts
<1>9. TagsApart'
  BY <1>1, <1>2, <1>3, <1>4, <1>6 DEF GearInv, TagsApart
<1>10. ScenesApart'
  BY <1>1, <1>2, <1>5 DEF GearInv, ScenesApart
<1> QED BY <1>2, <1>7, <1>8, <1>9, <1>10 DEF GearInv, Gear!KeysUnique

\* What is left when an item is deleted: the others, without references to it.
LEMMA WithoutRedraws ==
    ASSUME GearInv, NEW i \in items, items' = Gear!Without(i)
    PROVE  /\ Redrawn
           /\ \A j \in items' : j.type # i.type \/ j.id # i.id
           /\ \A x \in items : x.type # i.type \/ x.id # i.id
                                => \E j \in items' : j.tag = x.tag
<1> DEFINE Cleaned(x) ==
             [x EXCEPT !.lights = IF i.type = "light" THEN @ \ {i.id} ELSE @,
                       !.scenes = IF i.type = "scene" THEN @ \ {i.id} ELSE @]
<1>1. items' = {Cleaned(x) : x \in {y \in items : y.type # i.type \/ y.id # i.id}}
  BY DEF Gear!Without
<1>2. \A x \in items : Cleaned(x) \in ItemRecords /\ SameItem(x, Cleaned(x))
  <2> TAKE x \in items
  <2>1. x \in ItemRecords
    BY DEF GearInv, GearTyped
  <2> DEFINE lights == IF i.type = "light" THEN x.lights \ {i.id} ELSE x.lights
             links == IF i.type = "scene" THEN x.scenes \ {i.id} ELSE x.scenes
  <2>2. lights \in SUBSET Nat /\ links \in SUBSET Nat
    BY <2>1 DEF ItemRecords
  <2>3. Cleaned(x) = [x EXCEPT !.lights = lights, !.scenes = links]
    BY <2>1 DEF ItemRecords
  <2> HIDE DEF lights, links, Cleaned
  <2> QED BY <2>1, <2>2, <2>3 DEF ItemRecords, SameItem
<1> HIDE DEF Cleaned
<1>3. \A j, k \in items' : j.tag = k.tag => j = k
  BY <1>1, <1>2 DEF SameItem, GearInv, TagsApart
<1> QED BY <1>1, <1>2, <1>3 DEF Redrawn, SameItem

\* What is put among the deleted items is the same item, of the same tag.
LEMMA PutIsItem ==
    ASSUME NEW i \in ItemRecords
    PROVE  /\ Gear!Put(i) \in ItemRecords /\ Gear!Put(i).type = i.type
           /\ Gear!Put(i).tag = i.tag /\ Gear!Put(i).id = i.id
BY DEF Gear!Put, ItemRecords

LEMMA DeleteInv ==
    ASSUME GearInv, NEW i \in items, i.type # "scene", items' = Gear!Without(i),
           NEW key, \A d \in deleted : d.key # key,
           deleted' = deleted \cup {[key |-> key, item |-> Gear!Put(i)]},
           UNCHANGED <<bin, selected, count>>
    PROVE  GearInv'
<1> DEFINE put == Gear!Put(i)
           new == [key |-> key, item |-> put]
<1>1. Redrawn /\ \A j \in items' : j.type # i.type \/ j.id # i.id
  BY WithoutRedraws
<1>2. new.item = put /\ new.key = key /\ new = [key |-> new.key, item |-> new.item]
  OBVIOUS
<1>3. i \in ItemRecords /\ i.tag <= count /\ i.id <= count
  BY DEF GearInv, GearTyped, Counts
<1>p. put \in ItemRecords /\ put.type = i.type /\ put.tag = i.tag /\ put.id = i.id
  BY <1>3, PutIsItem
<1>4. deleted' = deleted \cup {new}
  OBVIOUS
<1> HIDE DEF new, put
<1>5. GearTyped'
  BY <1>1, <1>2, <1>p, <1>4 DEF GearInv, GearTyped, Redrawn
<1>6. Counts'
  BY <1>1, <1>2, <1>3, <1>p, <1>4 DEF GearInv, Counts, Redrawn, SameItem
<1>7. TagsApart'
  <2>1. \A j \in items' : j.tag # i.tag
    BY <1>1 DEF Redrawn, SameItem, GearInv, TagsApart
  <2>2. \A d \in deleted : d.item.tag # i.tag
    BY DEF GearInv, TagsApart
  <2>3. /\ \A d, e \in deleted' : d.item.tag = e.item.tag => d = e
        /\ \A d \in deleted', j \in items' \cup bin' : d.item.tag # j.tag
    BY <1>1, <1>2, <1>p, <1>4, <2>1, <2>2 DEF Redrawn, SameItem, GearInv, TagsApart
  <2> QED BY <1>1, <2>3 DEF Redrawn, SameItem, GearInv, TagsApart
<1>8. ScenesApart'
  BY <1>1 DEF Redrawn, SameItem, GearInv, ScenesApart
<1>9. Gear!KeysUnique'
  BY <1>2, <1>4 DEF GearInv, Gear!KeysUnique
<1> QED BY <1>5, <1>6, <1>7, <1>8, <1>9 DEF GearInv

LEMMA DeleteSceneInv ==
    ASSUME GearInv, NEW s \in items, Gear!MoveSceneToDeleted(s)
    PROVE  GearInv'
<1>1. Redrawn /\ \A j \in items' : j.type # s.type \/ j.id # s.id
  BY WithoutRedraws DEF Gear!MoveSceneToDeleted
<1>2. /\ s.type = "scene" /\ bin' = bin \cup {s}
      /\ UNCHANGED <<deleted, selected, count>>
  BY DEF Gear!MoveSceneToDeleted
<1>3. s \in ItemRecords
  BY DEF GearInv, GearTyped
<1>4. GearTyped'
  BY <1>1, <1>2, <1>3 DEF GearInv, GearTyped, Redrawn
<1>5. Counts'
  BY <1>1, <1>2 DEF GearInv, Counts, Redrawn, SameItem
<1>6. TagsApart'
  <2>1. \A j \in items' : j.tag # s.tag
    BY <1>1 DEF Redrawn, SameItem, GearInv, TagsApart
  <2> QED BY <1>1, <1>2, <2>1 DEF Redrawn, SameItem, GearInv, TagsApart
<1>7. ScenesApart'
  BY <1>1, <1>2 DEF Redrawn, SameItem, GearInv, ScenesApart
<1> QED BY <1>2, <1>4, <1>5, <1>6, <1>7 DEF GearInv, Gear!KeysUnique

LEMMA RestoreInv ==
    ASSUME GearInv, NEW d \in deleted, Gear!RestoreDeleted(d)
    PROVE  GearInv'
<1>1. /\ items' = items \cup {d.item} /\ deleted' = deleted \ {d}
      /\ UNCHANGED <<bin, selected, count>>
  BY DEF Gear!RestoreDeleted, GearInv, Gear!KeysUnique
<1>2. d.item \in ItemRecords /\ d.item.type # "scene"
  BY DEF GearInv, GearTyped
<1>3. GearTyped'
  BY <1>1, <1>2 DEF GearInv, GearTyped
<1>4. Counts'
  BY <1>1 DEF GearInv, Counts
<1>5. TagsApart'
  BY <1>1 DEF GearInv, TagsApart
<1>6. ScenesApart'
  BY <1>1, <1>2 DEF GearInv, ScenesApart
<1> QED BY <1>1, <1>3, <1>4, <1>5, <1>6 DEF GearInv, Gear!KeysUnique

LEMMA RestoreSceneInv ==
    ASSUME GearInv, NEW s \in bin, Gear!RestoreDeletedScene(s)
    PROVE  GearInv'
<1>1. /\ items' = items \cup {s} /\ bin' = bin \ {s}
      /\ UNCHANGED <<deleted, selected, count>>
  BY DEF Gear!RestoreDeletedScene, GearInv, ScenesApart
<1>2. GearTyped'
  BY <1>1 DEF GearInv, GearTyped
<1>3. Counts'
  BY <1>1 DEF GearInv, Counts
<1>4. TagsApart'
  BY <1>1 DEF GearInv, TagsApart
<1>5. ScenesApart'
  BY <1>1 DEF GearInv, ScenesApart
<1> QED BY <1>1, <1>2, <1>3, <1>4, <1>5 DEF GearInv, Gear!KeysUnique

\* Fewer of what was deleted.
LEMMA QuietInv ==
    ASSUME GearInv, UNCHANGED <<items, count>>, selected' \in Nat,
           deleted' \subseteq deleted, bin' \subseteq bin
    PROVE  GearInv'
BY DEF GearInv, GearTyped, Counts, TagsApart, ScenesApart, Gear!KeysUnique

LEMMA BasicRedraws ==
    ASSUME GearInv, Gear!CreateBasicAssignments
    PROVE  Redrawn /\ KeepsTags
<1> DEFINE Drawn(i) ==
             IF i.type = "switch" /\ i.lights = {}
             THEN [i EXCEPT !.lights = {l.id : l \in {x \in Gear!Of("light") : x.area = i.area}}]
             ELSE i
<1>1. items' = {Drawn(i) : i \in items}
  BY DEF Gear!CreateBasicAssignments
<1>2. \A i \in items : i \in ItemRecords
  BY DEF GearInv, GearTyped
<1>3. \A i \in items : Drawn(i) \in ItemRecords /\ SameItem(i, Drawn(i))
  <2> TAKE i \in items
  <2> DEFINE ids == {l.id : l \in {x \in Gear!Of("light") : x.area = i.area}}
  <2>1. ids \in SUBSET Nat
    BY <1>2 DEF Gear!Of, ItemRecords
  <2> HIDE DEF ids
  <2>2. [i EXCEPT !.lights = ids] \in ItemRecords /\ SameItem(i, [i EXCEPT !.lights = ids])
    BY <1>2, <2>1 DEF ItemRecords, SameItem
  <2> QED BY <1>2, <2>2 DEF ids, SameItem
<1> HIDE DEF Drawn
<1> QED BY <1>1, <1>3 DEF Redrawn, KeepsTags, SameItem, GearInv, TagsApart

\* A step of the editor, sorted by what it does to the items.
Edits == Redrawn /\ KeepsTags /\ UNCHANGED <<deleted, bin, selected, count>>

LEMMA EditSteps ==
    ASSUME GearInv,
           \/ Gear!CreateBasicAssignments
           \/ \E i \in items : \/ Gear!SetScenes(i)
                               \/ \E p \in items : Gear!MoveArea(i, p) \/ Gear!MoveToArea(i, p)
    PROVE  Edits
<1>1. CASE Gear!CreateBasicAssignments
  BY <1>1, BasicRedraws DEF Edits, Gear!CreateBasicAssignments
<1>2. ASSUME NEW i \in items, NEW new \in ItemRecords, SameItem(i, new), Gear!Replace(i, new)
      PROVE  Edits
  BY <1>2, ReplaceRedraws DEF Edits
<1>3. \A i \in items : i \in ItemRecords
  BY DEF GearInv, GearTyped
<1>4. ASSUME NEW i \in items, Gear!SetScenes(i)
      PROVE  Edits
  <2>1. PICK links : /\ links \in {{}} \cup {{s} : s \in Gear!Ids("scene")}
                     /\ Gear!Replace(i, [i EXCEPT !.scenes = links])
    BY <1>4 DEF Gear!SetScenes
  <2>2. links \in SUBSET Nat
    BY <1>3, <2>1 DEF Gear!Ids, Gear!Of, ItemRecords
  <2>3. [i EXCEPT !.scenes = links] \in ItemRecords /\ SameItem(i, [i EXCEPT !.scenes = links])
    BY <1>3, <2>2 DEF ItemRecords, SameItem
  <2> QED BY <1>2, <2>1, <2>3
<1>5. ASSUME NEW i \in items, NEW p \in items, Gear!MoveArea(i, p) \/ Gear!MoveToArea(i, p)
      PROVE  Edits
  <2>1. Gear!Replace(i, [i EXCEPT !.area = p.id])
    BY <1>5 DEF Gear!MoveArea, Gear!MoveToArea
  <2>2. [i EXCEPT !.area = p.id] \in ItemRecords /\ SameItem(i, [i EXCEPT !.area = p.id])
    BY <1>3 DEF ItemRecords, SameItem
  <2> QED BY <1>2, <2>1, <2>2
<1> QED BY <1>1, <1>4, <1>5

LEMMA MakeSteps ==
    ASSUME GearInv, Gear!AddFloor \/ Gear!AddLight \/ Gear!AddSwitch \/ Gear!AddScene
    PROVE  \E type \in Gear!Types : \E area \in Nat :
             \E lights \in SUBSET Nat : \E links \in SUBSET Nat :
               Gear!Make(type, area, lights, links) /\ selected' \in Nat
<1> USE DEF Gear!Types
<1>1. CASE Gear!AddFloor
  BY <1>1, NewIdIsNew DEF Gear!AddFloor
<1>2. CASE Gear!AddLight \/ Gear!AddSwitch
  BY <1>2 DEF Gear!AddLight, Gear!AddSwitch, GearInv, GearTyped
<1>3. CASE Gear!AddScene
  <2>1. PICK lights \in {{}, Gear!Ids("light")},
             next \in {{}} \cup {{s} : s \in Gear!Ids("scene")} :
               Gear!Make("scene", 0, lights, next) /\ UNCHANGED selected
    BY <1>3 DEF Gear!AddScene
  <2>2. lights \in SUBSET Nat /\ next \in SUBSET Nat
    BY DEF Gear!Ids, Gear!Of, GearInv, GearTyped, ItemRecords
  <2> QED BY <2>1, <2>2 DEF GearInv, GearTyped
<1> QED BY <1>1, <1>2, <1>3

Quiet ==
    /\ UNCHANGED <<items, count>> /\ selected' \in Nat
    /\ deleted' \subseteq deleted /\ bin' \subseteq bin

LEMMA QuietSteps ==
    ASSUME GearInv,
           \/ Gear!SelectRoom
           \/ \E d \in deleted : Gear!PermanentlyDelete(d)
           \/ \E s \in bin : Gear!PermanentlyDeleteScene(s)
    PROVE  Quiet
BY DEF Gear!SelectRoom, Gear!PermanentlyDelete, Gear!PermanentlyDeleteScene, Quiet, GearInv,
   GearTyped, ItemRecords, Gear!Ids, Gear!Of

Deletes(i) ==
    /\ i.type # "scene" /\ items' = Gear!Without(i)
    /\ \E key : /\ \A d \in deleted : d.key # key
                /\ deleted' = deleted \cup {[key |-> key, item |-> Gear!Put(i)]}
    /\ UNCHANGED <<bin, selected, count>>

LEMMA DeleteSteps ==
    ASSUME NEW i \in items, Gear!MoveToDeleted(i)
    PROVE  Deletes(i)
<1>1. PICK key \in Gear!KeysFor(i) :
         deleted' = deleted \cup {[key |-> key, item |-> Gear!Put(i)]}
  BY DEF Gear!MoveToDeleted
<1>2. \A d \in deleted : d.key # key
  BY DEF Gear!KeysFor
<1> QED BY <1>1, <1>2 DEF Gear!MoveToDeleted, Deletes

LEMMA GearSteps ==
    ASSUME GearInv, Gear!EquipmentNext
    PROVE  \/ Edits \/ Quiet
           \/ \E type \in Gear!Types : \E area \in Nat :
                \E lights \in SUBSET Nat : \E links \in SUBSET Nat :
                  Gear!Make(type, area, lights, links) /\ selected' \in Nat
           \/ \E i \in items : Deletes(i) \/ Gear!MoveSceneToDeleted(i)
           \/ \E d \in deleted : Gear!RestoreDeleted(d)
           \/ \E s \in bin : Gear!RestoreDeletedScene(s)
BY EditSteps, MakeSteps, QuietSteps, DeleteSteps DEF Gear!EquipmentNext

LEMMA GearStep == GearInv /\ Gear!EquipmentNext => GearInv'
<1> SUFFICES ASSUME GearInv, Gear!EquipmentNext PROVE GearInv'
  OBVIOUS
<1>1. CASE Edits
  BY <1>1, RedrawnInv DEF Edits
<1>2. CASE Quiet
  BY <1>2, QuietInv DEF Quiet
<1>3. ASSUME NEW i \in items, Deletes(i) PROVE GearInv'
  BY <1>3, DeleteInv DEF Deletes
<1> QED BY <1>1, <1>2, <1>3, GearSteps, MakeInv, DeleteSceneInv, RestoreInv, RestoreSceneInv

\* Every piece of equipment is still there or can be restored, unless it was
\* deleted for good.
LEMMA EquipmentKeptStep == GearInv /\ Gear!EquipmentNext => Gear!KeepsEquipment
<1> SUFFICES ASSUME GearInv, Gear!EquipmentNext, Gear!Valid, items' # items,
                    NEW tag \in Gear!Tags(items \cup Gear!DeletedItems \cup bin)
             PROVE  tag \in Gear!Tags(items \cup Gear!DeletedItems \cup bin)'
  BY DEF Gear!KeepsEquipment
<1> USE DEF Gear!Tags, Gear!DeletedItems
<1>1. CASE Edits
  BY <1>1 DEF Edits, KeepsTags
<1>2. ASSUME NEW type, NEW area, NEW lights, NEW links, Gear!Make(type, area, lights, links)
      PROVE  tag \in Gear!Tags(items \cup Gear!DeletedItems \cup bin)'
  BY <1>2 DEF Gear!Make
<1>3. ASSUME NEW i \in items, items' = Gear!Without(i), NEW x \in items, x.tag = tag, x # i
      PROVE  tag \in Gear!Tags(items')
  <2>1. x.type # i.type \/ x.id # i.id
    BY <1>3 DEF Gear!Valid
  <2> QED BY <1>3, <2>1, WithoutRedraws
<1>4. ASSUME NEW i \in items, Deletes(i)
      PROVE  tag \in Gear!Tags(items \cup Gear!DeletedItems \cup bin)'
  <2>1. /\ items' = Gear!Without(i) /\ bin' = bin
        /\ \E key : deleted' = deleted \cup {[key |-> key, item |-> Gear!Put(i)]}
    BY <1>4 DEF Deletes
  <2>2. \A d \in deleted : d \in deleted'
    BY <2>1
  <2>3. \E d \in deleted' : d.item.tag = i.tag
    <3>1. PICK key : deleted' = deleted \cup {[key |-> key, item |-> Gear!Put(i)]}
      BY <2>1
    <3>2. [key |-> key, item |-> Gear!Put(i)] \in deleted'
      BY <3>1
    <3>3. Gear!Put(i).tag = i.tag
      BY PutIsItem DEF GearInv, GearTyped
    <3> QED BY <3>2, <3>3
  <2>4. CASE \E x \in items : x.tag = tag /\ x # i
    BY <1>3, <2>1, <2>4
  <2>5. CASE tag = i.tag
    BY <2>3, <2>5
  <2>6. CASE \E x \in {d.item : d \in deleted} \cup bin : x.tag = tag
    BY <2>1, <2>2, <2>6
  <2> QED BY <2>4, <2>5, <2>6
<1>5. ASSUME NEW s \in items, Gear!MoveSceneToDeleted(s)
      PROVE  tag \in Gear!Tags(items \cup Gear!DeletedItems \cup bin)'
  BY <1>3, <1>5 DEF Gear!MoveSceneToDeleted
<1>6. ASSUME NEW d \in deleted, Gear!RestoreDeleted(d)
      PROVE  tag \in Gear!Tags(items \cup Gear!DeletedItems \cup bin)'
  BY <1>6 DEF Gear!RestoreDeleted, GearInv, Gear!KeysUnique
<1>7. ASSUME NEW s \in bin, Gear!RestoreDeletedScene(s)
      PROVE  tag \in Gear!Tags(items \cup Gear!DeletedItems \cup bin)'
  BY <1>7 DEF Gear!RestoreDeletedScene, GearInv, ScenesApart
<1> QED BY <1>1, <1>2, <1>4, <1>5, <1>6, <1>7, GearSteps DEF Quiet

-----------------------------------------------------------------------------
(* Valid configurations, as a matter of the items alone *)

Areas(I) == {i \in I : i.type = "area"}
Parents(I, r) == {p \in Areas(I) : p.id = r.area}
ClosedIn(I, up) == up \subseteq Areas(I) /\ \A r \in up : Parents(I, r) \subseteq up
\* What is above an area does not lead back to it.
Rooted(I, r) == \E up \in SUBSET Areas(I) :
                   ClosedIn(I, up) /\ Parents(I, r) \subseteq up /\ r \notin up

HasItem(I, type, id) == \E x \in I : x.type = type /\ x.id = id
Refers(I, i) ==
    /\ i.area # 0 => HasItem(I, "area", i.area)
    /\ i.type \in {"light", "switch"} => i.area # 0
    /\ \A l \in i.lights : HasItem(I, "light", l)
    /\ \A s \in i.scenes : HasItem(I, "scene", s)

Unique(I) == \A i, j \in I : i.type = j.type /\ i.id = j.id => i = j
ValidItems(I) ==
    /\ Unique(I)
    /\ \A i \in I : Refers(I, i)
    /\ \A r \in Areas(I) : Rooted(I, r)

LEMMA ValidIsOfItems == Gear!Valid <=> ValidItems(items)
<1>1. Areas(items) = Gear!Of("area")
  BY DEF Areas, Gear!Of
<1>2. \A r : Parents(items, r) = Gear!ParentOf(r)
  BY <1>1 DEF Parents, Gear!ParentOf
<1>3. \A r \in Areas(items) : Rooted(items, r) <=> r \notin Gear!Above(Gear!ParentOf(r))
  BY <1>1, <1>2 DEF Rooted, ClosedIn, Gear!Above
<1>4. /\ \A n : n \in Gear!Ids("area") <=> HasItem(items, "area", n)
      /\ \A n : n \in Gear!Ids("light") <=> HasItem(items, "light", n)
      /\ \A n : n \in Gear!Ids("scene") <=> HasItem(items, "scene", n)
  BY DEF Gear!Ids, Gear!Of, HasItem
<1> QED BY <1>1, <1>3, <1>4 DEF Gear!Valid, ValidItems, Unique, Refers

LEMMA ValidIsOfItemsNext == Gear!Valid' <=> ValidItems(items')
<1>1. Gear!Valid' <=> ValidItems(items)'
  BY ValidIsOfItems, PTL
<1> QED BY <1>1

\* No new areas, and none with a new parent.
SameArea(x, y) == SameItem(x, y) /\ x.area = y.area

LEMMA FewerAreas ==
    ASSUME NEW I, NEW J, Unique(I), \A x \in Areas(I) : Rooted(I, x),
           \A y \in Areas(J) : \E x \in Areas(I) : SameArea(x, y)
    PROVE  \A y \in Areas(J) : Rooted(J, y)
<1> TAKE r \in Areas(J)
<1>1. PICK s \in Areas(I) : SameArea(s, r)
  OBVIOUS
<1>2. PICK up \in SUBSET Areas(I) :
        ClosedIn(I, up) /\ Parents(I, s) \subseteq up /\ s \notin up
  BY DEF Rooted
<1> DEFINE still == {y \in Areas(J) : \E x \in up : x.id = y.id}
<1>3. ASSUME NEW y \in Areas(J), NEW x \in Areas(I), x.id = y.id,
             Parents(I, x) \subseteq up, NEW q \in Parents(J, y)
      PROVE  q \in still
  <2>1. PICK v \in Areas(I) : SameArea(v, y)
    OBVIOUS
  <2>2. v = x
    BY <1>3, <2>1 DEF SameArea, SameItem, Unique, Areas
  <2>3. q \in Areas(J) /\ q.id = y.area
    BY DEF Parents
  <2>4. PICK w \in Areas(I) : SameArea(w, q)
    BY <2>3
  <2>5. w \in Parents(I, x)
    BY <2>1, <2>2, <2>3, <2>4 DEF SameArea, SameItem, Parents
  <2> QED BY <1>3, <2>3, <2>4, <2>5 DEF SameArea, SameItem
<1>4. ClosedIn(J, still)
  <2>1. \A y \in still : Parents(J, y) \subseteq still
    <3> TAKE y \in still
    <3>1. PICK x \in up : x.id = y.id
      OBVIOUS
    <3>2. x \in Areas(I) /\ Parents(I, x) \subseteq up
      BY <1>2 DEF ClosedIn
    <3> QED BY <1>3, <3>1, <3>2
  <2> QED BY <2>1 DEF ClosedIn
<1>5. Parents(J, r) \subseteq still
  BY <1>1, <1>2, <1>3 DEF SameArea, SameItem
<1>6. r \notin still
  BY <1>1, <1>2 DEF SameArea, SameItem, Unique, Areas
<1> QED BY <1>4, <1>5, <1>6 DEF Rooted

\* An area may be moved under another one above which it is not (updateRoom).
LEMMA MovedAreas ==
    ASSUME NEW I \in SUBSET ItemRecords, Unique(I), \A x \in Areas(I) : Rooted(I, x),
           NEW r \in Areas(I), NEW p \in Areas(I), NEW up, ClosedIn(I, up), p \in up,
           \A a \in up : a.id # r.id,
           NEW new \in ItemRecords, SameItem(r, new), new.area = p.id,
           NEW J, J = (I \ {r}) \cup {new}
    PROVE  \A x \in Areas(J) : Rooted(J, x)
<1>1. Areas(J) = (Areas(I) \ {r}) \cup {new}
  BY DEF Areas, SameItem
<1>2. r \notin up /\ new \notin up /\ new.id = r.id /\ up \subseteq Areas(J)
  BY <1>1 DEF SameItem, ClosedIn
<1>3. ASSUME NEW a, NEW q \in Parents(J, a)
      PROVE  (q = new /\ r \in Parents(I, a)) \/ (q \in Parents(I, a) /\ q # r)
  <2>1. q \in Areas(J) /\ q.id = a.area
    BY DEF Parents
  <2>2. q = new => r \in Parents(I, a)
    BY <1>2, <2>1 DEF Parents
  <2>3. q # new => q \in Parents(I, a) /\ q # r
    BY <1>1, <2>1 DEF Parents
  <2> QED BY <2>2, <2>3
<1>4. ASSUME NEW a, Parents(I, a) \subseteq up
      PROVE  Parents(J, a) \subseteq Parents(I, a)
  BY <1>2, <1>3, <1>4
<1>5. ClosedIn(J, up)
  BY <1>2, <1>4 DEF ClosedIn
<1>6. Parents(J, new) \subseteq {p}
  <2>1. ASSUME NEW q \in Parents(J, new) PROVE q = p
    <3>1. q.id = p.id /\ q \in Areas(J)
      BY DEF Parents
    <3>2. q # new
      BY <1>2, <3>1
    <3> QED BY <1>1, <3>1, <3>2 DEF Unique, Areas
  <2> QED BY <2>1
<1>7. Rooted(J, new)
  BY <1>2, <1>5, <1>6 DEF Rooted
<1>8. ASSUME NEW x \in Areas(I), x # r PROVE Rooted(J, x)
  <2>1. PICK above \in SUBSET Areas(I) :
          ClosedIn(I, above) /\ Parents(I, x) \subseteq above /\ x \notin above
    BY DEF Rooted
  <2>2. x # new
    BY <1>2, <1>8 DEF Unique, Areas, SameItem
  <2>3. CASE x \in up
    <3>1. Parents(I, x) \subseteq up /\ \A a \in up : Parents(I, a) \subseteq up
      BY <2>3 DEF ClosedIn
    <3>2. Parents(J, x) \subseteq above \cap up
      BY <1>4, <2>1, <3>1
    <3>3. \A a \in above \cap up : Parents(J, a) \subseteq above \cap up
      BY <1>4, <2>1, <3>1 DEF ClosedIn
    <3>4. ClosedIn(J, above \cap up)
      BY <1>2, <3>3 DEF ClosedIn
    <3> QED BY <1>2, <2>1, <3>2, <3>4 DEF Rooted
  <2>4. CASE x \notin up
    <3> DEFINE all == (above \ {r}) \cup {new} \cup up
    <3>1. \A a \in above : Parents(J, a) \subseteq all
      BY <1>3, <2>1 DEF ClosedIn
    <3>2. \A a \in up : Parents(J, a) \subseteq all
      BY <1>5 DEF ClosedIn
    <3>3. ClosedIn(J, all)
      BY <1>1, <1>2, <1>6, <2>1, <3>1, <3>2 DEF ClosedIn
    <3>4. Parents(J, x) \subseteq all /\ x \notin all
      BY <1>3, <2>1, <2>2, <2>4
    <3>5. all \in SUBSET Areas(J)
      BY <3>3 DEF ClosedIn
    <3> HIDE DEF all
    <3> QED BY <3>3, <3>4, <3>5 DEF Rooted
  <2> QED BY <2>3, <2>4
<1> QED BY <1>1, <1>7, <1>8

\* What is above an area, as the code looks for it, is closed.
LEMMA AboveIsClosed ==
    ASSUME NEW p \in Areas(items)
    PROVE  ClosedIn(items, Gear!Above({p})) /\ p \in Gear!Above({p})
<1>1. Areas(items) = Gear!Of("area")
  BY DEF Areas, Gear!Of
<1>2. \A r : Parents(items, r) = Gear!ParentOf(r)
  BY <1>1 DEF Parents, Gear!ParentOf
<1>3. p \in Gear!Above({p}) /\ Gear!Above({p}) \subseteq Areas(items)
  BY <1>1 DEF Gear!Above
<1>4. ASSUME NEW r \in Gear!Above({p}), NEW q \in Parents(items, r)
      PROVE  q \in Gear!Above({p})
  <2>1. q \in Gear!Of("area") /\ q \in Gear!ParentOf(r)
    BY <1>1, <1>2 DEF Parents
  <2>2. ASSUME NEW up \in SUBSET Gear!Of("area"), {p} \subseteq up,
               \A a \in up : Gear!ParentOf(a) \subseteq up
        PROVE  q \in up
    BY <2>1, <2>2 DEF Gear!Above
  <2> QED BY <2>1, <2>2 DEF Gear!Above
<1> QED BY <1>3, <1>4 DEF ClosedIn

\* From a valid configuration, an item changes what it refers to.
LEMMA ReplacedItem ==
    ASSUME NEW I \in SUBSET ItemRecords, ValidItems(I), NEW i \in I,
           NEW new \in ItemRecords, SameItem(i, new), Refers(I, new),
           NEW J, J = (I \ {i}) \cup {new},
           \A x \in Areas(J) : Rooted(J, x)
    PROVE  ValidItems(J)
<1>1. \A type, id : HasItem(I, type, id) <=> HasItem(J, type, id)
  BY DEF HasItem, SameItem
<1>2. Unique(J)
  BY DEF ValidItems, Unique, SameItem
<1>3. \A x \in J : Refers(J, x)
  <2>1. \A x : Refers(I, x) => Refers(J, x)
    BY <1>1 DEF Refers
  <2>2. \A x \in J : Refers(I, x)
    BY DEF ValidItems
  <2> QED BY <2>1, <2>2
<1> QED BY <1>2, <1>3 DEF ValidItems

LEMMA SameAreas ==
    ASSUME NEW I, ValidItems(I), NEW J, Areas(J) = Areas(I)
    PROVE  \A x \in Areas(J) : Rooted(J, x)
<1>1. \A y \in Areas(J) : \E x \in Areas(I) : SameArea(x, y)
  BY DEF SameArea, SameItem
<1> QED BY <1>1, FewerAreas DEF ValidItems

LEMMA EditsKeepValidItems ==
    ASSUME GearInv, ValidItems(items), NEW i \in items,
           \/ Gear!SetScenes(i)
           \/ \E p \in items : Gear!MoveArea(i, p) \/ Gear!MoveToArea(i, p)
    PROVE  ValidItems(items')
<1>1. items \in SUBSET ItemRecords
  BY DEF GearInv, GearTyped
<1>2. CASE Gear!SetScenes(i)
  <2>1. PICK links : /\ links \in {{}} \cup {{s} : s \in Gear!Ids("scene")}
                     /\ Gear!Replace(i, [i EXCEPT !.scenes = links])
                     /\ i.type \in {"switch", "scene"}
    BY <1>2 DEF Gear!SetScenes
  <2> DEFINE new == [i EXCEPT !.scenes = links]
  <2>2. links \in SUBSET Nat /\ \A s \in links : HasItem(items, "scene", s)
    BY <1>1, <2>1 DEF Gear!Ids, Gear!Of, ItemRecords, HasItem
  <2>3. /\ new \in ItemRecords /\ SameItem(i, new) /\ new.scenes = links
        /\ new.area = i.area /\ new.lights = i.lights
    BY <1>1, <2>2 DEF ItemRecords, SameItem
  <2>4. items' = (items \ {i}) \cup {new}
    BY <2>1 DEF Gear!Replace
  <2> HIDE DEF new
  <2>5. Refers(items, new)
    BY <2>2, <2>3 DEF ValidItems, Refers, SameItem
  <2>6. Areas(items') = Areas(items)
    BY <2>1, <2>3, <2>4 DEF Areas, SameItem
  <2> QED BY <1>1, <2>3, <2>4, <2>5, <2>6, SameAreas, ReplacedItem
<1>3. ASSUME NEW p \in items, Gear!MoveArea(i, p) \/ Gear!MoveToArea(i, p)
      PROVE  ValidItems(items')
  <2> DEFINE new == [i EXCEPT !.area = p.id]
  <2>1. /\ new \in ItemRecords /\ SameItem(i, new) /\ new.area = p.id
        /\ new.scenes = i.scenes /\ new.lights = i.lights
    BY <1>1 DEF ItemRecords, SameItem
  <2>2. items' = (items \ {i}) \cup {new} /\ p.type = "area"
    BY <1>3 DEF Gear!MoveArea, Gear!MoveToArea, Gear!Replace
  <2> HIDE DEF new
  <2>3. p.id # 0
    BY <1>1 DEF ItemRecords
  <2>4. Refers(items, new)
    BY <2>1, <2>2, <2>3 DEF ValidItems, Refers, SameItem, HasItem
  <2>5. CASE Gear!MoveArea(i, p)
    <3>1. i \in Areas(items) /\ p \in Areas(items)
      BY <2>5 DEF Gear!MoveArea, Areas
    <3>2. \A a \in Gear!Above({p}) : a.id # i.id
      BY <2>5 DEF Gear!MoveArea
    <3>3. \A x \in Areas(items') : Rooted(items', x)
      BY <1>1, <2>1, <2>2, <3>1, <3>2, AboveIsClosed, MovedAreas DEF ValidItems
    <3> QED BY <1>1, <2>1, <2>2, <2>4, <3>3, ReplacedItem
  <2>6. CASE Gear!MoveToArea(i, p)
    <3>1. Areas(items') = Areas(items)
      BY <2>1, <2>2, <2>6 DEF Areas, SameItem, Gear!MoveToArea
    <3> QED BY <1>1, <2>1, <2>2, <2>4, <3>1, SameAreas, ReplacedItem
  <2> QED BY <1>3, <2>5, <2>6
<1> QED BY <1>2, <1>3

LEMMA BasicKeepsValidItems ==
    ASSUME GearInv, ValidItems(items), Gear!CreateBasicAssignments
    PROVE  ValidItems(items')
<1> DEFINE LightsOf(i) == {l.id : l \in {x \in Gear!Of("light") : x.area = i.area}}
           Drawn(i) == IF i.type = "switch" /\ i.lights = {}
                       THEN [i EXCEPT !.lights = LightsOf(i)] ELSE i
<1>1. items' = {Drawn(i) : i \in items}
  BY DEF Gear!CreateBasicAssignments
<1>2. ASSUME NEW i \in items
      PROVE  /\ SameItem(i, Drawn(i)) /\ Refers(items, Drawn(i))
             /\ i.type = "area" => Drawn(i) = i
             /\ Drawn(i).type = i.type
  <2>1. i \in ItemRecords /\ Refers(items, i)
    BY DEF GearInv, GearTyped, ValidItems
  <2>2. \A l \in LightsOf(i) : HasItem(items, "light", l)
    BY DEF Gear!Of, HasItem
  <2> HIDE DEF LightsOf
  <2>3. SameItem(i, Drawn(i))
    BY <2>1 DEF ItemRecords, SameItem
  <2>4. /\ Drawn(i).area = i.area /\ Drawn(i).scenes = i.scenes
        /\ Drawn(i).lights = i.lights \/ Drawn(i).lights = LightsOf(i)
    BY <2>1 DEF ItemRecords
  <2>5. Drawn(i).type = i.type
    BY <2>3 DEF SameItem
  <2>6. i.type = "area" => Drawn(i) = i
    OBVIOUS
  <2> HIDE DEF Drawn
  <2>7. Refers(items, Drawn(i))
    BY <2>1, <2>2, <2>4, <2>5 DEF Refers
  <2> QED BY <2>3, <2>5, <2>6, <2>7
<1> HIDE DEF Drawn, LightsOf
<1>3. \A type, id : HasItem(items, type, id) <=> HasItem(items', type, id)
  BY <1>1, <1>2 DEF HasItem, SameItem
<1>4. Areas(items') = Areas(items)
  BY <1>1, <1>2 DEF Areas
<1>5. Unique(items')
  BY <1>1, <1>2 DEF ValidItems, Unique, SameItem
<1>6. \A x \in items' : Refers(items', x)
  BY <1>1, <1>2, <1>3 DEF Refers
<1>7. \A x \in Areas(items') : Rooted(items', x)
  BY <1>4, SameAreas
<1> QED BY <1>5, <1>6, <1>7 DEF ValidItems

LEMMA DeletionKeepsValidItems ==
    ASSUME GearInv, ValidItems(items), NEW i \in items,
           items' = Gear!Without(i), i.type = "area" => Gear!Empty(i)
    PROVE  ValidItems(items')
<1> DEFINE Cleaned(x) ==
             [x EXCEPT !.lights = IF i.type = "light" THEN @ \ {i.id} ELSE @,
                       !.scenes = IF i.type = "scene" THEN @ \ {i.id} ELSE @]
           Others == {x \in items : x.type # i.type \/ x.id # i.id}
<1>1. items' = {Cleaned(x) : x \in Others}
  BY DEF Gear!Without
<1>2. ASSUME NEW x \in Others
      PROVE  /\ SameArea(x, Cleaned(x))
             /\ Cleaned(x).lights \subseteq x.lights /\ Cleaned(x).scenes \subseteq x.scenes
             /\ i.type = "light" => i.id \notin Cleaned(x).lights
             /\ i.type = "scene" => i.id \notin Cleaned(x).scenes
  <2>1. x \in ItemRecords
    BY DEF GearInv, GearTyped
  <2> DEFINE lights == IF i.type = "light" THEN x.lights \ {i.id} ELSE x.lights
             links == IF i.type = "scene" THEN x.scenes \ {i.id} ELSE x.scenes
  <2>2. Cleaned(x) = [x EXCEPT !.lights = lights, !.scenes = links]
    BY <2>1 DEF ItemRecords
  <2> HIDE DEF Cleaned
  <2>3. SameArea(x, Cleaned(x)) /\ Cleaned(x).lights = lights /\ Cleaned(x).scenes = links
    <3> HIDE DEF lights, links
    <3> QED BY <2>1, <2>2 DEF ItemRecords, SameArea, SameItem
  <2> QED BY <2>3
<1>3. Others \subseteq items /\ \A x \in items : x \in Others \/ (x.type = i.type /\ x.id = i.id)
  OBVIOUS
<1>4. \A x \in Others : x.type # i.type \/ x.id # i.id
  OBVIOUS
<1> HIDE DEF Cleaned, Others
<1>5. \A type, id : HasItem(items, type, id) =>
         HasItem(items', type, id) \/ (type = i.type /\ id = i.id)
  BY <1>1, <1>2, <1>3 DEF HasItem, SameArea, SameItem
<1>6. Unique(items')
  BY <1>1, <1>2, <1>3 DEF ValidItems, Unique, SameArea, SameItem
<1>7. ASSUME NEW x \in Others PROVE Refers(items', Cleaned(x))
  <2>1. Refers(items, x) /\ SameArea(x, Cleaned(x)) /\ x \in items
    BY <1>2, <1>3 DEF ValidItems
  <2>2. x.area = i.id => i.type # "area"
    BY <2>1 DEF Gear!Empty
  <2>3. Cleaned(x).area # 0 => HasItem(items', "area", Cleaned(x).area)
    BY <1>5, <2>1, <2>2 DEF Refers, SameArea, SameItem
  <2>4. \A l \in Cleaned(x).lights : HasItem(items', "light", l)
    BY <1>2, <1>5, <2>1 DEF Refers
  <2>5. \A s \in Cleaned(x).scenes : HasItem(items', "scene", s)
    BY <1>2, <1>5, <2>1 DEF Refers
  <2> QED BY <2>1, <2>3, <2>4, <2>5 DEF Refers, SameArea, SameItem
<1>8. \A y \in Areas(items') : \E x \in Areas(items) : SameArea(x, y)
  BY <1>1, <1>2, <1>3 DEF Areas, SameArea, SameItem
<1>9. \A y \in Areas(items') : Rooted(items', y)
  BY <1>8, FewerAreas DEF ValidItems
<1> QED BY <1>1, <1>6, <1>7, <1>9 DEF ValidItems

\* From a valid configuration, a step that brings no item back leads to a
\* valid one: deletions clean every reference, and a move makes no cycle.
LEMMA ValidKeptStep == GearInv /\ Gear!EquipmentNext => Gear!KeepsValid
<1> SUFFICES ASSUME GearInv, Gear!EquipmentNext, Gear!Valid,
                    Gear!Tags(items') \subseteq Gear!Tags(items)
             PROVE  Gear!Valid'
  BY DEF Gear!KeepsValid
<1>1. ValidItems(items)
  BY ValidIsOfItems
<1> SUFFICES ValidItems(items')
  BY ValidIsOfItemsNext
<1>2. \A i \in items' : \E j \in items : j.tag = i.tag
  BY DEF Gear!Tags
<1>3. CASE Gear!AddFloor \/ Gear!AddLight \/ Gear!AddSwitch \/ Gear!AddScene
  <2>0. PICK type \in Gear!Types, area \in Nat, lights \in SUBSET Nat, links \in SUBSET Nat :
               Gear!Make(type, area, lights, links)
    BY <1>3, MakeSteps
  <2> DEFINE new == Gear!Item(type, Gear!NewId(type), area, lights, links, count + 1)
  <2>1. new \in items' /\ new.tag = count + 1
    BY <2>0 DEF Gear!Make, Gear!Item
  <2> HIDE DEF new
  <2>2. \A j \in items : j.tag <= count /\ j.tag \in Nat /\ count \in Nat
    BY DEF GearInv, GearTyped, Counts, ItemRecords
  <2> QED BY <1>2, <2>1, <2>2
<1>4. CASE Gear!CreateBasicAssignments
  BY <1>1, <1>4, BasicKeepsValidItems
<1>5. ASSUME NEW i \in items,
             Gear!SetScenes(i) \/ \E p \in items : Gear!MoveArea(i, p) \/ Gear!MoveToArea(i, p)
      PROVE  ValidItems(items')
  BY <1>1, <1>5, EditsKeepValidItems
<1>6. ASSUME NEW i \in items, Gear!MoveToDeleted(i) \/ Gear!MoveSceneToDeleted(i)
      PROVE  ValidItems(items')
  BY <1>1, <1>6, DeletionKeepsValidItems DEF Gear!MoveToDeleted, Gear!MoveSceneToDeleted
<1>7. ASSUME NEW d \in deleted, Gear!RestoreDeleted(d) PROVE FALSE
  BY <1>2, <1>7 DEF Gear!RestoreDeleted, GearInv, TagsApart
<1>8. ASSUME NEW s \in bin, Gear!RestoreDeletedScene(s) PROVE FALSE
  BY <1>2, <1>8 DEF Gear!RestoreDeletedScene, GearInv, TagsApart
<1>9. CASE items' = items
  BY <1>1, <1>9
<1> QED BY <1>3, <1>4, <1>5, <1>6, <1>7, <1>8, <1>9
        DEF Gear!EquipmentNext, Gear!SelectRoom, Gear!PermanentlyDelete,
            Gear!PermanentlyDeleteScene

\* As long as the configuration is valid, no edit, deletion or restoration loses
\* a piece of equipment, and one that brings none back leaves it valid
\* (moveToDeleted, deleteConfigEntity, updateRoom and the like in app/page.tsx).
THEOREM WorkspaceEquipmentKept == MCSpec => EquipmentKept
<1>1. GearInv /\ [MCNext]_vars => GearInv'
  <2>1. GearInv /\ UNCHANGED gearVars => GearInv'
    BY QuietInv DEF gearVars, GearInv, GearTyped
  <2> QED BY <2>1, GearStep DEF MCNext, vars
<1>2. GearInv /\ [MCNext]_vars =>
        [part = "gear" => Gear!KeepsEquipment /\ Gear!KeepsValid]_vars
  BY EquipmentKeptStep, ValidKeptStep DEF MCNext
<1> QED BY <1>1, <1>2, InitGear, PTL DEF MCSpec, EquipmentKept

\* What is deleted can be told apart, however often an ID was used again
\* (moveToDeleted in app/page.tsx).
THEOREM WorkspaceKeysUnique == MCSpec => []Gear!KeysUnique
<1>1. GearInv /\ [MCNext]_vars => GearInv'
  <2>1. GearInv /\ UNCHANGED gearVars => GearInv'
    BY QuietInv DEF gearVars, GearInv, GearTyped
  <2> QED BY <2>1, GearStep DEF MCNext, vars
<1>2. GearInv => Gear!KeysUnique
  BY DEF GearInv
<1> QED BY <1>1, <1>2, InitGear, PTL DEF MCSpec

-----------------------------------------------------------------------------
(* The order of scenes *)

PlaceMaps == [Scenes!AllScenes -> [group : Nat, rank : Nat]]

\* The cardinality of FiniteSets, as SceneOrder has it.
LEMMA ScenesCardinality == \A S : Scenes!Cardinality(S) = Cardinality(S)
BY DEF Scenes!Cardinality, Cardinality, Scenes!IsFiniteSet, IsFiniteSet

LEMMA LargestIsHigh ==
    /\ Scenes!Largest \in Nat \ {0} /\ SceneCount \in 0..Scenes!Largest - 1
    /\ Ranks \subseteq 0..Scenes!Largest - 1
<1>1. Scenes!Largest \in Nat \ {0}
  BY SMT DEF Scenes!Largest
<1> QED BY <1>1, WorkspaceAssumption DEF Scenes!OrderAssumption

LEMMA ScenesFinite ==
    ASSUME NEW S \in SUBSET Scenes!AllScenes
    PROVE  IsFiniteSet(S) /\ Scenes!Cardinality(S) = Cardinality(S) /\ Cardinality(S) \in Nat
<1>1. SceneCount \in Nat
  BY LargestIsHigh DEF Scenes!OrderAssumption
<1>2. IsFiniteSet(Scenes!AllScenes)
  BY <1>1, FS_Interval DEF Scenes!AllScenes
<1> QED BY <1>2, FS_Subset, FS_CardinalityType, ScenesCardinality

\* Those before a scene in its group, and itself.
Upto(all, s) == {t \in Scenes!Siblings(all, all[s].group) : Scenes!Before(all, t, s)}

LEMMA UptoOf ==
    ASSUME NEW all \in PlaceMaps, NEW s \in Scenes!AllScenes
    PROVE  /\ Scenes!Index(all, s) = Cardinality(Upto(all, s)) - 1
           /\ s \in Upto(all, s)
           /\ Upto(all, s) \subseteq Scenes!Siblings(all, all[s].group)
           /\ IsFiniteSet(Upto(all, s)) /\ Cardinality(Upto(all, s)) \in Nat \ {0}
<1>1. Upto(all, s) \in SUBSET Scenes!AllScenes
  BY DEF Upto, Scenes!Siblings
<1>2. /\ IsFiniteSet(Upto(all, s)) /\ Cardinality(Upto(all, s)) \in Nat
      /\ Scenes!Cardinality(Upto(all, s)) = Cardinality(Upto(all, s))
  BY <1>1, ScenesFinite
<1>3. s \in Upto(all, s)
  BY DEF Upto, Scenes!Siblings, Scenes!Before, PlaceMaps, Scenes!AllScenes
<1>4. Cardinality(Upto(all, s)) # 0
  BY <1>2, <1>3, FS_EmptySet
<1> QED BY <1>2, <1>3, <1>4 DEF Upto, Scenes!Index

LEMMA IndexRange ==
    ASSUME NEW all \in PlaceMaps, NEW s \in Scenes!AllScenes
    PROVE  LET size == Cardinality(Scenes!Siblings(all, all[s].group))
           IN  size \in Nat \ {0} /\ Scenes!Index(all, s) \in 0..size - 1
<1> DEFINE group == Scenes!Siblings(all, all[s].group)
<1>1. group \in SUBSET Scenes!AllScenes
  BY DEF Scenes!Siblings
<1>2. IsFiniteSet(group) /\ Cardinality(group) \in Nat
  BY <1>1, ScenesFinite
<1>3. Cardinality(Upto(all, s)) <= Cardinality(group)
  BY <1>2, UptoOf, FS_Subset
<1> HIDE DEF group
<1>4. Cardinality(group) \in Nat \ {0} /\ Scenes!Index(all, s) \in 0..Cardinality(group) - 1
  BY <1>2, <1>3, UptoOf
<1> QED BY <1>4 DEF group

\* The order is total: of two scenes of a group, the one before the other has
\* the smaller index.
LEMMA IndexGrows ==
    ASSUME NEW all \in PlaceMaps, NEW s \in Scenes!AllScenes, NEW t \in Scenes!AllScenes,
           s # t, all[s].group = all[t].group
    PROVE  /\ Scenes!Before(all, s, t) \/ Scenes!Before(all, t, s)
           /\ Scenes!Before(all, s, t) => Scenes!Index(all, s) < Scenes!Index(all, t)
<1>0. \A x \in Scenes!AllScenes : x \in Nat /\ all[x].rank \in Nat
  BY DEF PlaceMaps, Scenes!AllScenes
<1>1. Scenes!Before(all, s, t) \/ Scenes!Before(all, t, s)
  BY <1>0 DEF Scenes!Before
<1>2. ASSUME Scenes!Before(all, s, t)
      PROVE  Scenes!Index(all, s) < Scenes!Index(all, t)
  <2>1. ~Scenes!Before(all, t, s)
    BY <1>0, <1>2 DEF Scenes!Before
  <2>2. \A x \in Scenes!AllScenes : Scenes!Before(all, x, s) => Scenes!Before(all, x, t)
    BY <1>0, <1>2 DEF Scenes!Before
  <2>3. Upto(all, s) \subseteq Upto(all, t) /\ t \notin Upto(all, s) /\ t \in Upto(all, t)
    BY <2>1, <2>2, UptoOf DEF Upto, Scenes!Siblings
  <2>4. Cardinality(Upto(all, s)) # Cardinality(Upto(all, t))
    BY <2>3, UptoOf, FS_Subset
  <2>5. Cardinality(Upto(all, s)) <= Cardinality(Upto(all, t))
    BY <2>3, UptoOf, FS_Subset
  <2>6. Cardinality(Upto(all, s)) \in Nat /\ Cardinality(Upto(all, t)) \in Nat
    BY UptoOf
  <2>7. /\ Scenes!Index(all, s) = Cardinality(Upto(all, s)) - 1
        /\ Scenes!Index(all, t) = Cardinality(Upto(all, t)) - 1
    BY UptoOf
  <2> QED BY <2>4, <2>5, <2>6, <2>7
<1> QED BY <1>1, <1>2

LEMMA BeforeIsIndex ==
    ASSUME NEW all \in PlaceMaps, NEW s \in Scenes!AllScenes, NEW t \in Scenes!AllScenes,
           s # t, all[s].group = all[t].group
    PROVE  /\ Scenes!Before(all, s, t) <=> Scenes!Index(all, s) < Scenes!Index(all, t)
           /\ Scenes!Index(all, s) # Scenes!Index(all, t)
<1>1. Scenes!Index(all, s) \in Int /\ Scenes!Index(all, t) \in Int
  BY UptoOf
<1> QED BY <1>1, IndexGrows

\* Ranks that are 0, 1, 2 and so on.
Ranked(all, g) ==
    /\ \A s \in Scenes!Siblings(all, g) :
          all[s].rank \in 0..Cardinality(Scenes!Siblings(all, g)) - 1
    /\ \A s, t \in Scenes!Siblings(all, g) : all[s].rank = all[t].rank => s = t

LEMMA RankIsIndex ==
    ASSUME NEW all \in PlaceMaps, NEW s \in Scenes!AllScenes, Ranked(all, all[s].group)
    PROVE  Scenes!Index(all, s) = all[s].rank
<1> DEFINE group == Scenes!Siblings(all, all[s].group)
           size == Cardinality(group)
           rank == [t \in group |-> all[t].rank]
           k == all[s].rank
           upto == [t \in Upto(all, s) |-> all[t].rank]
<1>1. IsFiniteSet(group) /\ size \in Nat \ {0} /\ s \in group
  <2>1. group \in SUBSET Scenes!AllScenes /\ s \in group
    BY DEF Scenes!Siblings
  <2> QED BY <2>1, ScenesFinite, IndexRange
<1>2. \A t \in group : all[t].rank \in 0..size - 1
  BY DEF Ranked
<1>3. \A t, u \in group : all[t].rank = all[u].rank => t = u
  BY DEF Ranked
<1>4. Upto(all, s) = {t \in group : all[t].rank <= k}
  <2>1. \A t \in group : Scenes!Before(all, t, s) <=> all[t].rank <= k
    <3> TAKE t \in group
    <3>1. all[t].rank \in Nat /\ k \in Nat /\ t \in Nat /\ s \in Nat
      BY DEF PlaceMaps, Scenes!Siblings, Scenes!AllScenes
    <3>2. all[t].rank = k => t = s
      BY <1>1, <1>3
    <3> HIDE DEF group, k
    <3> QED BY <3>1, <3>2 DEF Scenes!Before, k
  <2> QED BY <2>1 DEF Upto
<1> HIDE DEF group
<1>5. rank \in Injection(group, 0..size - 1)
  BY <1>2, <1>3 DEF Injection, IsInjective
<1>6. IsFiniteSet(0..size - 1) /\ Cardinality(0..size - 1) = size
  <2> HIDE DEF size
  <2> QED BY <1>1, FS_Interval
<1>7. rank \in Surjection(group, 0..size - 1)
  <2> HIDE DEF rank
  <2> QED BY <1>1, <1>5, <1>6, FS_Injection
<1>8. \A n \in 0..size - 1 : \E t \in group : all[t].rank = n
  BY <1>7 DEF Surjection
<1>9. k \in 0..size - 1
  BY <1>1, <1>2
<1> HIDE DEF size, k
<1>10. upto \in Bijection(Upto(all, s), 0..k)
  <2>1. \A t \in Upto(all, s) : t \in group /\ all[t].rank \in 0..k
    BY <1>1, <1>2, <1>4, <1>9
  <2>2. upto \in Injection(Upto(all, s), 0..k)
    BY <1>3, <2>1 DEF Injection, IsInjective
  <2>3. \A n \in 0..k : \E t \in Upto(all, s) : all[t].rank = n
    BY <1>1, <1>4, <1>8, <1>9
  <2>4. upto \in Surjection(Upto(all, s), 0..k)
    BY <2>1, <2>3 DEF Surjection
  <2> QED BY <2>2, <2>4 DEF Bijection
<1>11. Cardinality(0..k) = k + 1
  BY <1>1, <1>9, FS_Interval
<1>12. Cardinality(Upto(all, s)) = k + 1
  <2>1. ExistsBijection(Upto(all, s), 0..k)
    BY <1>10 DEF ExistsBijection
  <2> QED BY <1>11, <2>1, UptoOf, FS_Bijection
<1>13. Scenes!Index(all, s) = k
  BY <1>1, <1>9, <1>12, UptoOf
<1> QED BY <1>13 DEF k

\* Where a scene and those of its group are as before, so is its index.
LEMMA SameIndex ==
    ASSUME NEW all \in PlaceMaps, NEW now \in PlaceMaps, NEW s \in Scenes!AllScenes,
           now[s].group = all[s].group,
           Scenes!Siblings(now, all[s].group) = Scenes!Siblings(all, all[s].group),
           \A t \in Scenes!Siblings(all, all[s].group) : now[t].rank = all[t].rank
    PROVE  Scenes!Index(now, s) = Scenes!Index(all, s)
<1>1. s \in Scenes!Siblings(all, all[s].group)
  BY DEF Scenes!Siblings
<1>2. \A t \in Scenes!Siblings(all, all[s].group) :
         Scenes!Before(now, t, s) <=> Scenes!Before(all, t, s)
  BY <1>1 DEF Scenes!Before
<1>3. Upto(now, s) = Upto(all, s)
  BY <1>2 DEF Upto
<1> QED BY <1>3, UptoOf

SameGroups(now, all) ==
    /\ now \in PlaceMaps
    /\ \A s \in Scenes!AllScenes : now[s].group = all[s].group
    /\ \A g : Scenes!Siblings(now, g) = Scenes!Siblings(all, g)

LEMMA DenseIs ==
    ASSUME NEW all \in PlaceMaps, NEW g \in Nat
    PROVE  LET now == Scenes!Dense(all, g)
           IN  /\ SameGroups(now, all) /\ Ranked(now, g)
               /\ \A s \in Scenes!Siblings(all, g) : now[s].rank = Scenes!Index(all, s)
               /\ \A s \in Scenes!AllScenes \ Scenes!Siblings(all, g) : now[s] = all[s]
<1> DEFINE now == Scenes!Dense(all, g)
<1>1. ASSUME NEW s \in Scenes!Siblings(all, g)
      PROVE  /\ s \in Scenes!AllScenes /\ all[s].group = g
             /\ Scenes!Index(all, s) \in Nat
             /\ Scenes!Index(all, s) \in 0..Cardinality(Scenes!Siblings(all, g)) - 1
  <2>1. s \in Scenes!AllScenes /\ all[s].group = g
    BY DEF Scenes!Siblings
  <2> QED BY <2>1, IndexRange
<1>2. /\ now = [s \in Scenes!AllScenes |-> now[s]]
      /\ \A s \in Scenes!Siblings(all, g) :
            now[s] = [group |-> g, rank |-> Scenes!Index(all, s)]
      /\ \A s \in Scenes!AllScenes \ Scenes!Siblings(all, g) : now[s] = all[s]
  BY <1>1 DEF Scenes!Dense, Scenes!Place
<1> HIDE DEF now
<1>3. \A s \in Scenes!AllScenes : now[s] \in [group : Nat, rank : Nat]
                                  /\ now[s].group = all[s].group
  <2> TAKE s \in Scenes!AllScenes
  <2>1. CASE s \in Scenes!Siblings(all, g)
    <3>1. now[s] = [group |-> g, rank |-> Scenes!Index(all, s)] /\ all[s].group = g
      BY <1>1, <1>2, <2>1
    <3>2. Scenes!Index(all, s) \in Nat
      BY <1>1, <2>1
    <3> QED BY <3>1, <3>2
  <2>2. CASE s \notin Scenes!Siblings(all, g)
    BY <1>2, <2>2 DEF PlaceMaps
  <2> QED BY <2>1, <2>2
<1>4. SameGroups(now, all)
  BY <1>2, <1>3 DEF SameGroups, PlaceMaps, Scenes!Siblings
<1>5. \A s \in Scenes!Siblings(all, g) : now[s].rank = Scenes!Index(all, s)
  <2> TAKE s \in Scenes!Siblings(all, g)
  <2>1. now[s] = [group |-> g, rank |-> Scenes!Index(all, s)]
    BY <1>2
  <2> QED BY <2>1
<1>6. Ranked(now, g)
  <2>1. \A s, t \in Scenes!Siblings(all, g) :
           Scenes!Index(all, s) = Scenes!Index(all, t) => s = t
    <3> TAKE s, t \in Scenes!Siblings(all, g)
    <3>1. /\ s \in Scenes!AllScenes /\ t \in Scenes!AllScenes
          /\ all[s].group = all[t].group
      BY <1>1
    <3> QED BY <3>1, BeforeIsIndex
  <2>2. Scenes!Siblings(now, g) = Scenes!Siblings(all, g)
    BY <1>4 DEF SameGroups
  <2>4. \A s \in Scenes!Siblings(all, g) :
           now[s].rank \in 0..Cardinality(Scenes!Siblings(all, g)) - 1
    BY <1>1, <1>5
  <2>5. \A s, t \in Scenes!Siblings(all, g) : now[s].rank = now[t].rank => s = t
    BY <1>5, <2>1
  <2> QED BY <2>2, <2>4, <2>5 DEF Ranked
<1>7. \A s \in Scenes!AllScenes \ Scenes!Siblings(all, g) : now[s] = all[s]
  BY <1>2
<1> QED BY <1>4, <1>5, <1>6, <1>7 DEF now

LEMMA DenseIndex ==
    ASSUME NEW all \in PlaceMaps, NEW g \in Nat, NEW s \in Scenes!AllScenes
    PROVE  Scenes!Index(Scenes!Dense(all, g), s) = Scenes!Index(all, s)
<1> DEFINE now == Scenes!Dense(all, g)
<1>1. /\ SameGroups(now, all) /\ Ranked(now, g)
      /\ \A t \in Scenes!Siblings(all, g) : now[t].rank = Scenes!Index(all, t)
      /\ \A t \in Scenes!AllScenes \ Scenes!Siblings(all, g) : now[t] = all[t]
  BY DenseIs
<1> HIDE DEF now
<1>2. CASE all[s].group = g
  <2>1. s \in Scenes!Siblings(all, g)
    BY <1>2 DEF Scenes!Siblings
  <2>2. Scenes!Index(now, s) = now[s].rank
    BY <1>1, <1>2, RankIsIndex DEF SameGroups
  <2> QED BY <1>1, <2>1, <2>2 DEF now
<1>3. CASE all[s].group # g
  <2>1. \A t \in Scenes!Siblings(all, all[s].group) : now[t].rank = all[t].rank
    BY <1>1, <1>3 DEF Scenes!Siblings
  <2>2. Scenes!Index(now, s) = Scenes!Index(all, s)
    BY <1>1, <2>1, SameIndex DEF SameGroups
  <2> QED BY <2>2 DEF now
<1> QED BY <1>2, <1>3

LEMMA SameOrder ==
    ASSUME NEW all \in PlaceMaps, NEW now, SameGroups(now, all),
           NEW t \in Scenes!AllScenes, NEW u \in Scenes!AllScenes,
           all[t].group = all[u].group,
           t # u => (Scenes!Index(now, t) < Scenes!Index(now, u)
                       <=> Scenes!Index(all, t) < Scenes!Index(all, u))
    PROVE  Scenes!Before(all, t, u) = Scenes!Before(now, t, u)
<1>1. CASE t = u
  <2>1. t \in Nat
    BY DEF Scenes!AllScenes
  <2>2. Scenes!Before(all, t, u) = TRUE
    BY <1>1, <2>1 DEF Scenes!Before
  <2>3. Scenes!Before(now, t, u) = TRUE
    BY <1>1, <2>1 DEF Scenes!Before
  <2> QED BY <2>2, <2>3
<1>2. CASE t # u
  <2>1. Scenes!Before(all, t, u) <=> Scenes!Before(now, t, u)
    BY <1>2, BeforeIsIndex DEF SameGroups
  <2> QED BY <2>1 DEF Scenes!Before
<1> QED BY <1>1, <1>2

\* Two scenes of a group exchange their places.
LEMMA SwappedIs ==
    ASSUME NEW all \in PlaceMaps, NEW s \in Scenes!AllScenes, NEW t \in Scenes!AllScenes,
           s # t, all[s].group = all[t].group
    PROVE  LET now == Scenes!Swapped(all, s, t)
           IN  /\ SameGroups(now, all)
               /\ Scenes!Index(now, s) = Scenes!Index(all, t)
               /\ Scenes!Index(now, t) = Scenes!Index(all, s)
               /\ \A u \in Scenes!AllScenes \ {s, t} :
                     Scenes!Index(now, u) = Scenes!Index(all, u)
               /\ Ranked(now, all[s].group)
               /\ \A u \in Scenes!AllScenes \ Scenes!Siblings(all, all[s].group) :
                     now[u] = all[u]
<1> DEFINE g == all[s].group
           dense == Scenes!Dense(all, g)
           now == Scenes!Swapped(all, s, t)
<1>0. g \in Nat
  BY DEF PlaceMaps
<1>1. /\ SameGroups(dense, all) /\ Ranked(dense, g)
      /\ \A u \in Scenes!Siblings(all, g) : dense[u].rank = Scenes!Index(all, u)
      /\ \A u \in Scenes!AllScenes \ Scenes!Siblings(all, g) : dense[u] = all[u]
  BY <1>0, DenseIs
<1>2. now = [dense EXCEPT ![s].rank = Scenes!Index(all, t), ![t].rank = Scenes!Index(all, s)]
  BY DEF Scenes!Swapped
<1>3. s \in Scenes!Siblings(all, g) /\ t \in Scenes!Siblings(all, g)
  BY DEF Scenes!Siblings
<1>4. \A u \in Scenes!Siblings(all, g) :
         /\ u \in Scenes!AllScenes /\ all[u].group = g
         /\ Scenes!Index(all, u) \in Nat
         /\ Scenes!Index(all, u) \in 0..Cardinality(Scenes!Siblings(all, g)) - 1
  <2> TAKE u \in Scenes!Siblings(all, g)
  <2>1. u \in Scenes!AllScenes /\ all[u].group = g
    BY DEF Scenes!Siblings
  <2> QED BY <2>1, IndexRange
<1>5. dense \in PlaceMaps
  BY <1>1 DEF SameGroups
<1> HIDE DEF now, dense, g
<1>6. /\ now \in PlaceMaps
      /\ \A u \in Scenes!AllScenes : now[u].group = dense[u].group
      /\ now[s].rank = Scenes!Index(all, t) /\ now[t].rank = Scenes!Index(all, s)
      /\ \A u \in Scenes!AllScenes \ {s, t} : now[u] = dense[u]
  BY <1>2, <1>3, <1>4, <1>5 DEF PlaceMaps
<1>7. SameGroups(now, all)
  BY <1>1, <1>6 DEF SameGroups, Scenes!Siblings
<1>8. \A u \in Scenes!Siblings(all, g) :
         now[u].rank = IF u = s THEN Scenes!Index(all, t)
                       ELSE IF u = t THEN Scenes!Index(all, s) ELSE Scenes!Index(all, u)
  BY <1>1, <1>4, <1>6
<1>9. Ranked(now, g)
  <2>1. \A u, v \in Scenes!Siblings(all, g) :
           Scenes!Index(all, u) = Scenes!Index(all, v) => u = v
    BY <1>4, BeforeIsIndex
  <2>2. \A u \in Scenes!Siblings(all, g) :
           now[u].rank \in 0..Cardinality(Scenes!Siblings(all, g)) - 1
    BY <1>3, <1>4, <1>8
  <2>3. \A u, v \in Scenes!Siblings(all, g) : now[u].rank = now[v].rank => u = v
    BY <1>3, <1>8, <2>1
  <2> QED BY <1>7, <2>2, <2>3 DEF Ranked, SameGroups
<1>10. \A u \in Scenes!Siblings(all, g) : Scenes!Index(now, u) = now[u].rank
  BY <1>4, <1>7, <1>9, RankIsIndex DEF SameGroups
<1>11. ASSUME NEW u \in Scenes!AllScenes \ {s, t}
       PROVE  Scenes!Index(now, u) = Scenes!Index(all, u)
  <2>1. CASE all[u].group = g
    <3>1. u \in Scenes!Siblings(all, g)
      BY <2>1 DEF Scenes!Siblings
    <3> QED BY <1>8, <1>10, <3>1
  <2>2. CASE all[u].group # g
    <3>1. \A v \in Scenes!Siblings(all, all[u].group) : now[v].rank = all[v].rank
      BY <1>1, <1>3, <1>6, <2>2 DEF Scenes!Siblings
    <3> QED BY <1>7, <3>1, SameIndex DEF SameGroups
  <2> QED BY <2>1, <2>2
<1>12. \A u \in Scenes!AllScenes \ Scenes!Siblings(all, g) : now[u] = all[u]
  BY <1>1, <1>3, <1>6
<1> QED BY <1>3, <1>7, <1>8, <1>9, <1>10, <1>11, <1>12 DEF now, g

RanksFit(all) ==
    /\ all \in PlaceMaps
    /\ \A s \in Scenes!AllScenes : all[s].rank < Scenes!Largest

LEMMA InitRanks == MCInit => RanksFit(places)
<1> SUFFICES ASSUME MCInit PROVE RanksFit(places)
  OBVIOUS
<1>1. \A s \in Scenes!AllScenes : s \in Nat /\ s < Scenes!Largest
  BY LargestIsHigh DEF Scenes!AllScenes
<1>2. CASE part = "scenes"
  <2>1. places \in [Scenes!AllScenes -> {Scenes!Place(group, rank) :
                                           group \in Scenes!GroupIds, rank \in Ranks}]
    BY <1>2 DEF MCInit, Scenes!SceneOrderInit
  <2>2. \A s \in Scenes!AllScenes : \E group \in Scenes!GroupIds, rank \in Ranks :
           places[s] = [group |-> group, rank |-> rank]
    BY <2>1 DEF Scenes!Place
  <2>3. ASSUME NEW s \in Scenes!AllScenes
        PROVE  places[s] \in [group : Nat, rank : Nat] /\ places[s].rank < Scenes!Largest
    <3>1. PICK group \in Scenes!GroupIds, rank \in Ranks :
             places[s] = [group |-> group, rank |-> rank]
      BY <2>2
    <3>2. group \in Nat /\ rank \in Nat /\ rank < Scenes!Largest
      BY LargestIsHigh DEF Scenes!GroupIds
    <3> QED BY <3>1, <3>2
  <2> QED BY <2>1, <2>3 DEF RanksFit, PlaceMaps
<1>3. CASE part # "scenes"
  <2>1. places = [s \in Scenes!AllScenes |-> [group |-> 1, rank |-> s]]
    BY <1>3 DEF MCInit, Scenes!AllScenes
  <2> QED BY <1>1, <2>1 DEF RanksFit, PlaceMaps
<1> QED BY <1>2, <1>3

\* A group has at most as many scenes as there are.
LEMMA RankedFits ==
    ASSUME NEW all \in PlaceMaps, NEW g, Ranked(all, g),
           \A s \in Scenes!AllScenes \ Scenes!Siblings(all, g) : all[s].rank < Scenes!Largest
    PROVE  RanksFit(all)
<1> DEFINE group == Scenes!Siblings(all, g)
<1>1. group \in SUBSET Scenes!AllScenes
  BY DEF Scenes!Siblings
<1>2. Cardinality(group) \in Nat
  BY <1>1, ScenesFinite
<1>3. Cardinality(group) <= SceneCount
  <2>1. IsFiniteSet(Scenes!AllScenes) /\ Cardinality(Scenes!AllScenes) = SceneCount
    BY LargestIsHigh, FS_Interval DEF Scenes!AllScenes
  <2> HIDE DEF group
  <2> QED BY <1>1, <2>1, FS_Subset
<1>4. \A s \in group : all[s].rank \in 0..Cardinality(group) - 1
  BY DEF Ranked
<1> HIDE DEF group
<1>5. \A s \in group : all[s].rank < Scenes!Largest
  BY <1>2, <1>3, <1>4, LargestIsHigh
<1> QED BY <1>5 DEF RanksFit, group

\* Between neighbours there is nobody.
LEMMA MoveStep ==
    ASSUME RanksFit(places), NEW s \in Scenes!AllScenes, NEW direction \in {-1, 1},
           Scenes!MoveScene(s, direction)
    PROVE  /\ RanksFit(places') /\ SameGroups(places', places)
           /\ Scenes!Index(places', s) = Scenes!Index(places, s) + direction
           /\ \A t, u \in Scenes!AllScenes \ {s} :
                 places[t].group = places[u].group =>
                   Scenes!Before(places, t, u) = Scenes!Before(places', t, u)
<1> DEFINE group == Scenes!Siblings(places, places[s].group)
           i == Scenes!Index(places, s)
<1>1. PICK p \in group : /\ Scenes!Index(places, p) = i + direction
                         /\ places' = Scenes!Swapped(places, s, p)
  BY DEF Scenes!MoveScene
<1>2. places \in PlaceMaps /\ places[s].group \in Nat
  BY DEF RanksFit, PlaceMaps
<1>3. p \in Scenes!AllScenes /\ places[p].group = places[s].group
  BY DEF Scenes!Siblings
<1>4. \A x \in Scenes!AllScenes : Scenes!Index(places, x) \in Int
  BY <1>2, IndexRange
<1>5. s # p
  BY <1>1, <1>4
<1>6. /\ SameGroups(places', places)
      /\ Scenes!Index(places', s) = Scenes!Index(places, p)
      /\ Scenes!Index(places', p) = Scenes!Index(places, s)
      /\ \A u \in Scenes!AllScenes \ {s, p} :
            Scenes!Index(places', u) = Scenes!Index(places, u)
      /\ Ranked(places', places[s].group)
      /\ \A u \in Scenes!AllScenes \ group : places'[u] = places[u]
  BY <1>1, <1>2, <1>3, <1>5, SwappedIs
<1>7. RanksFit(places')
  <2>1. places' \in PlaceMaps /\ Scenes!Siblings(places', places[s].group) = group
    BY <1>6 DEF SameGroups
  <2>2. \A u \in Scenes!AllScenes \ group : places'[u].rank < Scenes!Largest
    BY <1>6 DEF RanksFit
  <2> QED BY <1>6, <2>1, <2>2, RankedFits
<1>8. \A x \in Scenes!AllScenes \ {s, p} :
         places[x].group = places[p].group =>
           Scenes!Index(places, x) # i /\ Scenes!Index(places, x) # i + direction
  <2> TAKE x \in Scenes!AllScenes \ {s, p}
  <2>1. places[x].group = places[p].group =>
          /\ Scenes!Index(places, x) # Scenes!Index(places, s)
          /\ Scenes!Index(places, x) # Scenes!Index(places, p)
    BY <1>2, <1>3, BeforeIsIndex
  <2> QED BY <1>1, <2>1
<1>9. ASSUME NEW t \in Scenes!AllScenes \ {s}, NEW u \in Scenes!AllScenes \ {s},
             places[t].group = places[u].group
      PROVE  Scenes!Before(places, t, u) = Scenes!Before(places', t, u)
  <2>1. /\ i \in Int /\ Scenes!Index(places, t) \in Int /\ Scenes!Index(places, u) \in Int
        /\ direction \in {-1, 1}
    BY <1>4
  <2> HIDE DEF i
  <2>2. CASE t = p /\ u # p
    <3>1. /\ Scenes!Index(places', t) = i /\ Scenes!Index(places, t) = i + direction
          /\ Scenes!Index(places', u) = Scenes!Index(places, u)
          /\ Scenes!Index(places, u) # i /\ Scenes!Index(places, u) # i + direction
      BY <1>1, <1>6, <1>8, <1>9, <2>2 DEF i
    <3>2. Scenes!Index(places', t) < Scenes!Index(places', u)
            <=> Scenes!Index(places, t) < Scenes!Index(places, u)
      BY <2>1, <3>1
    <3> QED BY <1>2, <1>6, <1>9, <3>2, SameOrder
  <2>3. CASE u = p /\ t # p
    <3>1. /\ Scenes!Index(places', u) = i /\ Scenes!Index(places, u) = i + direction
          /\ Scenes!Index(places', t) = Scenes!Index(places, t)
          /\ Scenes!Index(places, t) # i /\ Scenes!Index(places, t) # i + direction
      BY <1>1, <1>6, <1>8, <1>9, <2>3 DEF i
    <3>2. Scenes!Index(places', t) < Scenes!Index(places', u)
            <=> Scenes!Index(places, t) < Scenes!Index(places, u)
      BY <2>1, <3>1
    <3> QED BY <1>2, <1>6, <1>9, <3>2, SameOrder
  <2>4. CASE t # p /\ u # p
    BY <1>2, <1>6, <1>9, <2>4, SameOrder
  <2>5. CASE t = u
    BY <1>2, <1>6, <1>9, <2>5, SameOrder
  <2> QED BY <2>2, <2>3, <2>4, <2>5
<1> QED BY <1>1, <1>6, <1>7, <1>9

\* Nobody ranks as high as what comes last.
LEMMA ReparentStep ==
    ASSUME RanksFit(places), NEW s \in Scenes!AllScenes, NEW group \in Scenes!GroupIds,
           Scenes!ReparentScene(s, group)
    PROVE  /\ RanksFit(places')
           /\ \A t \in Scenes!AllScenes \ {s} : places'[t].group = places[t].group
           /\ Scenes!Index(places', s) = Cardinality(Scenes!Siblings(places', group)) - 1
           /\ \A t, u \in Scenes!AllScenes \ {s} :
                 places[t].group = places[u].group =>
                   Scenes!Before(places, t, u) = Scenes!Before(places', t, u)
<1> DEFINE from == places[s].group
           moved == [places EXCEPT ![s] = Scenes!Place(group, Scenes!Largest)]
           there == Scenes!Dense(moved, group)
<1>1. places' = Scenes!Dense(there, from)
  BY DEF Scenes!ReparentScene, Scenes!Reparented
<1>2. /\ places \in PlaceMaps /\ from \in Nat /\ group \in Nat
      /\ \A t \in Scenes!AllScenes : places[t].rank < Scenes!Largest
  BY DEF RanksFit, PlaceMaps, Scenes!GroupIds
<1>3. /\ moved[s] = [group |-> group, rank |-> Scenes!Largest]
      /\ \A t \in Scenes!AllScenes \ {s} : moved[t] = places[t]
      /\ moved = [t \in Scenes!AllScenes |-> moved[t]]
  BY <1>2 DEF Scenes!Place, PlaceMaps
<1> HIDE DEF moved
<1>4. moved \in PlaceMaps
  BY <1>2, <1>3, LargestIsHigh DEF PlaceMaps
<1>5. /\ SameGroups(there, moved) /\ Ranked(there, group)
      /\ \A t \in Scenes!AllScenes \ Scenes!Siblings(moved, group) : there[t] = moved[t]
      /\ \A t \in Scenes!AllScenes : Scenes!Index(there, t) = Scenes!Index(moved, t)
  BY <1>2, <1>4, DenseIs, DenseIndex
<1> HIDE DEF there
<1>6. there \in PlaceMaps /\ Scenes!Siblings(there, group) = Scenes!Siblings(moved, group)
  BY <1>5 DEF SameGroups
<1>7. /\ SameGroups(places', there) /\ Ranked(places', from)
      /\ \A t \in Scenes!AllScenes \ Scenes!Siblings(there, from) : places'[t] = there[t]
      /\ \A t \in Scenes!AllScenes : Scenes!Index(places', t) = Scenes!Index(there, t)
  BY <1>1, <1>2, <1>6, DenseIs, DenseIndex
<1>8. /\ places' \in PlaceMaps
      /\ Scenes!Siblings(places', from) = Scenes!Siblings(there, from)
      /\ Scenes!Siblings(places', group) = Scenes!Siblings(moved, group)
  BY <1>6, <1>7 DEF SameGroups
<1>9. RanksFit(there)
  <2>1. s \in Scenes!Siblings(moved, group)
    BY <1>3 DEF Scenes!Siblings
  <2>2. \A t \in Scenes!AllScenes \ Scenes!Siblings(there, group) :
           there[t].rank < Scenes!Largest
    BY <1>2, <1>3, <1>5, <1>6, <2>1
  <2> QED BY <1>5, <1>6, <2>2, RankedFits
<1>10. RanksFit(places')
  BY <1>7, <1>8, <1>9, RankedFits DEF RanksFit
<1>11. \A t \in Scenes!AllScenes \ {s} : places'[t].group = places[t].group
  BY <1>3, <1>5, <1>7 DEF SameGroups
<1>12. Scenes!Index(places', s) = Cardinality(Scenes!Siblings(places', group)) - 1
  <2>1. \A t \in Scenes!AllScenes : Scenes!Before(moved, t, s)
    <3> TAKE t \in Scenes!AllScenes
    <3>1. CASE t = s
      BY <3>1 DEF Scenes!Before, Scenes!AllScenes
    <3>2. CASE t # s
      BY <1>2, <1>3, <3>2 DEF Scenes!Before
    <3> QED BY <3>1, <3>2
  <2>2. moved[s].group = group
    BY <1>3
  <2>3. Upto(moved, s) = Scenes!Siblings(moved, group)
    BY <2>1, <2>2 DEF Upto, Scenes!Siblings
  <2> QED BY <1>4, <1>5, <1>7, <1>8, <2>3, UptoOf
<1>13. ASSUME NEW t \in Scenes!AllScenes \ {s}, NEW u \in Scenes!AllScenes \ {s},
              places[t].group = places[u].group
       PROVE  Scenes!Before(places, t, u) = Scenes!Before(places', t, u)
  <2>1. moved[t] = places[t] /\ moved[u] = places[u] /\ moved[t].group = moved[u].group
    BY <1>3, <1>13
  <2>2. there[t].group = there[u].group
    BY <1>5, <2>1 DEF SameGroups
  <2>3. Scenes!Before(places, t, u) = Scenes!Before(moved, t, u)
    BY <2>1 DEF Scenes!Before
  <2>4. Scenes!Before(moved, t, u) = Scenes!Before(there, t, u)
    BY <1>4, <1>5, <2>1, SameOrder
  <2>5. Scenes!Before(there, t, u) = Scenes!Before(places', t, u)
    BY <1>6, <1>7, <2>2, SameOrder
  <2> QED BY <2>3, <2>4, <2>5
<1> QED BY <1>10, <1>11, <1>12, <1>13

LEMMA MoveIsOnePlaceStep ==
    ASSUME RanksFit(places), Scenes!SceneOrderNext
    PROVE  RanksFit(places') /\ Scenes!MoveIsOnePlace
<1>1. \/ UNCHANGED places
      \/ \E s \in Scenes!AllScenes : \E direction \in {-1, 1} : Scenes!MoveScene(s, direction)
      \/ \E s \in Scenes!AllScenes : \E group \in Scenes!GroupIds :
            Scenes!ReparentScene(s, group)
  BY DEF Scenes!SceneOrderNext, Scenes!ToggleLock, Scenes!UpdateScene, Scenes!UpdateSceneChannel
<1>2. RanksFit(places')
  BY <1>1, MoveStep, ReparentStep
<1>3. ASSUME NEW s \in Scenes!AllScenes, places[s].group # places'[s].group
      PROVE  \E group \in Scenes!GroupIds : Scenes!ReparentScene(s, group)
  BY <1>1, <1>3, MoveStep, ReparentStep DEF SameGroups
<1>4. \A s \in Scenes!AllScenes : \A direction \in {-1, 1} : Scenes!MoveScene(s, direction) =>
         Scenes!Index(places', s) = Scenes!Index(places, s) + direction
  BY MoveStep
<1>5. \A s \in Scenes!AllScenes : \A group \in Scenes!GroupIds :
         Scenes!ReparentScene(s, group) =>
           Scenes!Index(places', s) = Scenes!Cardinality(Scenes!Siblings(places', group)) - 1
  BY ReparentStep, ScenesCardinality
<1>6. ASSUME NEW s \in Scenes!AllScenes, NEW t \in Scenes!AllScenes \ {s},
             NEW u \in Scenes!AllScenes \ {s}, places[t].group = places[u].group,
             \/ places[s].group # places'[s].group
             \/ Scenes!MoveScene(s, 1) \/ Scenes!MoveScene(s, -1)
      PROVE  Scenes!Before(places, t, u) = Scenes!Before(places', t, u)
  BY <1>3, <1>6, MoveStep, ReparentStep
<1> QED BY <1>2, <1>4, <1>5, <1>6 DEF Scenes!MoveIsOnePlace

-----------------------------------------------------------------------------
(* The order and the addresses of modules *)

AnyModule == [id : Nat, position : Nat]

\* What a channel has for its address is one of its fields; a channel there is
\* has an index.
Addressable(channels) ==
    /\ channels = [c \in Lights |-> channels[c]]
    /\ \A c \in Lights :
          /\ channels[c] = [module |-> channels[c].module, index |-> channels[c].index,
                            address |-> channels[c].address]
          /\ channels[c] = Order!NoOutput \/ channels[c].index # 0

ModulesFit ==
    /\ modules \in Seq(AnyModule) /\ dropped \subseteq AnyModule
    /\ Addressable(outputs)

LEMMA InitModules == MCInit => ModulesFit
<1> SUFFICES ASSUME MCInit PROVE ModulesFit
  OBVIOUS
<1>1. /\ modules = <<[id |-> 1, position |-> 0], [id |-> 2, position |-> 1]>>
      /\ outputs = [c \in Lights |-> Order!NoOutput] /\ dropped = {}
  BY DEF MCInit, Order!OrderInit
<1>2. modules \in Seq(AnyModule)
  BY <1>1 DEF AnyModule
<1>3. Addressable(outputs)
  BY <1>1 DEF Addressable, Order!NoOutput
<1> QED BY <1>1, <1>2, <1>3 DEF ModulesFit

LEMMA ModulesCardinality == \A S : Order!Cardinality(S) = Cardinality(S)
BY DEF Order!Cardinality, Cardinality, Order!IsFiniteSet, IsFiniteSet

\* In a finite set with a total order, every place is somebody's.
LEMMA EveryPlace ==
    ASSUME NEW S, IsFiniteSet(S), NEW upto \in [S -> SUBSET S],
           \A m \in S : m \in upto[m],
           \A m, n \in S : m # n =>
               \/ upto[m] \subseteq upto[n] /\ n \notin upto[m]
               \/ upto[n] \subseteq upto[m] /\ m \notin upto[n]
    PROVE  /\ Cardinality(S) \in Nat
           /\ \A k \in 1..Cardinality(S) : \E m \in S : Cardinality(upto[m]) = k
<1> DEFINE size == Cardinality(S)
           place == [m \in S |-> Cardinality(upto[m])]
<1>1. size \in Nat
  BY FS_CardinalityType
<1>2. \A m \in S : /\ IsFiniteSet(upto[m])
                   /\ Cardinality(upto[m]) \in Nat /\ Cardinality(upto[m]) <= size
  <2> TAKE m \in S
  <2>1. upto[m] \in SUBSET S
    OBVIOUS
  <2> QED BY <2>1, FS_Subset, FS_CardinalityType
<1>3. \A m \in S : Cardinality(upto[m]) \in 1..size
  <2> TAKE m \in S
  <2>1. Cardinality(upto[m]) # 0
    BY <1>2, FS_EmptySet
  <2> QED BY <1>1, <1>2, <2>1
<1>4. \A m, n \in S : Cardinality(upto[m]) = Cardinality(upto[n]) => m = n
  <2> SUFFICES ASSUME NEW m \in S, NEW n \in S, m # n
               PROVE  Cardinality(upto[m]) # Cardinality(upto[n])
    OBVIOUS
  <2>1. CASE upto[m] \subseteq upto[n] /\ n \notin upto[m]
    <3>1. upto[m] # upto[n]
      BY <2>1
    <3> QED BY <1>2, <2>1, <3>1, FS_Subset
  <2>2. CASE upto[n] \subseteq upto[m] /\ m \notin upto[n]
    <3>1. upto[m] # upto[n]
      BY <2>2
    <3> QED BY <1>2, <2>2, <3>1, FS_Subset
  <2> QED BY <2>1, <2>2
<1>5. IsFiniteSet(1..size) /\ Cardinality(1..size) = size
  <2> HIDE DEF size
  <2> QED BY <1>1, FS_Interval
<1>6. place \in Injection(S, 1..size)
  <2> HIDE DEF size
  <2> QED BY <1>3, <1>4 DEF Injection, IsInjective
<1>7. place \in Surjection(S, 1..size)
  <2> HIDE DEF place
  <2> QED BY <1>5, <1>6, FS_Injection
<1> QED BY <1>1, <1>7 DEF Surjection

\* Sorted, the modules are those there were.
LEMMA OrderedIs ==
    ASSUME NEW mods \in Seq(AnyModule)
    PROVE  Order!Ordered(mods) \in Seq(AnyModule)
<1> DEFINE D == DOMAIN mods
           Place(m) == {n \in D : \/ mods[n].position < mods[m].position
                                  \/ mods[n].position = mods[m].position /\ n <= m}
           upto == [m \in D |-> Place(m)]
<1>1. Len(mods) \in Nat
  OBVIOUS
<1>2. D = 1..Len(mods) /\ \A m \in D : mods[m] \in AnyModule
  OBVIOUS
<1>3. \A m \in D : m \in Nat /\ mods[m].position \in Nat
  BY <1>2 DEF AnyModule
<1>4. IsFiniteSet(D) /\ Cardinality(D) = Len(mods)
  <2> DEFINE size == Len(mods)
  <2>1. size \in Nat
    BY <1>1
  <2> HIDE DEF D, size
  <2>2. IsFiniteSet(1..size) /\ Cardinality(1..size) = size
    BY <2>1, FS_Interval
  <2> QED BY <1>2, <2>2 DEF size
<1>5. Order!Ordered(mods) =
        [k \in D |-> mods[CHOOSE m \in D : Order!Cardinality(Place(m)) = k]]
  BY DEF Order!Ordered
<1> HIDE DEF D
<1>6. /\ upto \in [D -> SUBSET D]
      /\ \A m \in D : m \in upto[m]
      /\ \A m, n \in D : m # n =>
            \/ upto[m] \subseteq upto[n] /\ n \notin upto[m]
            \/ upto[n] \subseteq upto[m] /\ m \notin upto[n]
  BY <1>3
<1>7. \A m \in D : upto[m] = Place(m)
  OBVIOUS
<1> HIDE DEF upto, Place
<1>8. \A k \in D : \E m \in D : Order!Cardinality(Place(m)) = k
  BY <1>2, <1>4, <1>6, <1>7, EveryPlace, ModulesCardinality, SMTT(40)
<1>9. \A k \in D : (CHOOSE m \in D : Order!Cardinality(Place(m)) = k) \in D
  BY <1>8
<1>10. Order!Ordered(mods) \in [D -> AnyModule]
  BY <1>2, <1>5, <1>9
<1> QED BY <1>1, <1>2, <1>10

\* What is numbered by its place is in order.
LEMMA RenumberedIs ==
    ASSUME NEW mods \in Seq(AnyModule)
    PROVE  /\ Order!Renumbered(mods) \in Seq(AnyModule)
           /\ Order!Ordered(Order!Renumbered(mods)) = Order!Renumbered(mods)
<1> DEFINE now == Order!Renumbered(mods)
           D == 1..Len(mods)
<1>1. Len(mods) \in Nat
  OBVIOUS
<1>2. DOMAIN mods = D
  OBVIOUS
<1>3. \A n \in D : mods[n] \in [id : Nat, position : Nat]
  <2>1. \A n \in D : mods[n] \in AnyModule
    OBVIOUS
  <2> QED BY <2>1 DEF AnyModule
<1>4. /\ now = [n \in D |-> now[n]]
      /\ \A n \in D : now[n] \in [id : Nat, position : Nat] /\ now[n].position = n - 1
  <2>1. now = [n \in D |-> [mods[n] EXCEPT !.position = n - 1]]
    BY <1>2 DEF Order!Renumbered
  <2> HIDE DEF now
  <2>2. ASSUME NEW n \in D
        PROVE  now[n] \in [id : Nat, position : Nat] /\ now[n].position = n - 1
    <3>1. n - 1 \in Nat
      OBVIOUS
    <3>2. now[n] = [mods[n] EXCEPT !.position = n - 1]
      BY <2>1
    <3> QED BY <1>3, <3>1, <3>2
  <2> QED BY <2>1, <2>2
<1> HIDE DEF now
<1>5. now \in [D -> AnyModule]
  BY <1>4 DEF AnyModule
<1>6. now \in Seq(AnyModule) /\ DOMAIN now = D
  BY <1>1, <1>5
<1>7. \A m \in D :
         {n \in D : \/ now[n].position < now[m].position
                    \/ now[n].position = now[m].position /\ n <= m} = 1..m
  <2> TAKE m \in D
  <2>1. \A n \in D : n \in Nat /\ now[n].position = n - 1
    BY <1>4
  <2>2. \A n \in D : (\/ now[n].position < now[m].position
                      \/ now[n].position = now[m].position /\ n <= m) <=> n <= m
    BY <2>1
  <2>3. 1..m = {n \in D : n <= m}
    BY <1>1
  <2> QED BY <2>2, <2>3
<1>8. \A m \in D : Cardinality(1..m) = m
  BY FS_Interval
<1> DEFINE Place(m) == {n \in DOMAIN now : \/ now[n].position < now[m].position
                                           \/ now[n].position = now[m].position /\ n <= m}
<1>9. Order!Ordered(now) =
        [k \in DOMAIN now |->
           now[CHOOSE m \in DOMAIN now : Order!Cardinality(Place(m)) = k]]
  BY DEF Order!Ordered
<1>10. \A m \in DOMAIN now : Order!Cardinality(Place(m)) = m
  BY <1>6, <1>7, <1>8, ModulesCardinality
<1> HIDE DEF Place
<1>11. \A k \in DOMAIN now :
          (CHOOSE m \in DOMAIN now : Order!Cardinality(Place(m)) = k) = k
  BY <1>10
<1>12. Order!Ordered(now) = now
  BY <1>4, <1>6, <1>9, <1>11
<1> QED BY <1>6, <1>12 DEF now

\* Without a module there are fewer of them.
LEMMA OthersIs ==
    ASSUME NEW mods \in Seq(AnyModule), NEW m \in DOMAIN mods
    PROVE  LET others == Order!Others(mods, mods[m].id)
           IN  others \in Seq(AnyModule) /\ Len(others) < Len(mods)
<1> DEFINE D == DOMAIN mods
           S == {n \in D : mods[n].id # mods[m].id}
           Place(n) == {k \in S : k <= n}
           upto == [n \in S |-> Place(n)]
           others == Order!Others(mods, mods[m].id)
<1>1. Len(mods) \in Nat
  OBVIOUS
<1>2. D = 1..Len(mods) /\ m \in D
  OBVIOUS
<1>3. IsFiniteSet(D) /\ Cardinality(D) = Len(mods)
  <2> DEFINE size == Len(mods)
  <2>1. size \in Nat
    BY <1>1
  <2> HIDE DEF D, size
  <2>2. IsFiniteSet(1..size) /\ Cardinality(1..size) = size
    BY <2>1, FS_Interval
  <2> QED BY <1>2, <2>2 DEF size
<1>4. S \in SUBSET D /\ m \notin S
  OBVIOUS
<1>5. others = [k \in 1..Order!Cardinality(S) |->
                  mods[CHOOSE n \in S : Order!Cardinality(Place(n)) = k]]
  BY DEF Order!Others
<1>6. \A n \in D : mods[n] \in AnyModule
  OBVIOUS
<1> HIDE DEF D, S, others
<1>7. \A n \in D : n \in Nat
  BY <1>1, <1>2
<1>8. /\ upto \in [S -> SUBSET S]
      /\ \A n \in S : n \in upto[n]
      /\ \A n, k \in S : n # k =>
            \/ upto[n] \subseteq upto[k] /\ k \notin upto[n]
            \/ upto[k] \subseteq upto[n] /\ n \notin upto[k]
  BY <1>4, <1>7
<1>9. \A n \in S : upto[n] = Place(n)
  OBVIOUS
<1> HIDE DEF upto, Place
<1>10. /\ IsFiniteSet(S) /\ Cardinality(S) <= Cardinality(D)
       /\ Cardinality(S) # Cardinality(D)
  BY <1>2, <1>3, <1>4, FS_Subset
<1>11. /\ Cardinality(S) \in Nat
       /\ \A k \in 1..Cardinality(S) : \E n \in S : Order!Cardinality(Place(n)) = k
  BY <1>8, <1>9, <1>10, EveryPlace, ModulesCardinality
<1>12. \A k \in 1..Cardinality(S) :
          (CHOOSE n \in S : Order!Cardinality(Place(n)) = k) \in S
  BY <1>11
<1>13. others \in [1..Cardinality(S) -> AnyModule]
  <2>1. Order!Cardinality(S) = Cardinality(S)
    BY ModulesCardinality
  <2> QED BY <1>4, <1>5, <1>6, <1>12, <2>1
<1>14. others \in Seq(AnyModule) /\ Len(others) = Cardinality(S)
  BY <1>11, <1>13
<1> QED BY <1>1, <1>3, <1>10, <1>11, <1>14 DEF others

\* An address follows from the module and the index, which stay.
LEMMA AddressedIs ==
    ASSUME NEW mods, NEW channels, Addressable(channels)
    PROVE  LET now == Order!Addressed(mods, channels)
           IN  Addressable(now) /\ Order!Addressed(mods, now) = now
<1> DEFINE now == Order!Addressed(mods, channels)
           again == Order!Addressed(mods, now)
           address(c) == Order!Address(Order!Rank(mods, c.module), c.index)
<1>1. now = [c \in Lights |-> IF channels[c] = Order!NoOutput THEN Order!NoOutput
                              ELSE [channels[c] EXCEPT !.address = address(channels[c])]]
  BY DEF Order!Addressed
<1>2. again = [c \in Lights |-> IF now[c] = Order!NoOutput THEN Order!NoOutput
                                ELSE [now[c] EXCEPT !.address = address(now[c])]]
  BY DEF Order!Addressed
<1> HIDE DEF now, again, address
<1>3. ASSUME NEW c \in Lights
      PROVE  /\ now[c] = [module |-> now[c].module, index |-> now[c].index,
                          address |-> now[c].address]
             /\ now[c] = Order!NoOutput \/ now[c].index # 0
             /\ again[c] = now[c]
  <2>1. CASE channels[c] = Order!NoOutput
    <3>1. now[c] = Order!NoOutput
      BY <1>1, <2>1
    <3>2. again[c] = Order!NoOutput
      BY <1>2, <3>1
    <3> QED BY <3>1, <3>2 DEF Order!NoOutput
  <2>2. CASE channels[c] # Order!NoOutput
    <3>1. /\ channels[c] = [module |-> channels[c].module, index |-> channels[c].index,
                            address |-> channels[c].address]
          /\ channels[c].index # 0
      BY <2>2 DEF Addressable
    <3>2. now[c] = [channels[c] EXCEPT !.address = address(channels[c])]
      BY <1>1, <2>2
    <3>3. now[c] = [module |-> channels[c].module, index |-> channels[c].index,
                    address |-> address(channels[c])]
      BY <3>1, <3>2
    <3>4. now[c].module = channels[c].module /\ now[c].index = channels[c].index
      BY <3>3
    <3>5. now[c] # Order!NoOutput
      BY <3>1, <3>4 DEF Order!NoOutput
    <3>6. address(now[c]) = address(channels[c])
      BY <3>4 DEF address
    <3>7. again[c] = [now[c] EXCEPT !.address = address(now[c])]
      BY <1>2, <3>5
    <3>8. again[c] = now[c]
      BY <3>3, <3>6, <3>7
    <3> QED BY <3>1, <3>3, <3>4, <3>8
  <2> QED BY <2>1, <2>2
<1>4. Addressable(now)
  BY <1>1, <1>3 DEF Addressable
<1>5. again = now
  BY <1>1, <1>2, <1>3
<1> QED BY <1>4, <1>5 DEF now, again

\* The first channel unused and the first free index are numbers of theirs.
LEMMA FreeIndex ==
    ASSUME NEW S \in SUBSET (1..IndexMax), S # {}
    PROVE  Order!Min(S) # 0
<1>1. S \in SUBSET Nat /\ 0 \notin S
  BY WorkspaceAssumption DEF Order!OrderAssumption
<1>2. \E m \in S : \A n \in S : m <= n
  BY <1>1, Smallest
<1>3. Order!Min(S) \in S
  <2>1. Order!Min(S) = CHOOSE m \in S : \A n \in S : m <= n
    BY DEF Order!Min
  <2> QED BY <1>2, <2>1, Zenon
<1> QED BY <1>1, <1>3

LEMMA AddChannelStep ==
    ASSUME ModulesFit, Order!AddChannel
    PROVE  ModulesFit'
<1>1. PICK c, m, index, address :
         /\ index # 0
         /\ outputs' = [outputs EXCEPT ![c] = [module |-> m, index |-> index,
                                               address |-> address]]
         /\ UNCHANGED <<modules, dropped>>
  <2> DEFINE m == modules[1].id
             taken == {outputs[c].index : c \in {d \in Order!Used : outputs[d].module = m}}
             free == (1..IndexMax) \ taken
             index == IF free = {} THEN 1 ELSE Order!Min(free)
             unused == Order!Min(Lights \ Order!Used)
  <2>1. /\ outputs' = [outputs EXCEPT ![unused] = [module |-> m, index |-> index,
                                                   address |-> Order!Address(0, index)]]
        /\ UNCHANGED <<modules, dropped>>
    BY DEF Order!AddChannel
  <2>2. free \in SUBSET (1..IndexMax)
    OBVIOUS
  <2> HIDE DEF free
  <2>3. index # 0
    BY <2>2, FreeIndex
  <2> HIDE DEF index, unused, m
  <2> QED BY <2>1, <2>3
<1>2. Addressable(outputs')
  BY <1>1 DEF ModulesFit, Addressable
<1> QED BY <1>1, <1>2 DEF ModulesFit

LEMMA MovedModules ==
    ASSUME NEW mods \in Seq(AnyModule), NEW n \in DOMAIN mods, NEW place \in DOMAIN mods
    PROVE  Order!InsertAt(Order!RemoveAt(mods, n), place, mods[n]) \in Seq(AnyModule)
<1>1. n \in 1..Len(mods) /\ place \in 1..Len(mods) /\ Len(mods) \in Nat
  OBVIOUS
<1>2. mods[n] \in AnyModule
  OBVIOUS
<1> DEFINE rest == SubSeq(mods, 1, n - 1) \o SubSeq(mods, n + 1, Len(mods))
<1>3. rest \in Seq(AnyModule) /\ Len(rest) = Len(mods) - 1
  <2> DEFINE before == SubSeq(mods, 1, n - 1)
             after == SubSeq(mods, n + 1, Len(mods))
  <2>1. before \in Seq(AnyModule) /\ Len(before) = n - 1
    BY <1>1
  <2>2. after \in Seq(AnyModule) /\ Len(after) = Len(mods) - n
    BY <1>1
  <2> HIDE DEF before, after
  <2>3. before \o after \in Seq(AnyModule)
    BY <2>1, <2>2
  <2>4. Len(before \o after) = Len(before) + Len(after)
    BY <2>1, <2>2, ConcatProperties
  <2>5. Len(before \o after) = Len(mods) - 1
    <3>1. n \in Int /\ Len(mods) \in Int
      BY <1>1
    <3> QED BY <2>1, <2>2, <2>4, <3>1
  <2> QED BY <2>3, <2>5 DEF before, after
<1>4. Order!RemoveAt(mods, n) = rest
  BY DEF Order!RemoveAt
<1> HIDE DEF rest
<1>5. SubSeq(rest, 1, place - 1) \in Seq(AnyModule)
  BY <1>1, <1>3
<1>6. SubSeq(rest, place, Len(rest)) \in Seq(AnyModule)
  BY <1>1, <1>3
<1>7. <<mods[n]>> \in Seq(AnyModule)
  BY <1>2
<1> DEFINE before == SubSeq(rest, 1, place - 1)
           after == SubSeq(rest, place, Len(rest))
           one == <<mods[n]>>
<1>8. Order!InsertAt(rest, place, mods[n]) = before \o one \o after
  BY DEF Order!InsertAt
<1> HIDE DEF before, after, one
<1> QED BY <1>4, <1>5, <1>6, <1>7, <1>8 DEF before, after, one

LEMMA MoveModuleStep ==
    ASSUME ModulesFit, NEW n, NEW place, Order!MoveModule(n, place)
    PROVE  ModulesFit' /\ Order!RightlyAddressed'
<1> DEFINE order == Order!Ordered(modules)
           moved == Order!InsertAt(Order!RemoveAt(order, n), place, order[n])
<1>1. order \in Seq(AnyModule)
  BY OrderedIs DEF ModulesFit
<1>2. /\ n \in DOMAIN order /\ place \in DOMAIN order
      /\ modules' = Order!Renumbered(moved)
      /\ outputs' = Order!Addressed(modules', outputs)
      /\ dropped' = dropped
  BY DEF Order!MoveModule
<1>3. moved \in Seq(AnyModule)
  <2> HIDE DEF order
  <2> QED BY <1>1, <1>2, MovedModules
<1> HIDE DEF moved
<1>4. modules' \in Seq(AnyModule) /\ Order!Ordered(modules') = modules'
  BY <1>2, <1>3, RenumberedIs
<1>5. Addressable(outputs') /\ Order!Addressed(modules', outputs') = outputs'
  BY <1>2, AddressedIs DEF ModulesFit
<1>6. ModulesFit'
  BY <1>2, <1>4, <1>5 DEF ModulesFit
<1>7. Order!RightlyAddressed'
  BY <1>4, <1>5 DEF Order!RightlyAddressed
<1> QED BY <1>6, <1>7

LEMMA ModulesStep ==
    ASSUME ModulesFit, Order!OrderNext
    PROVE  ModulesFit' /\ Order!ReorderAddresses
<1> USE DEF ModulesFit
<1>1. CASE Order!AddChannel
  BY <1>1, AddChannelStep DEF Order!AddChannel, Order!ReorderAddresses
<1>2. CASE Order!UpdateModule
  BY <1>2, AddressedIs DEF Order!UpdateModule, Order!ReorderAddresses
<1>3. ASSUME NEW id \in ModuleIds, Order!AddModule(id)
      PROVE  ModulesFit' /\ Order!ReorderAddresses
  <2>1. /\ modules' = Append(modules, [id |-> id, position |-> Len(modules)])
        /\ outputs' = outputs /\ dropped' = dropped
    BY <1>3 DEF Order!AddModule
  <2>2. [id |-> id, position |-> Len(modules)] \in AnyModule
    BY WorkspaceAssumption DEF Order!OrderAssumption, AnyModule
  <2>3. modules' \in Seq(AnyModule) /\ Len(modules') # Len(modules)
    BY <2>1, <2>2
  <2> QED BY <2>1, <2>3 DEF Order!ReorderAddresses
<1>4. ASSUME NEW c \in Lights, Order!UpdateChannel(c)
      PROVE  ModulesFit' /\ Order!ReorderAddresses
  <2>1. PICK m : /\ outputs' = Order!Addressed(Order!Ordered(modules),
                                               [outputs EXCEPT ![c].module = m])
                 /\ modules' = modules /\ dropped' = dropped
    BY <1>4 DEF Order!UpdateChannel
  <2>2. outputs[c].index # 0
    BY <1>4 DEF Order!UpdateChannel, Order!Used, Addressable
  <2>3. Addressable([outputs EXCEPT ![c].module = m])
    <3> DEFINE now == [outputs EXCEPT ![c].module = m]
    <3>1. /\ now = [d \in Lights |-> now[d]]
          /\ \A d \in Lights \ {c} : now[d] = outputs[d]
          /\ now[c] = [outputs[c] EXCEPT !.module = m]
      BY DEF Addressable
    <3> HIDE DEF now
    <3>2. now[c] = [module |-> m, index |-> outputs[c].index, address |-> outputs[c].address]
      BY <3>1 DEF Addressable
    <3>3. Addressable(now)
      BY <2>2, <3>1, <3>2 DEF Addressable
    <3> QED BY <3>3 DEF now
  <2> QED BY <2>1, <2>3, AddressedIs DEF Order!ReorderAddresses
<1>5. ASSUME NEW n \in DOMAIN modules, Order!DeleteModule(n)
      PROVE  ModulesFit' /\ Order!ReorderAddresses
  <2>1. /\ modules' = Order!Others(modules, modules[n].id)
        /\ dropped' = dropped \cup {modules[n]} /\ outputs' = outputs
    BY <1>5 DEF Order!DeleteModule
  <2>2. modules[n] \in AnyModule /\ Len(modules) \in Nat
    OBVIOUS
  <2>3. modules' \in Seq(AnyModule) /\ Len(modules') < Len(modules)
    BY <2>1, OthersIs
  <2>4. Len(modules') # Len(modules)
    BY <2>2, <2>3
  <2> QED BY <2>1, <2>2, <2>3, <2>4 DEF Order!ReorderAddresses
<1>6. ASSUME NEW n, NEW place, Order!MoveModule(n, place)
      PROVE  ModulesFit' /\ Order!ReorderAddresses
  BY <1>6, MoveModuleStep DEF Order!ReorderAddresses
<1>7. ASSUME NEW m \in dropped, Order!RestoreModule(m)
      PROVE  ModulesFit' /\ Order!ReorderAddresses
  <2>1. /\ modules' = Append(modules, m) /\ m \in AnyModule
        /\ outputs' = outputs /\ dropped' = dropped \ {m}
    BY <1>7 DEF Order!RestoreModule
  <2>2. modules' \in Seq(AnyModule) /\ Len(modules') # Len(modules)
    BY <2>1
  <2> QED BY <2>1, <2>2 DEF Order!ReorderAddresses
<1> QED BY <1>1, <1>2, <1>3, <1>4, <1>5, <1>6, <1>7 DEF Order!OrderNext

-----------------------------------------------------------------------------
\* Whatever the ranks, a scene moves one place and leaves the order of the
\* others; and a module that is moved has every channel addressed afresh, so
\* that no later edit moves an address (moveScene, reparentScene and moveModule
\* in app/page.tsx, app/scene-order.ts).
THEOREM WorkspaceOrderHolds == MCSpec => OrderHolds
<1> DEFINE Inv == RanksFit(places) /\ ModulesFit
<1>1. MCInit => Inv
  BY InitRanks, InitModules
<1>2. Inv /\ [MCNext]_vars => Inv'
  <2>1. UNCHANGED sceneVars /\ RanksFit(places) => RanksFit(places')
    BY DEF sceneVars
  <2>2. UNCHANGED moduleVars /\ ModulesFit => ModulesFit'
    BY DEF moduleVars, ModulesFit
  <2> QED BY <2>1, <2>2, MoveIsOnePlaceStep, ModulesStep DEF MCNext, vars
<1>3. Inv /\ [MCNext]_vars =>
        [/\ part = "modules" => Order!ReorderAddresses
         /\ part = "scenes" => Scenes!MoveIsOnePlace]_vars
  BY MoveIsOnePlaceStep, ModulesStep DEF MCNext
<1> QED BY <1>1, <1>2, <1>3, PTL DEF MCSpec, OrderHolds

=============================================================================
