---------------------------- MODULE UserProfiles ----------------------------
(***************************************************************************)
(* A user's profile as the controller gets it (compileUserProfiles in      *)
(* app/compile-user-profiles.ts): the rooms and switches the user may use, *)
(* either the list of archive keys the user was imported with, when it     *)
(* still says the same as the editor, or one made from the editor's        *)
(* selection.  The codes and names of a profile are left out.              *)
(***************************************************************************)
EXTENDS Integers, Sequences, FiniteSets, SequencesExt

CONSTANTS
    RoomLists,     \* inputs: data.rooms, each with an ID and a key
    SwitchLists,   \* inputs: data.switches, each with an ID, a key and a room
    ChannelSets,   \* inputs: data.channels: room, hardware type
    RawAccess,     \* inputs: user.roomAccess as sequences of keys
    Selections     \* inputs: user.roomIds and user.switchIds, or Untouched

Untouched == [rooms |-> {0}, switches |-> {0}]   \* both undefined
NoKey == 0                                       \* legacyKey undefined

ProfileAssumption ==
    /\ \A rooms \in RoomLists : \A n \in DOMAIN rooms :
          rooms[n].id \in Nat \ {0} /\ rooms[n].key \in Nat
    /\ \A switches \in SwitchLists : \A n \in DOMAIN switches :
          switches[n].id \in Nat \ {0} /\ switches[n].key \in Nat

VARIABLES data    \* the part of the workspace a profile is made of

ProfileInit ==
    data \in [rooms : RoomLists, switches : SwitchLists, channels : ChannelSets,
              access : RawAccess, selection : Selections]
ProfileNext == UNCHANGED data
ProfileSpec == ProfileInit /\ [][ProfileNext]_data

-----------------------------------------------------------------------------
Rooms == {data.rooms[n] : n \in DOMAIN data.rooms}
Switches == {data.switches[n] : n \in DOMAIN data.switches}
Keyed(set, key) == {x \in set : x.key = key /\ key # NoKey}
IdsOf(set) == {x.id : x \in set}

-----------------------------------------------------------------------------
(* accessEntries *)

\* What the imported keys stand for, with repetitions counted.
RawRoomIds == FlattenSeq([n \in DOMAIN data.access |->
                SetToSeq(IdsOf(Keyed(Rooms, data.access[n][1])))])
RawSwitchIds == FlattenSeq([n \in DOMAIN data.access |->
                  FlattenSeq([k \in 1..(Len(data.access[n]) - 1) |->
                    SetToSeq(IdsOf(Keyed(Switches, data.access[n][k + 1])))])])

\* Faulty variant: it is enough that the selection has all that is listed.
SameIdsWithin(list, set) == \A k \in DOMAIN list : list[k] \in set

SameIds(list, set) ==
    /\ Len(list) = Cardinality(set)
    /\ \A k \in DOMAIN list : list[k] \in set

\* The entries made from the selection: one for each room that is selected or
\* has a switch that is, empty when the room has no key.
Chosen(room) == SelectSeq(data.switches, LAMBDA s : /\ s.room = room.id
                                                    /\ s.id \in data.selection.switches)
SelectedEntries ==
    LET listed == SelectSeq(data.rooms, LAMBDA r : \/ r.id \in data.selection.rooms
                                                   \/ Chosen(r) # <<>>)
        keys(room) == SelectSeq([k \in DOMAIN Chosen(room) |-> Chosen(room)[k].key],
                                LAMBDA key : key # NoKey)
    IN  [n \in DOMAIN listed |-> IF listed[n].key = NoKey THEN <<>>
                                 ELSE <<listed[n].key>> \o keys(listed[n])]

AccessEntries ==
    IF \/ data.selection = Untouched
       \/ /\ SameIds(RawRoomIds, data.selection.rooms)
          /\ SameIds(RawSwitchIds, data.selection.switches)
    THEN data.access
    ELSE SelectedEntries

-----------------------------------------------------------------------------
(* The profile *)

RoomOf(entry) == IF entry = <<>> THEN {} ELSE Keyed(Rooms, entry[1])

\* The switch of a key, if there is one and it is in the entry's room.
SwitchOf(entry, key) == {s \in Keyed(Switches, key) : s.room \in IdsOf(RoomOf(entry))}

\* One room record for each entry whose room is known; hardware type 0 is not
\* a channel in use.
RoomRecord(entry) ==
    [room |-> CHOOSE r \in RoomOf(entry) : TRUE,
     switches |-> FlattenSeq([k \in 1..(Len(entry) - 1) |->
                                SetToSeq(SwitchOf(entry, entry[k + 1]))]),
     channels |-> {c \in data.channels : /\ c.room \in IdsOf(RoomOf(entry))
                                         /\ c.hardware # 0}]

Profile ==
    LET known == SelectSeq(AccessEntries, LAMBDA e : RoomOf(e) # {})
    IN  [count |-> Len(AccessEntries),
         records |-> [n \in DOMAIN known |-> RoomRecord(known[n])]]

\* The profile is sent only when it is complete: an imported access list whose
\* selection is empty is unresolved, every key must be known, and the suffix of
\* a channel is proven for hardware types of one byte.
Complete ==
    /\ data.access # <<>> => data.selection.rooms \cup data.selection.switches # {}
    /\ \A n \in DOMAIN AccessEntries :
          LET entry == AccessEntries[n]
          IN  /\ RoomOf(entry) # {}
              /\ \A k \in 2..Len(entry) : SwitchOf(entry, entry[k]) # {}
    /\ \A n \in DOMAIN Profile.records : \A c \in Profile.records[n].channels :
          c.hardware \in 0..255

-----------------------------------------------------------------------------
(* Properties *)

\* A complete profile announces as many rooms as it has, and it gives the user
\* the switches selected in the editor (one without a key, drawn after the
\* import, is left out silently) and the rooms selected or holding a selected
\* switch, and no other: an access list kept from the import never outlives a
\* change of the selection (compileUserProfiles).
ProfileRight ==
    Complete =>
        /\ Profile.count = Len(Profile.records)
        /\ data.selection # Untouched =>
             LET records == Range(Profile.records)
                 meant == {s \in Switches : s.id \in data.selection.switches}
             IN  /\ UNION {Range(r.switches) : r \in records} = {s \in meant : s.key # NoKey}
                 /\ IdsOf({r.room : r \in records})
                      = data.selection.rooms \cup {s.room : s \in meant}
=============================================================================
