----------------------------- MODULE Migrations -----------------------------
(***************************************************************************)
(* What is done to a workspace of an older build when it is loaded or      *)
(* imported: restoreAreaHierarchy (app/page.tsx), the tables of periods,   *)
(* the migrations of the stored workspace and the connection details of    *)
(* the browser's copy (app/fd4cfg.ts), and the order of the archive's      *)
(* dictionary (app/foundation-dictionary-order.ts).                        *)
(*                                                                         *)
(* All of them are repeated: an import restores twice, and every load      *)
(* migrates what the last one saved.  An input has a kind, which says what *)
(* part of a workspace it is.  Names are compared as they are.             *)
(***************************************************************************)
EXTENDS Integers, Sequences, FiniteSets, SequencesExt, Lists

CONSTANTS
    RoomTables,     \* inputs: rooms with id, name, floor and parent
    ModuleOrders,   \* inputs: the modules of an archive, in its order
    Indexes,        \* the channels of a module in use
    SceneTables,    \* inputs: scene groups, and scenes with a group and a path
    PeriodTables,   \* inputs: rows of periods and of state flags
    PeriodRows, FlagRows,  \* how many rows there are of each (10 and 25)
    UserTables,     \* inputs: keys of rooms and switches, and users
    CodeTables,     \* inputs: how many modules and channels an archive has, the
                    \* slots after them, and the code of its configuration
    Copies,         \* inputs: a site on the server, and in the browser's copy
    KeyOrders,      \* inputs: keys of a dictionary in the order of insertion
    Hashes,         \* inputs: the hash of each key
    TableSizes, TableCapacities  \* of a dictionary as it grows

OldRooms == [id : Nat, name : STRING, floor : STRING, parent : Nat]
SceneGroups == [id : Nat \ {0}, name : STRING, parent : Nat]
GroupPaths == Seq(STRING) \ {<<>>}
OldScenes == [group : Nat, path : GroupPaths]
OldUsers == [status : STRING, access : Seq(Seq(Nat)), rooms : Seq(Nat), switches : Seq(Nat)]
Links == [id : Nat, key : Nat]
Connections == [id : Nat, ip : STRING, port : Nat, auto : BOOLEAN, code : STRING]

MigrationAssumption ==
    /\ PeriodRows \in Nat \ {0} /\ FlagRows \in Nat \ {0} /\ Indexes \subseteq 1..8
    /\ RoomTables \subseteq Seq(OldRooms) /\ ModuleOrders \subseteq Seq(Nat)
    /\ SceneTables \subseteq [groups : Seq(SceneGroups), scenes : Seq(OldScenes)]
    /\ PeriodTables \subseteq [periods : Seq(STRING), flags : Seq(STRING)]
    /\ \A t \in PeriodTables : /\ Len(t.periods) <= PeriodRows + FlagRows
                              /\ Len(t.flags) <= FlagRows
    /\ UserTables \subseteq [rooms : Seq(Links), switches : Seq(Links), users : Seq(OldUsers)]
    /\ CodeTables \subseteq [modules : Nat, hardware : Nat, code : STRING, top : Seq(STRING)]
    /\ Copies \subseteq [server : Connections, browser : Connections]
    /\ KeyOrders \subseteq Seq(Int)
    /\ \A keys \in KeyOrders, hash \in Hashes : \A n \in DOMAIN keys : hash[keys[n]] \in Nat
    \* Of the table: it starts empty, leaves a bucket free or is just full, and
    \* grows far enough for the largest dictionary.
    /\ TableSizes \in Seq(Nat) /\ TableCapacities \in Seq(Nat) /\ TableSizes # <<>>
    /\ Len(TableSizes) = Len(TableCapacities) /\ TableSizes[1] = 0
    /\ \A n \in DOMAIN TableSizes : TableCapacities[n] <= TableSizes[n]
    /\ \A keys \in KeyOrders : Len(keys) <= TableCapacities[Len(TableCapacities)]

VARIABLE old   \* a part of a workspace of an older build

Input(kind, values) == {[kind |-> kind, value |-> v] : v \in values}

MigrationInit ==
    \/ old \in Input("rooms", RoomTables)
    \/ old \in Input("imported", ModuleOrders)
    \/ old \in Input("nibbles", ModuleOrders)
    \/ old \in Input("scenes", SceneTables)
    \/ old \in Input("tables", PeriodTables)
    \/ old \in Input("users", UserTables)
    \/ old \in Input("codes", CodeTables)
    \/ old \in Input("copies", Copies)
    \/ old \in Input("keys", [keys : KeyOrders, hash : Hashes])
MigrationNext == UNCHANGED old
MigrationSpec == MigrationInit /\ [][MigrationNext]_old

Each(s, f(_)) == [n \in DOMAIN s |-> f(s[n])]

-----------------------------------------------------------------------------
(* restoreAreaHierarchy *)

\* A room without a parent gets the one its floor is named after.
RestoredRooms(rooms) ==
    LET named(r, c) == c.id # r.id /\ c.name = r.floor
        restored(r) == IF r.parent # 0 \/ r.floor \in {"", "FlexiDim"}
                          \/ ~Has(rooms, LAMBDA c : named(r, c))
                       THEN r
                       ELSE [r EXCEPT !.parent = FirstOf(rooms, LAMBDA c : named(r, c)).id]
    IN  Each(rooms, restored)

\* The addresses of an older importer have the position of the module, sorted
\* by number, in a nibble; the controller counts eight channels to a module.
SortedPosition(channels, module) ==
    Cardinality({m \in {c.module : c \in channels} : m < module})
Nibble(channels, c) == SortedPosition(channels, c.module) * 16 + (c.index % 16)
HasSignature(channels) ==
    \E c \in channels : SortedPosition(channels, c.module) > 0 /\ c.address = Nibble(channels, c)

Addressed(channels, c) ==
    [c EXCEPT !.address = SortedPosition(channels, c.module) * 8 + c.index]
RestoredChannels(channels) ==
    IF HasSignature(channels) THEN {Addressed(channels, c) : c \in channels} ELSE channels

\* A scene without a group that is there gets the one of its path, made with
\* those above it when it is the first of them.
Entered(s, prefix) ==
    IF \E e \in s.paths : e.path = prefix
    THEN [s EXCEPT !.parent = (CHOOSE e \in s.paths : e.path = prefix).id]
    ELSE LET id == Largest(s.groups) + 1
         IN  [s EXCEPT !.groups = Append(@, [id |-> id, name |-> Last(prefix),
                                             parent |-> s.parent]),
                       !.paths = @ \cup {[path |-> prefix, id |-> id]},
                       !.parent = id]

Grouped(s, path) ==
    LET entered[k \in 0..Len(path)] ==
            IF k = 0 THEN [s EXCEPT !.parent = 0]
            ELSE Entered(entered[k - 1], SubSeq(path, 1, k))
    IN  entered[Len(path)]

WithScene(s, scene) ==
    IF scene.group # 0 /\ Has(s.groups, LAMBDA g : g.id = scene.group)
    THEN [s EXCEPT !.scenes = Append(@, scene)]
    ELSE LET next == Grouped(s, scene.path)
         IN  [next EXCEPT !.scenes = Append(@, [scene EXCEPT !.group = next.parent])]

RestoredScenes(table) ==
    LET restored[n \in 0..Len(table.scenes)] ==
            IF n = 0 THEN [groups |-> table.groups, paths |-> {}, parent |-> 0, scenes |-> <<>>]
            ELSE WithScene(restored[n - 1], table.scenes[n])
        end == restored[Len(table.scenes)]
    IN  [groups |-> end.groups, scenes |-> end.scenes]

-----------------------------------------------------------------------------
(* normalizePeriodTables *)

BlankRow == "blank"
Padded(rows, count) == [n \in 1..count |-> IF n <= Len(rows) THEN rows[n] ELSE BlankRow]

\* Older workspaces have the state flags in the rows after the periods.
NormalTables(t) ==
    LET rows == IF t.flags # <<>> THEN t.flags
                ELSE SubSeq(t.periods, PeriodRows + 1, Len(t.periods))
    IN  [periods |-> Padded(t.periods, PeriodRows), flags |-> Padded(rows, FlagRows)]

-----------------------------------------------------------------------------
(* migrateWorkspaceImportedUserAccess *)

\* The ID of a key, that of the last one that has it, or none.
Resolved(pairs, keys) ==
    LET id(key) == LET own == SelectSeq(pairs, LAMBDA p : p.key = key)
                   IN  IF own = <<>> THEN <<>> ELSE <<Last(own).id>>
        ids == FlattenSeq([n \in DOMAIN keys |-> id(keys[n])])
    IN  FoldLeft(LAMBDA kept, i : IF Contains(kept, i) THEN kept ELSE Append(kept, i), <<>>, ids)

MayResolve(user) ==
    user.status = "imported" /\ user.access # <<>> /\ user.rooms = <<>> /\ user.switches = <<>>

WithAccess(table) ==
    LET rooms(u) == Resolved(table.rooms, [n \in DOMAIN u.access |-> u.access[n][1]])
        switches(u) == Resolved(table.switches,
                                FlattenSeq([n \in DOMAIN u.access |-> Tail(u.access[n])]))
    IN  [table EXCEPT !.users =
           Each(@, LAMBDA u : IF MayResolve(u)
                              THEN [u EXCEPT !.rooms = rooms(u), !.switches = switches(u)]
                              ELSE u)]

-----------------------------------------------------------------------------
(* migrateWorkspaceControllerCode: the archive has the code of its
   configuration in the third slot after the modules and the hardware.       *)

IsCode(text) == text = "code"
WithCode(t) ==
    LET slot == 30 + t.modules + t.hardware + 2
    IN  IF IsCode(t.code) \/ slot \notin DOMAIN t.top \/ ~IsCode(t.top[slot]) THEN t
        ELSE [t EXCEPT !.code = t.top[slot]]

-----------------------------------------------------------------------------
(* mergeLegacyBrowserConnectionState *)

Ports == 1..65535

\* Of a site that the browser knows: what its copy has of the connection.
WithConnection(s, b) ==
    IF b.id # s.id THEN s
    ELSE [s EXCEPT !.ip = IF b.ip # "" THEN b.ip ELSE @,
                   !.port = IF b.port \in Ports THEN b.port ELSE @,
                   !.auto = b.auto,
                   !.code = IF b.code # "" THEN b.code ELSE @]

-----------------------------------------------------------------------------
(* foundationDictionaryOrder: the order in which the archive's dictionary is
   enumerated, a table with linear probing that grows when it is full.       *)

Empty == [key |-> 0, input |-> 0]
EmptyTable(index) == [b \in 1..TableSizes[index] |-> Empty]
Occupied(table) == {b \in DOMAIN table : table[b] # Empty}

\* findEmptyBucket
BucketFor(table, hash) ==
    LET at(offset) == ((hash + offset) % Len(table)) + 1
        free == {o \in 0..(Len(table) - 1) : table[at(o)] = Empty}
    IN  at(CHOOSE o \in free : \A p \in free : o <= p)
Placed(table, entry, hash) == [table EXCEPT ![BucketFor(table, hash[entry.key])] = entry]

\* tableIndexForCapacity
IndexFor(capacity) == SelectInSeq(TableCapacities, LAMBDA c : capacity <= c)

Rehashed(table, index, hash) ==
    LET moved[b \in 0..Len(table)] ==
            IF b = 0 THEN EmptyTable(index)
            ELSE IF table[b] = Empty THEN moved[b - 1]
            ELSE Placed(moved[b - 1], table[b], hash)
    IN  moved[Len(table)]

\* Room for one entry more.
Grown(d, hash) ==
    LET needed == Cardinality(Occupied(d.table)) + 1
        index == IndexFor(needed)
    IN  IF needed <= TableCapacities[d.index] THEN d
        ELSE [index |-> index, table |-> Rehashed(d.table, index, hash)]

Inserted(d, keys, n, hash) ==
    IF \E b \in Occupied(d.table) : d.table[b].key = keys[n] THEN d
    ELSE LET grown == Grown(d, hash)
         IN  [grown EXCEPT !.table = Placed(@, [key |-> keys[n], input |-> n], hash)]

DictionaryOrder(keys, hash) ==
    LET filled[n \in 0..Len(keys)] ==
            IF n = 0 THEN [index |-> 1, table |-> <<>>]
            ELSE Inserted(filled[n - 1], keys, n, hash)
        entries == Where(filled[Len(keys)].table, LAMBDA e : e # Empty)
    IN  Each(entries, LAMBDA e : e.input)

\* migrateWorkspaceChannelProfileOrder: the place of a channel in the dictionary
\* whose first key is that of the root, which is no channel.
NoRank == -1
WithRank(c, keys, hash) ==
    LET order == DictionaryOrder(keys, hash)
        at == SelectInSeq(order, LAMBDA n : keys[n] = c.key)
    IN  IF c.rank # NoRank \/ at = 0 \/ order[at] = 1 THEN c ELSE [c EXCEPT !.rank = at - 1]

-----------------------------------------------------------------------------
(* Properties *)

\* The channels of an archive with its modules in this order: as the importer
\* addresses them, and as the older one did.
Imported(order) == {[module |-> order[p], index |-> i, address |-> (p - 1) * 8 + i] :
                      p \in DOMAIN order, i \in Indexes}
Nibbled(order) ==
    LET channels == Imported(order)
    IN  {[c EXCEPT !.address = Nibble(channels, c)] : c \in channels}
Ascending(order) == \A p, q \in DOMAIN order : p < q => order[p] < order[q]

\* Addresses are right afterwards: those of an archive with its modules in
\* ascending order stay, those of the older importer get eight to a module.
AddressesRight ==
    /\ old.kind = "imported" /\ Ascending(old.value) =>
          RestoredChannels(Imported(old.value)) = Imported(old.value)
    /\ old.kind = "nibbles" =>
          LET now == RestoredChannels(Nibbled(old.value))
          IN  \A c \in now : c.address = SortedPosition(now, c.module) * 8 + c.index

\* A scene has a group that is there, so has a group that is made its parent,
\* the groups that were there stay, and scenes of one path get one group.
GroupsRight ==
    old.kind = "scenes" =>
    LET now == RestoredScenes(old.value)
        there(id) == Has(now.groups, LAMBDA g : g.id = id)
        lost(n) == old.value.scenes[n].group = 0
    IN  /\ \A n \in DOMAIN now.scenes : there(now.scenes[n].group)
        /\ \A n \in DOMAIN now.groups \ DOMAIN old.value.groups :
              now.groups[n].parent = 0 \/ there(now.groups[n].parent)
        /\ IsPrefix(old.value.groups, now.groups)
        /\ \A m, n \in DOMAIN now.scenes :
              lost(m) /\ lost(n) /\ now.scenes[m].path = now.scenes[n].path =>
                 now.scenes[m].group = now.scenes[n].group

\* No row is lost, whether the flags were among the periods or not.
RowsKept ==
    old.kind = "tables" =>
    LET now == NormalTables(old.value)
        before == old.value.periods \o old.value.flags
        after == now.periods \o now.flags
    IN  Len(old.value.periods) <= PeriodRows \/ old.value.flags = <<>> =>
           Where(before, LAMBDA r : r # BlankRow) = Where(after, LAMBDA r : r # BlankRow)

\* A profile that was edited keeps its selection.
EditedUsersKept ==
    old.kind = "users" =>
    \A n \in DOMAIN old.value.users :
       LET before == old.value.users[n]
       IN  before.status # "imported" \/ before.rooms # <<>> =>
              WithAccess(old.value).users[n] = before

\* The copy in the browser erases nothing that is known.
ConnectionKept ==
    old.kind = "copies" =>
    LET now == WithConnection(old.value.server, old.value.browser)
    IN  (old.value.server.ip # "" => now.ip # "") /\ (old.value.server.code # "" => now.code # "")

\* Every key has one place in the enumeration, the first time it was inserted,
\* and so every channel of the archive a rank of its own.
EveryKeyListed ==
    old.kind = "keys" =>
    LET keys == old.value.keys
        order == DictionaryOrder(keys, old.value.hash)
        first(n) == \A m \in 1..(n - 1) : keys[m] # keys[n]
    IN  IsInjective(order) /\ ToSet(order) = {n \in DOMAIN keys : first(n)}
        /\ \A n \in DOMAIN keys : keys[n] # keys[1] =>
              LET c == WithRank([key |-> keys[n], rank |-> NoRank], keys, old.value.hash)
              IN  keys[order[c.rank + 1]] = c.key

\* Doing it again changes nothing: an import restores the hierarchy twice, and
\* a load that finds something to migrate saves it and counts a revision.
OnceIsEnough ==
    LET v == old.value
        again == RestoredRooms(RestoredRooms(v))
    IN  /\ old.kind = "rooms" => again = RestoredRooms(v)
        /\ old.kind = "nibbles" => LET now == RestoredChannels(Nibbled(v))
                                   IN  RestoredChannels(now) = now
        /\ old.kind = "scenes" => RestoredScenes(RestoredScenes(v)) = RestoredScenes(v)
        /\ old.kind = "tables" => NormalTables(NormalTables(v)) = NormalTables(v)
        /\ old.kind = "users" => WithAccess(WithAccess(v)) = WithAccess(v)
        /\ old.kind = "codes" => WithCode(WithCode(v)) = WithCode(v)
        /\ old.kind = "copies" => LET now == WithConnection(v.server, v.browser)
                                  IN  WithConnection(now, v.browser) = now

MigrationsRight ==
    /\ AddressesRight /\ GroupsRight /\ RowsKept /\ EditedUsersKept /\ ConnectionKept
    /\ EveryKeyListed /\ OnceIsEnough

\* "so correctly imported archives with a non-sorted module order remain
\* untouched": the addresses of an archive stay whatever the order of its
\* modules.  (They do not.)
ArchivesUntouched ==
    old.kind = "imported" => RestoredChannels(Imported(old.value)) = Imported(old.value)
=============================================================================
