----------------------------- MODULE ModuleOrder -----------------------------
(***************************************************************************)
(* Dimmer modules and the controller addresses of their channels           *)
(* (app/page.tsx, app/flexidim-addressing.mjs): the address of a channel   *)
(* is eight times the rank of its module, plus its index in the module,    *)
(* stored with the channel whenever an edit computes it.                   *)
(***************************************************************************)
EXTENDS Integers, Sequences, SequencesExt, FiniteSetsExt

CONSTANTS
    ModuleIds,   \* IDs an installer may give a module
    Lights,      \* channels, in the order they are added
    IndexMax,    \* channels of a module, 8 in the code
    ChangesMax   \* bound of the model: modules added, deleted and restored

OrderAssumption ==
    /\ ModuleIds \subseteq Nat \ {0} /\ Lights \subseteq Nat /\ IndexMax \in Nat \ {0}
    /\ ChangesMax \in Nat

VARIABLES
    modules,   \* data.modules: IDs with a position, in the order stored
    outputs,   \* for each channel its module, index and controllerChannel
    dropped,   \* the modules among the deleted items
    changes    \* history: modules added, deleted and restored so far

orderVars == <<modules, outputs, dropped, changes>>

ModuleRecords == [id : ModuleIds, position : Nat]
NoOutput == [module |-> 0, index |-> 0, address |-> 0]
Used == {c \in Lights : outputs[c] # NoOutput}

\* controllerChannelAddress: a module that is not there counts for nothing.
Address(rank, index) == IF rank < 0 THEN index ELSE rank * IndexMax + index

OrderTypeOK ==
    /\ modules \in Seq(ModuleRecords) /\ dropped \subseteq ModuleRecords
    /\ changes \in 0..ChangesMax
    /\ \A c \in Used : /\ outputs[c].module \in ModuleIds \cup {0}
                        /\ outputs[c].index \in 1..IndexMax

OrderInit ==
    /\ modules = <<[id |-> 1, position |-> 0], [id |-> 2, position |-> 1]>>
    /\ outputs = [c \in Lights |-> NoOutput]
    /\ dropped = {} /\ changes = 0

-----------------------------------------------------------------------------
\* sort by position; equal positions keep the order stored.
Ordered(mods) ==
    LET before(m, n) == \/ mods[m].position < mods[n].position
                        \/ mods[m].position = mods[n].position /\ m <= n
    IN  [k \in DOMAIN mods |->
           mods[CHOOSE m \in DOMAIN mods :
                  Cardinality({n \in DOMAIN mods : before(n, m)}) = k]]

\* All modules but those with this ID, in the order stored.
Others(mods, id) ==
    LET others == {m \in DOMAIN mods : mods[m].id # id}
    IN  [k \in 1..Cardinality(others) |->
           mods[CHOOSE m \in others : Cardinality({n \in others : n <= m}) = k]]

Rank(mods, id) == SelectInSeq(mods, LAMBDA m : m.id = id) - 1

\* Every channel's address, from modules in this order.
Addressed(mods, channels) ==
    [c \in Lights |-> IF channels[c] = NoOutput THEN NoOutput
                      ELSE [channels[c] EXCEPT !.address =
                              Address(Rank(mods, channels[c].module), channels[c].index)]]

Counted == changes < ChangesMax /\ changes' = changes + 1

\* addModule, at the end.
AddModule(id) ==
    /\ Counted
    /\ \A n \in DOMAIN modules : modules[n].id # id
    /\ modules' = Append(modules, [id |-> id, position |-> Len(modules)])
    /\ UNCHANGED <<outputs, dropped>>

\* addChannel, always to the first module stored, which need not be the one
\* of rank 0.
AddChannel ==
    /\ modules # <<>> /\ Used # Lights
    /\ LET m == modules[1].id
           taken == {outputs[c].index : c \in {d \in Used : outputs[d].module = m}}
           free == (1..IndexMax) \ taken
           index == IF free = {} THEN 1 ELSE Min(free)
       IN  outputs' = [outputs EXCEPT ![Min(Lights \ Used)] =
                         [module |-> m, index |-> index, address |-> Address(0, index)]]
    /\ UNCHANGED <<modules, dropped, changes>>

\* updateChannel, with a new module or none: all addresses are computed.
UpdateChannel(c) ==
    /\ c \in Used
    /\ \E m \in {0} \cup {modules[n].id : n \in DOMAIN modules} :
          outputs' = Addressed(Ordered(modules), [outputs EXCEPT ![c].module = m])
    /\ UNCHANGED <<modules, dropped, changes>>

\* updateModule: no edit of a module changes its place.
UpdateModule ==
    /\ outputs' = Addressed(Ordered(modules), outputs)
    /\ UNCHANGED <<modules, dropped, changes>>

\* Faulty variant: the positions stay with the modules.
RenumberedNot(mods) == mods

Renumbered(mods) == [n \in DOMAIN mods |-> [mods[n] EXCEPT !.position = n - 1]]

\* moveModule
MoveModule(n, place) ==
    LET order == Ordered(modules)
    IN  /\ n \in DOMAIN order /\ place \in DOMAIN order
        /\ modules' = Renumbered(InsertAt(RemoveAt(order, n), place, order[n]))
        /\ outputs' = Addressed(modules', outputs)
        /\ UNCHANGED <<dropped, changes>>

\* moveToDeleted and restoreDeleted, of a module: it must be empty, and no
\* address is computed.  (Deletions of equal modules are kept as one.)
DeleteModule(n) ==
    /\ Counted
    /\ n \in DOMAIN modules
    /\ \A c \in Used : outputs[c].module # modules[n].id
    /\ modules' = Others(modules, modules[n].id)
    /\ dropped' = dropped \cup {modules[n]}
    /\ UNCHANGED outputs

RestoreModule(m) ==
    /\ Counted
    /\ modules' = Append(modules, m)
    /\ dropped' = dropped \ {m}
    /\ UNCHANGED outputs

OrderNext ==
    \/ AddChannel \/ UpdateModule
    \/ \E id \in ModuleIds : AddModule(id)
    \/ \E c \in Lights : UpdateChannel(c)
    \/ \E n \in DOMAIN modules :
          DeleteModule(n) \/ \E place \in DOMAIN modules : MoveModule(n, place)
    \/ \E m \in dropped : RestoreModule(m)

OrderSpec == OrderInit /\ [][OrderNext]_orderVars

-----------------------------------------------------------------------------
(* Properties *)

\* A reordering is the whole truth: what it gave a channel as its address, a
\* later edit of another channel or of a module does not change.
RightlyAddressed == outputs = Addressed(Ordered(modules), outputs)
ReorderAddresses ==
    modules' # modules /\ Len(modules') = Len(modules) => RightlyAddressed'
ReorderHolds == [][ReorderAddresses]_orderVars

\* (Deleting, restoring or adding a module does not move the addresses that
\* follow from it; the next edit of any channel does.)
=============================================================================
