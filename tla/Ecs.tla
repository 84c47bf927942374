-------------------------------- MODULE Ecs ---------------------------------
(***************************************************************************)
(* bagel::World and its component storages (bagel.h).  Entity ids are      *)
(* recycled last in, first out; a component mask says what a live entity   *)
(* has; a packed or a stack storage maps an id to a slot of a bag, a       *)
(* sparse one is indexed by the id.  Whether deleteEntity calls the        *)
(* storages' deleters is a compile-time constant, FALSE in the game, and   *)
(* delComponent is never called by the game.  Bags are sequences, so a     *)
(* slot here is the code's index plus one.                                 *)
(***************************************************************************)
EXTENDS Integers, Sequences, FiniteSets

CONSTANTS
  Packed, Stack, Sparse,  \* component types by Storage<T>::type
  Values,
  CallbackOnDelete,       \* bagel::CallbackOnDelete
  RemovesComponents,      \* the client calls delComponent
  InitialEntities,        \* bagel::InitialEntities, the first capacity of a bag
  MaxIds,                 \* bound: entities that exist at one time
  MaxSlots                \* bound: slots of one bag

Indexed == Packed \cup Stack
Components == Indexed \cup Sparse
Ids == 0..(MaxIds - 1)

ASSUME StorageAssumption ==
  /\ Packed \cap Stack = {} /\ Indexed \cap Sparse = {}
  /\ CallbackOnDelete \in BOOLEAN /\ RemovesComponents \in BOOLEAN
  /\ MaxIds \in Nat \ {0} /\ MaxSlots \in Nat /\ InitialEntities \in Nat

(* delComponent calls the deleter whatever CallbackOnDelete says: used in a*)
(* world whose deleteEntity does not, it would meet slots of dead entities.*)
ASSUME DeletersAssumption == RemovesComponents => CallbackOnDelete

VARIABLES
  maxId,      \* World::_maxId
  ids,        \* World::_ids, the recycled ids
  masks,      \* World::_masks
  comps,      \* _comps of each packed and stack storage
  idToComp,   \* their _idToComp
  compToId,   \* _compToId of each packed storage
  freeIdx,    \* _freeIdx of each stack storage
  cells,      \* _comps of each sparse storage
  room        \* the capacity of the bag each storage indexes by the id:
              \* cells of a sparse one, idToComp of the others

vars == <<maxId, ids, masks, comps, idToComp, compToId, freeIdx, cells, room>>
storageVars == <<comps, idToComp, compToId, freeIdx, cells>>

Elements(s) == {s[i] : i \in DOMAIN s}
Live == {e \in Ids : e <= maxId /\ e \notin Elements(ids)}
Holders(c) == {e \in Live : c \in masks[e]}

TypeOK ==
  /\ maxId \in -1..(MaxIds - 1)
  /\ ids \in Seq(Ids)
  /\ masks \in [Ids -> SUBSET Components]
  /\ comps \in [Indexed -> Seq(Values)]
  /\ idToComp \in [Indexed -> [Ids -> 0..MaxSlots]]
  /\ compToId \in [Packed -> Seq(Ids)]
  /\ freeIdx \in [Stack -> Seq(1..MaxSlots)]
  /\ cells \in [Sparse -> [Ids -> Values \cup {"unset"}]]
  /\ room \in [Components -> Nat]

Init ==
  /\ maxId = -1 /\ ids = <<>>
  /\ masks = [e \in Ids |-> {}]
  /\ comps = [c \in Indexed |-> <<>>]
  /\ idToComp = [c \in Indexed |-> [e \in Ids |-> 0]]
  /\ compToId = [c \in Packed |-> <<>>]
  /\ freeIdx = [c \in Stack |-> <<>>]
  /\ cells = [c \in Sparse |-> [e \in Ids |-> "unset"]]
  /\ room = [c \in Components |-> InitialEntities]

-----------------------------------------------------------------------------
Last(s) == s[Len(s)]
Pop(s)  == SubSeq(s, 1, Len(s) - 1)

(* World::createEntity: the id freed last, or a new one.                   *)
Recycle == /\ ids # <<>>
           /\ ids' = Pop(ids)
           /\ UNCHANGED <<maxId, masks>>

Extend == /\ ids = <<>>
          /\ maxId + 1 < MaxIds
          /\ maxId' = maxId + 1
          /\ masks' = [masks EXCEPT ![maxId'] = {}]
          /\ UNCHANGED ids

CreateEntity == (Recycle \/ Extend) /\ UNCHANGED <<storageVars, room>>

(* Definitions named Slip... are plausible mistakes in the definition that *)
(* follows; nothing uses them.                                             *)

(* The deleters.  Packed: the last slot moves into the freed one.  Stack:  *)
(* the slot is remembered for the next add.                                *)
SlipMovedTo(s, i) == Pop(s)
MovedTo(s, i) ==
  [j \in 1..(Len(s) - 1) |-> IF j = i THEN Last(s) ELSE s[j]]

DelPacked(c, e) ==
  LET i == idToComp[c][e]
  IN [comps |-> MovedTo(comps[c], i), owners |-> MovedTo(compToId[c], i),
      index |-> [idToComp[c] EXCEPT ![Last(compToId[c])] = i]]

Delete(cs, e) ==
  /\ comps' = [c \in Indexed |-> IF c \in cs \cap Packed
                                   THEN DelPacked(c, e).comps ELSE comps[c]]
  /\ compToId' = [c \in Packed |-> IF c \in cs THEN DelPacked(c, e).owners
                                               ELSE compToId[c]]
  /\ idToComp' = [c \in Indexed |-> IF c \in cs \cap Packed
                                      THEN DelPacked(c, e).index
                                      ELSE idToComp[c]]
  /\ freeIdx' = [c \in Stack |-> IF c \in cs
                                   THEN Append(freeIdx[c], idToComp[c][e])
                                   ELSE freeIdx[c]]
  /\ UNCHANGED cells

Cleared(e) == [masks EXCEPT ![e] = {}]

(* World::deleteEntity.  The game deletes live entities only: a second     *)
(* deletion would push the id twice and hand it out twice.                 *)
DeleteEntity(e) ==
  /\ e \in Live
  /\ IF CallbackOnDelete THEN Delete(masks[e], e) ELSE UNCHANGED storageVars
  /\ masks' = Cleared(e)
  /\ ids' = Append(ids, e)
  /\ UNCHANGED <<maxId, room>>

(* World::delComponent.                                                    *)
DelComponent(e, c) ==
  /\ RemovesComponents
  /\ e \in Holders(c)
  /\ masks' = [masks EXCEPT ![e] = @ \ {c}]
  /\ Delete({c}, e)
  /\ UNCHANGED <<maxId, ids, room>>

-----------------------------------------------------------------------------
(* World::addComponent by kind of storage.  The create functions add each  *)
(* component once.                                                         *)
AddSparse(e, c, v) ==
  /\ c \in Sparse
  /\ cells' = [cells EXCEPT ![c][e] = v]
  /\ UNCHANGED <<comps, idToComp, compToId, freeIdx>>

(* The index is taken before the push.                                     *)
NewSlot(c) == Len(comps[c]) + 1

AddPacked(e, c, v) ==
  /\ c \in Packed
  /\ Len(comps[c]) < MaxSlots
  /\ idToComp' = [idToComp EXCEPT ![c][e] = NewSlot(c)]
  /\ comps' = [comps EXCEPT ![c] = Append(@, v)]
  /\ compToId' = [compToId EXCEPT ![c] = Append(@, e)]
  /\ UNCHANGED <<freeIdx, cells>>

SlipKeptIdx(c) == freeIdx[c]
KeptIdx(c) == Pop(freeIdx[c])

HasFree(c) == freeIdx[c] # <<>>

AddStack(e, c, v) ==
  /\ c \in Stack
  /\ IF HasFree(c)
       THEN LET i == Last(freeIdx[c])
            IN /\ freeIdx' = [freeIdx EXCEPT ![c] = KeptIdx(c)]
               /\ idToComp' = [idToComp EXCEPT ![c][e] = i]
               /\ comps' = [comps EXCEPT ![c][i] = v]
       ELSE /\ Len(comps[c]) < MaxSlots
            /\ idToComp' = [idToComp EXCEPT ![c][e] = NewSlot(c)]
            /\ comps' = [comps EXCEPT ![c] = Append(@, v)]
            /\ UNCHANGED freeIdx
  /\ UNCHANGED <<compToId, cells>>

(* DynamicBag::ensure at least doubles a bag that has to grow.             *)
SlipNeeded(e) == e
Needed(e) == e + 1
Ensured(capacity, n) ==
  IF n <= capacity THEN capacity
  ELSE IF 2 * capacity > n THEN 2 * capacity ELSE n

AddComponent(e, c, v) ==
  /\ e \in Live \ Holders(c)
  /\ room' = [room EXCEPT ![c] = Ensured(@, Needed(e))]
  /\ masks' = [masks EXCEPT ![e] = @ \cup {c}]
  /\ AddSparse(e, c, v) \/ AddPacked(e, c, v) \/ AddStack(e, c, v)
  /\ UNCHANGED <<maxId, ids>>

(* get<T>(e) = v: the systems write through the reference.                 *)
SetComponent(e, c, v) ==
  /\ e \in Holders(c)
  /\ IF c \in Sparse
       THEN cells' = [cells EXCEPT ![c][e] = v] /\ UNCHANGED comps
       ELSE comps' = [comps EXCEPT ![c][idToComp[c][e]] = v] /\ UNCHANGED cells
  /\ UNCHANGED <<maxId, ids, masks, idToComp, compToId, freeIdx, room>>

Next ==
  \/ CreateEntity
  \/ \E e \in Ids : DeleteEntity(e)
  \/ \E e \in Ids, c \in Components : DelComponent(e, c)
  \/ \E e \in Ids, c \in Components, v \in Values :
       AddComponent(e, c, v) \/ SetComponent(e, c, v)

Spec == Init /\ [][Next]_vars

-----------------------------------------------------------------------------
Get(e, c) == IF c \in Sparse THEN cells[c][e] ELSE comps[c][idToComp[c][e]]

(* What the systems read is what an entity store promises: an id that was  *)
(* recycled, a slot that moved or was reused never shows one entity the    *)
(* component of another.                                                   *)
Store == INSTANCE EntityStore WITH
           store <- [e \in Live |-> [c \in masks[e] |-> Get(e, c)]]
StoreSpec == Store!Spec

(* Two entities never share a slot of a storage.                           *)
SlotsApart ==
  \A c \in Indexed : \A e, f \in Holders(c) :
    e # f => idToComp[c][e] # idToComp[c][f]

(* An id is handed out to one entity at a time, and a recycled id comes    *)
(* back without components.                                                *)
RecycledIdsClean ==
  /\ \A i, j \in DOMAIN ids : i # j => ids[i] # ids[j]
  /\ \A i \in DOMAIN ids : masks[ids[i]] = {}

(* Every bag that is indexed by an id reaches to the ids of the entities   *)
(* that have the component: get never reads, and a deleter never writes,   *)
(* past the end of one.                                                    *)
CellsInBounds == \A c \in Components : \A e \in Holders(c) : e < room[c]

(* Why these hold: only a live entity has components, ...                  *)
MaskInv ==
  /\ \A i, j \in DOMAIN ids : i # j => ids[i] # ids[j]
  /\ \A e \in Ids : masks[e] # {} => e \in Live

(* ... a packed storage's two maps are inverse to each other, except that a*)
(* world without deleters keeps slots nobody owns, ...                     *)
PackedInv(c) ==
  /\ Len(compToId[c]) = Len(comps[c])
  /\ \A e \in Ids : c \in masks[e] =>
       idToComp[c][e] \in 1..Len(comps[c]) /\ compToId[c][idToComp[c][e]] = e
  /\ CallbackOnDelete =>
       \A i \in 1..Len(comps[c]) :
         c \in masks[compToId[c][i]] /\ idToComp[c][compToId[c][i]] = i

(* ... and a stack storage's slots are owned by one entity or free once.   *)
StackInv(c) ==
  /\ \A e \in Ids : c \in masks[e] =>
       /\ idToComp[c][e] \in 1..Len(comps[c])
       /\ \A f \in Ids : c \in masks[f] /\ f # e => idToComp[c][f] # idToComp[c][e]
       /\ \A i \in 1..Len(freeIdx[c]) : freeIdx[c][i] # idToComp[c][e]
  /\ \A i \in 1..Len(freeIdx[c]) :
       /\ freeIdx[c][i] \in 1..Len(comps[c])
       /\ \A j \in 1..Len(freeIdx[c]) : j # i => freeIdx[c][j] # freeIdx[c][i]

SlotInv == /\ \A c \in Indexed : Len(comps[c]) <= MaxSlots
           /\ \A c \in Packed : PackedInv(c)
           /\ \A c \in Stack : StackInv(c)
=============================================================================
