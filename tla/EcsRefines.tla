----------------------------- MODULE EcsRefines -----------------------------
(***************************************************************************)
(* bagel's world implements EntityStore, for any number of component       *)
(* types, ids and values, with and without deleters.                       *)
(***************************************************************************)
EXTENDS EcsProofs

(* The store the systems see, as Ecs maps it.                              *)
Seen == [e \in Live |-> [c \in masks[e] |-> Get(e, c)]]

-----------------------------------------------------------------------------
(* A step of the abstract store, told by its parts: who lives, what each   *)
(* has, and what is read.                                                  *)
LEMMA SeenCreate ==
  ASSUME NEW e \in Ids, e \notin Live, Live' = Live \cup {e},
         masks'[e] = {}, \A f \in Live : masks'[f] = masks[f],
         \A f \in Live : \A c \in masks[f] : Get(f, c)' = Get(f, c)
  PROVE  Store!Create
<1>1. [c \in masks'[e] |-> Get(e, c)'] = [c \in {} |-> 0]
  OBVIOUS
<1>2. \A f \in Live : [c \in masks'[f] |-> Get(f, c)'] = [c \in masks[f] |-> Get(f, c)]
  OBVIOUS
<1>3. Seen' = Store!Put(Seen, e, [c \in {} |-> 0])
  BY <1>1, <1>2 DEF Seen, Store!Put
<1>4. DOMAIN Seen = Live
  BY DEF Seen
<1> QED
  BY <1>3, <1>4 DEF Store!Create, Store!Live, Seen

LEMMA SeenDestroy ==
  ASSUME NEW e \in Live, Live' = Live \ {e},
         \A f \in Live \ {e} : masks'[f] = masks[f],
         \A f \in Live \ {e} : \A c \in masks[f] : Get(f, c)' = Get(f, c)
  PROVE  Store!Destroy
<1>1. \A f \in Live \ {e} :
        [c \in masks'[f] |-> Get(f, c)'] = [c \in masks[f] |-> Get(f, c)]
  OBVIOUS
<1>2. DOMAIN Seen = Live
  BY DEF Seen
<1>3. Seen' = Store!Without(Seen, e)
  BY <1>1, <1>2 DEF Seen, Store!Without, Store!Restrict
<1> QED
  BY <1>2, <1>3 DEF Store!Destroy, Store!Live, Seen

LEMMA SeenWrite ==
  ASSUME NEW e \in Live, NEW c \in Components, NEW v \in Values, Live' = Live,
         masks'[e] = masks[e] \cup {c}, Get(e, c)' = v,
         \A f \in Live \ {e} : masks'[f] = masks[f],
         \A f \in Live : \A d \in masks[f] :
           f # e \/ d # c => Get(f, d)' = Get(f, d)
  PROVE  Store!Write
<1>1. \A f \in Live \ {e} :
        [d \in masks'[f] |-> Get(f, d)'] = [d \in masks[f] |-> Get(f, d)]
  OBVIOUS
<1>2. DOMAIN Seen = Live /\ Seen[e] = [d \in masks[e] |-> Get(e, d)]
  BY DEF Seen
<1>3. [d \in masks'[e] |-> Get(e, d)'] = Store!Put(Seen[e], c, v)
  BY <1>2 DEF Store!Put
<1>4. Seen' = Store!Put(Seen, e, Store!Put(Seen[e], c, v))
  <2> DEFINE new == Store!Put(Seen[e], c, v)
  <2>1. [d \in masks'[e] |-> Get(e, d)'] = new
    BY <1>3
  <2> HIDE DEF new
  <2>2. Seen' = Store!Put(Seen, e, new)
    BY <1>1, <1>2, <2>1 DEF Seen, Store!Put
  <2> QED
    BY <2>2 DEF new
<1>5. \E f \in DOMAIN Seen, d \in Components, w \in Values :
        Seen' = Store!Put(Seen, f, Store!Put(Seen[f], d, w))
  BY <1>2, <1>4
<1> QED
  BY <1>5 DEF Store!Write, Store!Live, Seen

LEMMA SeenRemove ==
  ASSUME NEW e \in Live, NEW c \in Components, c \in masks[e], Live' = Live,
         masks'[e] = masks[e] \ {c},
         \A f \in Live \ {e} : masks'[f] = masks[f],
         \A f \in Live : \A d \in masks[f] :
           f # e \/ d # c => Get(f, d)' = Get(f, d)
  PROVE  Store!Remove
<1>1. \A f \in Live \ {e} :
        [d \in masks'[f] |-> Get(f, d)'] = [d \in masks[f] |-> Get(f, d)]
  OBVIOUS
<1>2. DOMAIN Seen = Live /\ Seen[e] = [d \in masks[e] |-> Get(e, d)]
  BY DEF Seen
<1>3. [d \in masks'[e] |-> Get(e, d)'] = Store!Without(Seen[e], c)
  BY <1>2 DEF Store!Without, Store!Restrict
<1>4. Seen' = Store!Put(Seen, e, Store!Without(Seen[e], c))
  <2> DEFINE new == Store!Without(Seen[e], c)
  <2>1. [d \in masks'[e] |-> Get(e, d)'] = new
    BY <1>3
  <2> HIDE DEF new
  <2>2. Seen' = Store!Put(Seen, e, new)
    BY <1>1, <1>2, <2>1 DEF Seen, Store!Put
  <2> QED
    BY <2>2 DEF new
<1>5. c \in DOMAIN Seen[e]
  BY <1>2
<1>6. \E f \in DOMAIN Seen, d \in Components :
        /\ d \in DOMAIN Seen[f]
        /\ Seen' = Store!Put(Seen, f, Store!Without(Seen[f], d))
  BY <1>2, <1>4, <1>5
<1> QED
  BY <1>6 DEF Store!Remove, Store!Live, Seen

-----------------------------------------------------------------------------
(* What one entity reads after a deleter ran for another: the value of the *)
(* slot it had, or of the one its component was moved to.                  *)
LEMMA ReadAfterDelete ==
  ASSUME BagsOK, SlotInv, CallbackOnDelete,
         NEW e \in Ids, NEW cs \in SUBSET masks[e], Delete(cs, e),
         masks \in [Ids -> SUBSET Components],
         NEW f \in Ids, NEW c \in masks[f], f # e \/ c \notin cs
  PROVE  Get(f, c)' = Get(f, c)
<1>1. CASE c \notin Packed \cap cs
  BY <1>1, StorageAssumption DEF Delete, Get, Indexed, Components
<1>2. CASE c \in Packed \cap cs
  <2> DEFINE i == idToComp[c][e]
             n == Len(comps[c])
             o == compToId[c]
             x == idToComp[c]
             s == comps[c]
             x2 == idToComp'[c]
             s2 == comps'[c]
  <2>1. /\ c \in Indexed /\ c \notin Sparse /\ c \in Packed /\ f # e
        /\ c \in masks[e]
    BY <1>2, StorageAssumption DEF Indexed
  <2>2. /\ s \in Seq(Values) /\ o \in Seq(Ids) /\ x \in [Ids -> 0..MaxSlots]
        /\ Len(o) = n /\ n \in Nat /\ PackedInv(c)
    BY <2>1, LenProperties DEF BagsOK, SlotInv, PackedInv
  <2>3. /\ i \in 1..n /\ o[i] = e /\ x[f] \in 1..n /\ o[x[f]] = f
        /\ x[o[n]] = n
    <3>1. \A g \in Ids : c \in masks[g] => x[g] \in 1..n /\ o[x[g]] = g
      BY <2>2 DEF PackedInv
    <3>2. \A j \in 1..n : x[o[j]] = j
      BY <2>2 DEF PackedInv
    <3>3. i \in 1..n /\ o[i] = e /\ x[f] \in 1..n /\ o[x[f]] = f
      BY <2>1, <3>1
    <3>4. n \in 1..n
      BY <2>2, <3>3
    <3> QED
      BY <3>2, <3>3, <3>4
  <2>4. s2 = DelPacked(c, e).comps /\ x2 = DelPacked(c, e).index
    BY <1>2, <2>1 DEF Delete
  <2>5. s2 = MovedTo(s, i) /\ x2 = [x EXCEPT ![o[n]] = i]
    BY <2>2, <2>4 DEF DelPacked, Last
  <2>6. \A j \in 1..(n - 1) : s2[j] = IF j = i THEN s[n] ELSE s[j]
    <3>1. i \in 1..Len(s)
      BY <2>3
    <3>2. n = Len(s)
      OBVIOUS
    <3> HIDE DEF i, n, s, s2
    <3>3. s \in Seq(Values)
      BY <2>2
    <3>4. \A j \in 1..(Len(s) - 1) :
            MovedTo(s, i)[j] = IF j = i THEN s[Len(s)] ELSE s[j]
      BY <3>1, <3>3, MovedToSeq
    <3> QED
      BY <2>5, <3>2, <3>4
  <2>7. o[n] \in Ids
    BY <2>2, <2>3, ElementOfSeq
  <2>8. s2[x2[f]] = s[x[f]]
    <3> HIDE DEF i, n, o, x, s, x2, s2
    <3>1. CASE f = o[n]
      <4>1. x2[f] = i /\ x[f] = n
        BY <3>1, <2>2, <2>3, <2>5, <2>7
      <4>2. i # n
        BY <3>1, <2>1, <2>3
      <4> QED
        BY <4>1, <4>2, <2>2, <2>3, <2>6
    <3>2. CASE f # o[n]
      <4>1. x2[f] = x[f]
        BY <3>2, <2>2, <2>5
      <4>2. x[f] # n /\ x[f] # i
        BY <3>2, <2>1, <2>3
      <4> QED
        BY <4>1, <4>2, <2>2, <2>3, <2>6
    <3> QED
      BY <3>1, <3>2
  <2> QED
    BY <2>1, <2>8 DEF Get
<1> QED
  BY <1>1, <1>2

(* What is read after an addition.                                         *)
LEMMA ReadAfterAdd ==
  ASSUME BagsOK, CellsOK, SlotInv, NEW e \in Ids, NEW c \in Components,
         NEW v \in Values, c \notin masks[e],
         masks \in [Ids -> SUBSET Components],
         AddSparse(e, c, v) \/ AddPacked(e, c, v) \/ AddStack(e, c, v)
  PROVE  /\ Get(e, c)' = v
         /\ \A f \in Ids : \A d \in masks[f] : Get(f, d)' = Get(f, d)
<1> USE StorageAssumption DEF BagsOK, CellsOK
<1>1. CASE AddSparse(e, c, v)
  <2>1. /\ c \in Sparse /\ cells' = [cells EXCEPT ![c][e] = v]
        /\ comps' = comps /\ idToComp' = idToComp
    BY <1>1 DEF AddSparse
  <2>2. cells'[c][e] = v
    BY <2>1
  <2>3. \A f \in Ids, d \in Sparse : f # e \/ d # c => cells'[d][f] = cells[d][f]
    BY <2>1
  <2> QED
    BY <2>1, <2>2, <2>3 DEF Get
<1>2. CASE c \in Indexed /\ (AddPacked(e, c, v) \/ AddStack(e, c, v))
  <2> DEFINE x == idToComp[c]
             s == comps[c]
             x2 == idToComp'[c]
             s2 == comps'[c]
             n == Len(s)
  <2>1. s \in Seq(Values) /\ n \in Nat /\ x \in [Ids -> 0..MaxSlots]
    BY <1>2, LenProperties
  <2>2. /\ cells' = cells /\ c \notin Sparse
        /\ \A d \in Indexed \ {c} : comps'[d] = comps[d] /\ idToComp'[d] = idToComp[d]
    BY <1>2 DEF AddPacked, AddStack, Indexed
  <2>3. \A f \in Ids : c \in masks[f] => x[f] \in 1..n
    BY <1>2 DEF SlotInv, PackedInv, StackInv, Indexed
  <2>4. /\ s2[x2[e]] = v
        /\ \A f \in Ids : c \in masks[f] => s2[x2[f]] = s[x[f]]
    <3>1. CASE s2 = Append(s, v) /\ x2 = [x EXCEPT ![e] = NewSlot(c)]
      <4>1. s2[n + 1] = v /\ \A j \in 1..n : s2[j] = s[j]
        BY <3>1, <2>1, AppendProperties
      <4>2. x2[e] = n + 1 /\ \A f \in Ids : f # e => x2[f] = x[f]
        BY <3>1, <2>1 DEF NewSlot
      <4> HIDE DEF s2, x2, s, x, n
      <4> QED
        BY <4>1, <4>2, <2>3
    <3>2. CASE c \in Stack /\ HasFree(c) /\ AddStack(e, c, v)
      <4> DEFINE i == Last(freeIdx[c])
      <4>1. StackInv(c) /\ freeIdx[c] \in Seq(1..MaxSlots)
        BY <3>2 DEF SlotInv
      <4>2. /\ Len(freeIdx[c]) \in Nat \ {0} /\ i = freeIdx[c][Len(freeIdx[c])]
        BY <3>2, <4>1, PopLast DEF HasFree
      <4>3. i \in 1..n /\ \A f \in Ids : c \in masks[f] => x[f] # i
        BY <4>1, <4>2 DEF StackInv
      <4>4. s2 = [s EXCEPT ![i] = v] /\ x2 = [x EXCEPT ![e] = i]
        BY <1>2, <3>2 DEF AddStack
      <4>5. DOMAIN s = 1..n
        BY <2>1, LenProperties
      <4> HIDE DEF s2, x2, s, x, n, i
      <4> QED
        BY <4>3, <4>4, <4>5, <2>1, <2>3
    <3> QED
      BY <1>2, <3>1, <3>2, StorageAssumption DEF AddPacked, AddStack
  <2> HIDE DEF x, s, x2, s2, n
  <2>5. \A f \in Ids : \A d \in masks[f] : d = c \/ d \in Indexed \ {c} \/ d \in Sparse
    BY DEF Components
  <2>6. Get(e, c)' = v
    BY <2>2, <2>4 DEF Get, x, s, x2, s2
  <2> QED
    BY <2>2, <2>4, <2>5, <2>6 DEF Get, x, s, x2, s2
<1> QED
  BY <1>1, <1>2 DEF AddPacked, AddStack, Indexed

(* What is read after a write.                                             *)
LEMMA ReadAfterSet ==
  ASSUME BagsOK, CellsOK, SlotInv, masks \in [Ids -> SUBSET Components],
         NEW e \in Ids, NEW c \in Components, NEW v \in Values,
         c \in masks[e], SetComponent(e, c, v)
  PROVE  /\ Get(e, c)' = v
         /\ \A f \in Ids : \A d \in masks[f] :
              f # e \/ d # c => Get(f, d)' = Get(f, d)
<1> USE StorageAssumption DEF BagsOK, CellsOK
<1>1. CASE c \in Sparse
  <2>1. cells' = [cells EXCEPT ![c][e] = v] /\ comps' = comps /\ idToComp' = idToComp
    BY <1>1 DEF SetComponent
  <2>2. cells'[c][e] = v
    BY <1>1, <2>1
  <2>3. \A f \in Ids, d \in Sparse : f # e \/ d # c => cells'[d][f] = cells[d][f]
    BY <2>1
  <2> QED
    BY <1>1, <2>1, <2>2, <2>3 DEF Get
<1>2. CASE c \notin Sparse
  <2> DEFINE x == idToComp[c]
             s == comps[c]
             i == x[e]
  <2>1. /\ c \in Indexed /\ idToComp' = idToComp /\ cells' = cells
        /\ comps' = [comps EXCEPT ![c][i] = v]
    BY <1>2 DEF SetComponent, Components
  <2>2. s \in Seq(Values) /\ DOMAIN s = 1..Len(s)
    BY <2>1, LenProperties
  <2>3. /\ i \in 1..Len(s)
        /\ \A f \in Ids : c \in masks[f] /\ f # e => x[f] # i
    BY <2>1 DEF SlotInv, PackedInv, StackInv, Indexed
  <2>4. /\ comps'[c] = [s EXCEPT ![i] = v]
        /\ \A d \in Indexed \ {c} : comps'[d] = comps[d]
    BY <2>1
  <2>5. comps'[c][i] = v /\ \A j : j # i => comps'[c][j] = s[j]
    BY <2>2, <2>3, <2>4
  <2>6. \A f \in Ids : \A d \in masks[f] : d = c \/ d \in Indexed \ {c} \/ d \in Sparse
    BY DEF Components
  <2>7. Get(e, c)' = v
    BY <1>2, <2>1, <2>5 DEF Get
  <2> QED
    BY <1>2, <2>1, <2>3, <2>4, <2>5, <2>6, <2>7 DEF Get
<1> QED
  BY <1>1, <1>2

-----------------------------------------------------------------------------
(* Recycled ids are ids that were handed out.                              *)
IdsBelow == \A i \in DOMAIN ids : ids[i] <= maxId

LEMMA IdsBelowStep ==
  ASSUME IdsOK, IdsBelow, [Next]_vars PROVE IdsBelow'
<1> USE DEF IdsOK, IdsBelow
<1>1. CASE Recycle
  <2>1. /\ ids' \in Seq(Ids) /\ Len(ids') = Len(ids) - 1 /\ Len(ids) \in Nat \ {0}
        /\ \A i \in 1..(Len(ids) - 1) : ids'[i] = ids[i]
    BY <1>1, PopLast DEF Recycle
  <2>2. DOMAIN ids = 1..Len(ids) /\ DOMAIN ids' = 1..(Len(ids) - 1) /\ maxId' = maxId
    BY <1>1, <2>1, LenProperties DEF Recycle
  <2> QED
    BY <2>1, <2>2
<1>2. CASE Extend
  BY <1>2 DEF Extend
<1>3. ASSUME NEW e \in Ids, DeleteEntity(e) PROVE IdsBelow'
  <2>1. ids' = Append(ids, e) /\ maxId' = maxId /\ e <= maxId
    BY <1>3 DEF DeleteEntity, Live
  <2>2. /\ ids' \in Seq(Ids) /\ Len(ids') = Len(ids) + 1 /\ Len(ids) \in Nat
        /\ \A i \in 1..Len(ids) : ids'[i] = ids[i]
        /\ ids'[Len(ids) + 1] = e
    BY <2>1, AppendProperties, LenProperties
  <2> QED
    BY <2>1, <2>2, LenProperties
<1>4. CASE UNCHANGED <<ids, maxId>>
  BY <1>4
<1> QED
  BY <1>1, <1>2, <1>3, <1>4
  DEF Next, CreateEntity, DelComponent, AddComponent, SetComponent, vars

(* Every step of bagel's world is one of the abstract store, or is not     *)
(* seen there.                                                             *)
LEMMA StepRefines ==
  ASSUME IdsOK, BagsOK, CellsOK, MaskInv, SlotInv, IdsBelow, [Next]_vars
  PROVE  Store!Next \/ Seen' = Seen
<1> USE DEF IdsOK
<1>0. Live \subseteq Ids
  BY DEF Live
<1>1. ASSUME UNCHANGED storageVars PROVE \A f, c : Get(f, c)' = Get(f, c)
  BY <1>1 DEF storageVars, Get
<1>2. CASE CreateEntity /\ Recycle
  <2> DEFINE e == Last(ids)
  <2>1. /\ ids' \in Seq(Ids) /\ Len(ids') = Len(ids) - 1 /\ Len(ids) \in Nat \ {0}
        /\ \A i \in 1..(Len(ids) - 1) : ids'[i] = ids[i]
        /\ e \in Ids /\ e = ids[Len(ids)]
    BY <1>2, PopLast DEF Recycle
  <2>2. DOMAIN ids = 1..Len(ids) /\ DOMAIN ids' = 1..(Len(ids) - 1)
    BY <2>1, LenProperties
  <2>3. maxId' = maxId /\ masks' = masks
    BY <1>2 DEF Recycle
  <2> HIDE DEF e
  <2>4. e \notin Live /\ e <= maxId
    BY <2>1, <2>2 DEF Live, Elements, IdsBelow
  <2>5. Elements(ids') = Elements(ids) \ {e}
    BY <2>1, <2>2 DEF Elements, MaskInv
  <2>6. Live' = Live \cup {e}
    BY <2>1, <2>3, <2>4, <2>5 DEF Live
  <2>7. masks[e] = {}
    BY <2>1, <2>4 DEF MaskInv
  <2> QED
    BY <1>1, <1>2, <2>1, <2>3, <2>4, <2>6, <2>7, SeenCreate DEF CreateEntity, Store!Next
<1>3. CASE CreateEntity /\ Extend
  <2>1. /\ ids' = ids /\ ids = <<>> /\ maxId' = maxId + 1 /\ maxId' \in Ids
        /\ masks' = [masks EXCEPT ![maxId'] = {}]
    BY <1>3, StorageAssumption DEF Extend, Ids
  <2>2. maxId' \notin Live /\ Live' = Live \cup {maxId'}
    BY <2>1 DEF Live, Elements, Ids
  <2>3. masks'[maxId'] = {} /\ \A f \in Live : masks'[f] = masks[f]
    BY <1>0, <2>1, <2>2
  <2> QED
    BY <1>1, <1>3, <2>1, <2>2, <2>3, SeenCreate DEF CreateEntity, Store!Next
<1>4. ASSUME NEW e \in Ids, DeleteEntity(e) PROVE Store!Next
  <2>1. /\ e \in Live /\ ids' = Append(ids, e) /\ maxId' = maxId
        /\ masks' = [masks EXCEPT ![e] = {}]
    BY <1>4 DEF DeleteEntity, Cleared
  <2>2. /\ Len(ids') = Len(ids) + 1 /\ Len(ids) \in Nat /\ ids' \in Seq(Ids)
        /\ \A i \in 1..Len(ids) : ids'[i] = ids[i]
        /\ ids'[Len(ids) + 1] = e
    BY <2>1, AppendProperties, LenProperties
  <2>3. Elements(ids') = Elements(ids) \cup {e}
    BY <2>2, LenProperties DEF Elements
  <2>4. Live' = Live \ {e}
    BY <2>1, <2>3 DEF Live
  <2>5. \A f \in Live \ {e} : masks'[f] = masks[f]
    BY <1>0, <2>1
  <2>6. ASSUME NEW f \in Live \ {e}, NEW c \in masks[f] PROVE Get(f, c)' = Get(f, c)
    <3>1. CASE CallbackOnDelete
      <4>1. Delete(masks[e], e)
        BY <1>4, <3>1 DEF DeleteEntity
      <4> QED
        BY <1>0, <3>1, <4>1, ReadAfterDelete
    <3>2. CASE ~CallbackOnDelete
      BY <1>1, <1>4, <3>2 DEF DeleteEntity
    <3> QED
      BY <3>1, <3>2
  <2> QED
    BY <2>1, <2>4, <2>5, <2>6, SeenDestroy DEF Store!Next
<1>5. ASSUME NEW e \in Ids, NEW c \in Components, DelComponent(e, c) PROVE Store!Next
  <2>1. /\ e \in Live /\ c \in masks[e] /\ Delete({c}, e) /\ CallbackOnDelete
        /\ masks' = [masks EXCEPT ![e] = @ \ {c}] /\ maxId' = maxId /\ ids' = ids
    BY <1>5, DeletersAssumption DEF DelComponent, Holders
  <2>2. /\ Live' = Live /\ masks'[e] = masks[e] \ {c}
        /\ \A f \in Live \ {e} : masks'[f] = masks[f]
    BY <1>0, <2>1 DEF Live
  <2>3. ASSUME NEW f \in Live, NEW d \in masks[f], f # e \/ d # c
        PROVE  Get(f, d)' = Get(f, d)
    <3>1. {c} \in SUBSET masks[e] /\ f \in Ids /\ (f # e \/ d \notin {c})
      BY <1>0, <2>1, <2>3
    <3> QED
      BY <2>1, <3>1, ReadAfterDelete
  <2> QED
    BY <2>1, <2>2, <2>3, SeenRemove DEF Store!Next
<1>6. ASSUME NEW e \in Ids, NEW c \in Components, NEW v \in Values,
             AddComponent(e, c, v)
      PROVE  Store!Next
  <2>1. /\ e \in Live /\ c \notin masks[e] /\ maxId' = maxId /\ ids' = ids
        /\ masks' = [masks EXCEPT ![e] = @ \cup {c}]
        /\ AddSparse(e, c, v) \/ AddPacked(e, c, v) \/ AddStack(e, c, v)
    BY <1>6 DEF AddComponent, Holders
  <2>2. /\ Live' = Live /\ masks'[e] = masks[e] \cup {c}
        /\ \A f \in Live \ {e} : masks'[f] = masks[f]
    BY <1>0, <2>1 DEF Live
  <2>3. /\ Get(e, c)' = v
        /\ \A f \in Ids : \A d \in masks[f] : Get(f, d)' = Get(f, d)
    BY <2>1, ReadAfterAdd
  <2> QED
    BY <1>0, <2>1, <2>2, <2>3, SeenWrite DEF Store!Next
<1>7. ASSUME NEW e \in Ids, NEW c \in Components, NEW v \in Values,
             SetComponent(e, c, v)
      PROVE  Store!Next
  <2>1. /\ e \in Live /\ c \in masks[e] /\ maxId' = maxId /\ ids' = ids /\ masks' = masks
    BY <1>7 DEF SetComponent, Holders
  <2>2. Live' = Live /\ masks'[e] = masks[e] \cup {c}
    BY <2>1 DEF Live
  <2>3. /\ Get(e, c)' = v
        /\ \A f \in Ids : \A d \in masks[f] :
             f # e \/ d # c => Get(f, d)' = Get(f, d)
    BY <1>7, <2>1, ReadAfterSet
  <2> QED
    BY <1>0, <2>1, <2>2, <2>3, SeenWrite DEF Store!Next
<1>8. CASE UNCHANGED vars
  BY <1>8 DEF vars, Seen, Live, Get
<1> QED
  BY <1>2, <1>3, <1>4, <1>5, <1>6, <1>7, <1>8 DEF Next, CreateEntity

(* What the systems read of the world is what an entity store promises: a  *)
(* recycled id, a moved or reused slot, a bag that grew never show one     *)
(* entity the component of another, or an old one.                         *)
THEOREM WorldIsAStore == Spec => StoreSpec
<1>1. Init => Store!Init
  <2> SUFFICES ASSUME Init PROVE Store!Init
    OBVIOUS
  <2>1. Live = {}
    BY StorageAssumption DEF Init, Live, Ids
  <2> QED
    BY <2>1 DEF Store!Init
<1>2. Init => IdsBelow
  BY DEF Init, IdsBelow
<1>3. /\ IdsOK /\ BagsOK /\ CellsOK /\ MaskInv /\ SlotInv /\ IdsBelow /\ [Next]_vars
      => IdsBelow' /\ [Store!Next]_Seen
  BY IdsBelowStep, StepRefines
<1>4. Spec => [](IdsOK /\ BagsOK /\ CellsOK /\ MaskInv /\ SlotInv)
  BY StoreCorrect
<1> QED
  BY <1>1, <1>2, <1>3, <1>4, PTL DEF Spec, StoreSpec, Store!Spec, Seen
=============================================================================
