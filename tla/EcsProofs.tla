----------------------------- MODULE EcsProofs ------------------------------
(***************************************************************************)
(* Theorems about bagel's entity store, for any number of component types, *)
(* ids and values, with and without deleters.                              *)
(***************************************************************************)
EXTENDS Ecs, SequenceTheorems, FiniteSetTheorems, TLAPS

(* The typing of the ids and masks, and of one storage of each kind.       *)
IdsOK == /\ maxId \in -1..(MaxIds - 1) /\ ids \in Seq(Ids)
         /\ masks \in [Ids -> SUBSET Components]
BagsOK == /\ comps \in [Indexed -> Seq(Values)]
          /\ idToComp \in [Indexed -> [Ids -> 0..MaxSlots]]
          /\ compToId \in [Packed -> Seq(Ids)]
          /\ freeIdx \in [Stack -> Seq(1..MaxSlots)]
CellsOK == cells \in [Sparse -> [Ids -> Values \cup {"unset"}]]
RoomOK  == room \in [Components -> Nat]

LEMMA TypeParts == TypeOK <=> IdsOK /\ BagsOK /\ CellsOK /\ RoomOK
  BY DEF TypeOK, IdsOK, BagsOK, CellsOK, RoomOK

-----------------------------------------------------------------------------
(* What the bag operations do to a sequence.                               *)
LEMMA PopLast ==
  ASSUME NEW S, NEW s \in Seq(S), s # <<>>
  PROVE  /\ Len(s) \in Nat \ {0} /\ Last(s) \in S /\ Last(s) = s[Len(s)]
         /\ Pop(s) \in Seq(S) /\ Len(Pop(s)) = Len(s) - 1
         /\ \A i \in 1..(Len(s) - 1) : Pop(s)[i] = s[i]
<1>1. Len(s) \in Nat \ {0}
  BY EmptySeq, LenProperties
<1>2. \A i \in 1..Len(s) : s[i] \in S
  BY ElementOfSeq
<1> DEFINE n == Len(s) - 1
           q == SubSeq(s, 1, n)
<1>3. n \in Nat /\ (n - 1) + 1 = n /\ (1 <= n \/ n = 0) /\ 1..n \subseteq 1..Len(s)
  <2>1. ASSUME NEW k \in Nat \ {0}
        PROVE  /\ k - 1 \in Nat /\ (k - 1 - 1) + 1 = k - 1 /\ (1 <= k - 1 \/ k - 1 = 0)
               /\ 1..(k - 1) \subseteq 1..k
    OBVIOUS
  <2> QED
    BY <1>1, <2>1, Zenon
<1>4. /\ q \in Seq(S) /\ Len(q) = IF 1 <= n THEN n - 1 + 1 ELSE 0
      /\ \A i \in 1..(n - 1 + 1) : q[i] = s[1 + i - 1]
  BY <1>2, <1>3, SubSeqProperties
<1>5. Pop(s) = q
  BY DEF Pop
<1>6. Last(s) = s[Len(s)] /\ Last(s) \in S
  BY <1>1, <1>2 DEF Last
<1>7. q \in Seq(S) /\ Len(q) = n /\ \A i \in 1..n : q[i] = s[i]
  <2> HIDE DEF n, q
  <2> QED
    BY <1>3, <1>4
<1> QED
  BY <1>1, <1>5, <1>6, <1>7

(* The packed deleter: one slot fewer, the last one moved into the gap.    *)
LEMMA MovedToSeq ==
  ASSUME NEW S, NEW s \in Seq(S), NEW i \in 1..Len(s)
  PROVE  /\ MovedTo(s, i) \in Seq(S) /\ Len(MovedTo(s, i)) = Len(s) - 1
         /\ \A j \in 1..(Len(s) - 1) :
              MovedTo(s, i)[j] = IF j = i THEN s[Len(s)] ELSE s[j]
<1>1. Len(s) - 1 \in Nat /\ \A j \in 1..Len(s) : s[j] \in S
  BY LenProperties, ElementOfSeq
<1>2. \A j \in 1..(Len(s) - 1) : (IF j = i THEN Last(s) ELSE s[j]) \in S
  BY <1>1 DEF Last
<1> DEFINE t == [j \in 1..(Len(s) - 1) |-> IF j = i THEN Last(s) ELSE s[j]]
<1>3. t \in Seq(S)
  BY <1>1, <1>2, IsASeq
<1>4. Len(t) = Len(s) - 1
  BY <1>1, <1>3, LenProperties
<1> QED
  BY <1>3, <1>4 DEF MovedTo, Last

-----------------------------------------------------------------------------
(* Ids and masks.  A component is added to and taken from live entities    *)
(* only, and an id is recycled with an empty mask.                         *)
LEMMA MaskStep ==
  ASSUME IdsOK, MaskInv, [Next]_vars PROVE IdsOK' /\ MaskInv'
<1> USE StorageAssumption DEF IdsOK, MaskInv, Live, Elements
<1>1. CASE CreateEntity
  <2>1. CASE Recycle
    <3>1. /\ ids' \in Seq(Ids) /\ Len(ids') = Len(ids) - 1 /\ Len(ids) \in Nat \ {0}
          /\ \A i \in 1..(Len(ids) - 1) : ids'[i] = ids[i]
      BY <2>1, PopLast DEF Recycle
    <3>2. DOMAIN ids = 1..Len(ids) /\ DOMAIN ids' = 1..(Len(ids) - 1)
      BY <3>1, LenProperties
    <3>3. maxId' = maxId /\ masks' = masks
      BY <2>1 DEF Recycle
    <3>4. \A i, j \in DOMAIN ids' : i # j => ids'[i] # ids'[j]
      BY <3>1, <3>2
    <3>5. \A e \in Ids : e \in Live => e \in Live'
      BY <3>1, <3>2, <3>3
    <3> QED
      BY <3>1, <3>3, <3>4, <3>5
  <2>2. CASE Extend
    <3>1. ids' = ids /\ ids = <<>> /\ maxId' = maxId + 1 /\ maxId' \in Ids
      BY <2>2 DEF Extend, Ids
    <3>2. masks' = [masks EXCEPT ![maxId'] = {}]
      BY <2>2 DEF Extend
    <3>3. \A e \in Ids : e \in Live => e \in Live'
      BY <3>1 DEF Ids
    <3>4. \A e \in Ids : masks'[e] # {} => masks[e] # {}
      BY <3>2
    <3> QED
      BY <3>1, <3>2, <3>3, <3>4 DEF Ids
  <2> QED
    BY <1>1, <2>1, <2>2 DEF CreateEntity
<1>2. ASSUME NEW e \in Ids, DeleteEntity(e) PROVE IdsOK' /\ MaskInv'
  <2>1. /\ e \in Live /\ ids' = Append(ids, e) /\ maxId' = maxId
        /\ masks' = [masks EXCEPT ![e] = {}]
    BY <1>2 DEF DeleteEntity, Cleared
  <2>2. /\ ids' \in Seq(Ids) /\ Len(ids') = Len(ids) + 1 /\ Len(ids) \in Nat
        /\ \A i \in 1..Len(ids) : ids'[i] = ids[i]
        /\ ids'[Len(ids) + 1] = e
    BY <2>1, AppendProperties, LenProperties
  <2>3. DOMAIN ids = 1..Len(ids) /\ DOMAIN ids' = 1..(Len(ids) + 1)
    BY <2>2, LenProperties
  <2>4. \A i \in 1..Len(ids) : ids[i] # e
    BY <2>1, <2>3
  <2>5. \A i, j \in DOMAIN ids' : i # j => ids'[i] # ids'[j]
    BY <2>2, <2>3, <2>4
  <2>6. \A f \in Ids : f \in Live /\ f # e => f \in Live'
    <3>1. SUFFICES ASSUME NEW f \in Ids, f \in Live, f # e,
                          NEW i \in 1..(Len(ids) + 1)
                   PROVE  ids'[i] # f
      BY <2>1, <2>3
    <3>2. CASE i = Len(ids) + 1
      BY <2>2, <3>1, <3>2
    <3>3. CASE i \in 1..Len(ids)
      BY <2>2, <2>3, <3>1, <3>3
    <3> QED
      BY <2>2, <3>2, <3>3
  <2>7. \A f \in Ids : masks'[f] # {} => f # e /\ masks[f] # {}
    BY <2>1
  <2> QED
    BY <2>1, <2>2, <2>5, <2>6, <2>7
<1>3. ASSUME NEW e \in Ids, NEW c \in Components, DelComponent(e, c)
      PROVE  IdsOK' /\ MaskInv'
  <2>1. maxId' = maxId /\ ids' = ids /\ masks' = [masks EXCEPT ![e] = @ \ {c}]
    BY <1>3 DEF DelComponent
  <2> QED
    BY <2>1
<1>4. ASSUME NEW e \in Ids, NEW c \in Components, NEW v \in Values,
             AddComponent(e, c, v)
      PROVE  IdsOK' /\ MaskInv'
  <2>1. /\ maxId' = maxId /\ ids' = ids /\ masks' = [masks EXCEPT ![e] = @ \cup {c}]
        /\ e \in Live
    BY <1>4 DEF AddComponent
  <2> QED
    BY <2>1
<1>5. ASSUME NEW e \in Ids, NEW c \in Components, NEW v \in Values,
             SetComponent(e, c, v)
      PROVE  IdsOK' /\ MaskInv'
  BY <1>5 DEF SetComponent
<1>6. CASE UNCHANGED vars
  BY <1>6 DEF vars
<1> QED
  BY <1>1, <1>2, <1>3, <1>4, <1>5, <1>6 DEF Next

-----------------------------------------------------------------------------
(* The deleters, for the components cs that leave entity e.  A packed      *)
(* storage keeps its two maps inverse while the last slot moves; a stack   *)
(* storage frees the slot e owned.                                         *)
LEMMA DeleteKeepsTypes ==
  ASSUME BagsOK, CellsOK, SlotInv, NEW e \in Ids, NEW cs \in SUBSET masks[e],
         Delete(cs, e)
  PROVE  BagsOK' /\ CellsOK'
<1> USE DEF BagsOK, SlotInv, PackedInv, StackInv
<1>1. comps' \in [Indexed -> Seq(Values)]
  <2>1. ASSUME NEW c \in cs \cap Packed PROVE DelPacked(c, e).comps \in Seq(Values)
    <3>1. c \in Indexed /\ idToComp[c][e] \in 1..Len(comps[c])
      BY DEF Indexed
    <3>2. MovedTo(comps[c], idToComp[c][e]) \in Seq(Values)
      BY <3>1, MovedToSeq
    <3> QED
      BY <3>2 DEF DelPacked
  <2> QED
    BY <2>1 DEF Delete
<1>2. compToId' \in [Packed -> Seq(Ids)]
  <2>1. ASSUME NEW c \in cs \cap Packed PROVE DelPacked(c, e).owners \in Seq(Ids)
    <3>1. idToComp[c][e] \in 1..Len(compToId[c])
      OBVIOUS
    <3>2. MovedTo(compToId[c], idToComp[c][e]) \in Seq(Ids)
      BY <3>1, MovedToSeq
    <3> QED
      BY <3>2 DEF DelPacked
  <2> QED
    BY <2>1 DEF Delete
<1>3. idToComp' \in [Indexed -> [Ids -> 0..MaxSlots]]
  <2>1. ASSUME NEW c \in cs \cap Packed
        PROVE  DelPacked(c, e).index \in [Ids -> 0..MaxSlots]
    <3>1. idToComp[c] \in [Ids -> 0..MaxSlots]
      BY DEF Indexed
    <3> QED
      BY <3>1 DEF DelPacked
  <2> QED
    BY <2>1 DEF Delete
<1>4. freeIdx' \in [Stack -> Seq(1..MaxSlots)]
  <2>1. ASSUME NEW c \in cs, c \in Stack
        PROVE  Append(freeIdx[c], idToComp[c][e]) \in Seq(1..MaxSlots)
    <3>1. c \in Indexed /\ idToComp[c][e] \in 1..Len(comps[c])
          /\ idToComp[c][e] \in 0..MaxSlots
      BY <2>1 DEF Indexed
    <3>2. idToComp[c][e] \in 1..MaxSlots
      BY <3>1
    <3> QED
      BY <2>1, <3>2, AppendProperties
  <2> QED
    BY <2>1 DEF Delete
<1>5. CellsOK'
  BY DEF Delete, CellsOK
<1> QED
  BY <1>1, <1>2, <1>3, <1>4, <1>5

LEMMA PackedDelete ==
  ASSUME BagsOK, SlotInv, CallbackOnDelete,
         NEW e \in Ids, NEW c \in Packed, c \in masks[e],
         comps'[c] = DelPacked(c, e).comps,
         compToId'[c] = DelPacked(c, e).owners,
         idToComp'[c] = DelPacked(c, e).index,
         \A f \in Ids : c \in masks'[f] <=> f # e /\ c \in masks[f]
  PROVE  PackedInv(c)' /\ Len(comps'[c]) <= MaxSlots
<1> DEFINE i == idToComp[c][e]
           n == Len(comps[c])
           o == compToId[c]
           x == idToComp[c]
           o2 == compToId'[c]
           x2 == idToComp'[c]
<1>1. /\ c \in Indexed /\ o \in Seq(Ids) /\ x \in [Ids -> 0..MaxSlots]
      /\ comps[c] \in Seq(Values) /\ n \in Nat /\ n <= MaxSlots /\ Len(o) = n
      /\ MaxSlots \in Nat
  BY StorageAssumption, LenProperties DEF BagsOK, SlotInv, PackedInv, Indexed
<1>2. /\ \A f \in Ids : c \in masks[f] => x[f] \in 1..n /\ o[x[f]] = f
      /\ \A j \in 1..n : c \in masks[o[j]] /\ x[o[j]] = j
      /\ \A j \in 1..n : o[j] \in Ids
  BY <1>1, ElementOfSeq DEF SlotInv, PackedInv
<1>3. i \in 1..n /\ o[i] = e
  BY <1>2
<1>4. Len(comps'[c]) = n - 1
  <2>1. comps'[c] = MovedTo(comps[c], i)
    BY DEF DelPacked
  <2> DEFINE s == comps[c]
             s2 == comps'[c]
  <2>2. s \in Seq(Values) /\ n = Len(s) /\ i \in 1..Len(s) /\ s2 = MovedTo(s, i)
    BY <1>1, <1>3, <2>1
  <2>3. Len(s2) = Len(s) - 1
    <3> HIDE DEF s, s2, i
    <3> QED
      BY <2>2, MovedToSeq
  <2> QED
    BY <2>3
<1>5. /\ Len(o2) = n - 1
      /\ \A j \in 1..(n - 1) : o2[j] = IF j = i THEN o[n] ELSE o[j]
  <2>1. o2 = MovedTo(o, i)
    BY DEF DelPacked
  <2>2. i \in 1..Len(o)
    BY <1>1, <1>3
  <2>3. /\ Len(o2) = Len(o) - 1
        /\ \A j \in 1..(Len(o) - 1) : o2[j] = IF j = i THEN o[Len(o)] ELSE o[j]
    <3> HIDE DEF o2, o, i
    <3> QED
      BY <1>1, <2>1, <2>2, MovedToSeq
  <2> QED
    BY <1>1, <2>3
<1>6. x2 = [x EXCEPT ![o[n]] = i]
  BY <1>1 DEF DelPacked, Last
<1>7. n \in 1..n /\ o[n] \in Ids /\ x[o[n]] = n /\ c \in masks[o[n]]
  BY <1>1, <1>2, <1>3
<1>8. ASSUME NEW f \in Ids, c \in masks'[f]
      PROVE  x2[f] \in 1..(n - 1) /\ o2[x2[f]] = f
  <2>1. f # e /\ c \in masks[f] /\ x[f] \in 1..n /\ o[x[f]] = f
    BY <1>2, <1>8
  <2> HIDE DEF i, n, o, x, o2, x2
  <2>2. CASE f = o[n]
    <3>1. i # n
      BY <1>3, <2>1, <2>2
    <3>2. x2[f] = i
      BY <1>1, <1>6, <2>2
    <3> QED
      BY <1>1, <1>3, <1>5, <2>2, <3>1, <3>2
  <2>3. CASE f # o[n]
    <3>1. x2[f] = x[f]
      BY <1>1, <1>6, <2>3
    <3>2. x[f] # n /\ x[f] # i
      BY <1>3, <2>1, <2>3
    <3> QED
      BY <1>1, <1>5, <2>1, <3>1, <3>2
  <2> QED
    BY <2>2, <2>3
<1>9. ASSUME NEW j \in 1..(n - 1)
      PROVE  c \in masks'[o2[j]] /\ x2[o2[j]] = j
  <2>0. j \in 1..n /\ j # n
    BY <1>1
  <2>1. CASE j = i
    <3>1. o2[j] = o[n]
      BY <1>5, <2>1
    <3>2. o[n] # e
      BY <1>2, <1>3, <1>7, <2>0, <2>1
    <3>3. x2[o[n]] = j
      BY <1>1, <1>6, <1>7, <2>1
    <3> QED
      BY <1>7, <3>1, <3>2, <3>3
  <2>2. CASE j # i
    <3>1. o2[j] = o[j] /\ o[j] \in Ids /\ x[o[j]] = j /\ c \in masks[o[j]]
      BY <1>2, <1>5, <2>0, <2>2
    <3>2. o[j] # e /\ o[j] # o[n]
      BY <1>7, <2>0, <2>2, <3>1
    <3>3. x2[o[j]] = x[o[j]]
      BY <1>1, <1>6, <3>1, <3>2
    <3> QED
      BY <3>1, <3>2, <3>3
  <2> QED
    BY <2>1, <2>2
<1>10. n - 1 <= MaxSlots
  BY <1>1
<1> QED
  BY <1>4, <1>5, <1>8, <1>9, <1>10 DEF PackedInv

LEMMA StackDelete ==
  ASSUME BagsOK, SlotInv, NEW e \in Ids, NEW c \in Stack, c \in masks[e],
         comps'[c] = comps[c], idToComp'[c] = idToComp[c],
         freeIdx'[c] = Append(freeIdx[c], idToComp[c][e]),
         \A f \in Ids : c \in masks'[f] <=> f # e /\ c \in masks[f]
  PROVE  StackInv(c)' /\ Len(comps'[c]) <= MaxSlots
<1> DEFINE i == idToComp[c][e]
           s == freeIdx[c]
           s2 == freeIdx'[c]
           n == Len(comps[c])
           x == idToComp[c]
<1>1. c \in Indexed /\ s \in Seq(1..MaxSlots) /\ x \in [Ids -> 0..MaxSlots] /\ n <= MaxSlots
  BY DEF BagsOK, SlotInv, Indexed
<1>2. /\ \A f \in Ids : c \in masks[f] =>
           /\ x[f] \in 1..n
           /\ \A g \in Ids : c \in masks[g] /\ g # f => x[g] # x[f]
           /\ \A j \in 1..Len(s) : s[j] # x[f]
      /\ \A j \in 1..Len(s) : /\ s[j] \in 1..n
                              /\ \A k \in 1..Len(s) : k # j => s[k] # s[j]
  BY DEF SlotInv, StackInv
<1>3. i \in 1..n /\ i \in 1..MaxSlots
  BY <1>1, <1>2
<1>4. /\ Len(s) \in Nat /\ Len(s2) = Len(s) + 1
      /\ \A j \in 1..Len(s) : s2[j] = s[j]
      /\ s2[Len(s) + 1] = i
  <2> HIDE DEF s, s2, i
  <2>1. s2 = Append(s, i)
    BY DEF s, s2, i
  <2> QED
    BY <1>1, <1>3, <2>1, AppendProperties, LenProperties
<1>5. \A j \in 1..Len(s2) : \/ j \in 1..Len(s) /\ s2[j] = s[j]
                            \/ j = Len(s) + 1 /\ s2[j] = i
  BY <1>4
<1>6. \A f \in Ids : c \in masks'[f] => c \in masks[f] /\ x[f] # i
  BY <1>2
<1>7. \A j \in 1..Len(s) : s[j] # i
  BY <1>2
<1>8. \A j \in 1..Len(s2) : /\ s2[j] \in 1..n
                            /\ \A k \in 1..Len(s2) : k # j => s2[k] # s2[j]
  <2> HIDE DEF s, s2, i, n
  <2> QED
    BY <1>2, <1>3, <1>5, <1>7
<1>9. \A f \in Ids : c \in masks'[f] =>
         /\ x[f] \in 1..n
         /\ \A g \in Ids : c \in masks'[g] /\ g # f => x[g] # x[f]
         /\ \A j \in 1..Len(s2) : s2[j] # x[f]
  <2> HIDE DEF s, s2, i, n, x
  <2> QED
    BY <1>2, <1>5, <1>6
<1> QED
  BY <1>1, <1>8, <1>9 DEF StackInv

(* Deleting without deleters, and whatever leaves a storage alone.         *)
LEMMA PackedFrame ==
  ASSUME BagsOK, NEW c \in Packed, PackedInv(c),
         Len(comps'[c]) = Len(comps[c]), compToId'[c] = compToId[c],
         idToComp'[c] = idToComp[c],
         \A f \in Ids : c \in masks'[f] => c \in masks[f],
         CallbackOnDelete => \A f \in Ids : c \in masks[f] => c \in masks'[f]
  PROVE  PackedInv(c)'
<1>1. \A i \in 1..Len(compToId[c]) : compToId[c][i] \in Ids
  BY ElementOfSeq DEF BagsOK
<1> QED
  BY <1>1 DEF PackedInv

LEMMA StackFrame ==
  ASSUME NEW c \in Stack, StackInv(c),
         Len(comps'[c]) = Len(comps[c]), freeIdx'[c] = freeIdx[c],
         idToComp'[c] = idToComp[c],
         \A f \in Ids : c \in masks'[f] => c \in masks[f]
  PROVE  StackInv(c)'
BY DEF StackInv

-----------------------------------------------------------------------------
(* Adding: a new slot at the end, or one of the free ones of a stack.      *)
LEMMA AddPackedStep ==
  ASSUME BagsOK, SlotInv, NEW e \in Ids, NEW c \in Packed, NEW v \in Values,
         AddPacked(e, c, v), c \notin masks[e],
         \A f \in Ids : c \in masks'[f] <=> f = e \/ c \in masks[f]
  PROVE  PackedInv(c)' /\ Len(comps'[c]) <= MaxSlots
<1> DEFINE n == Len(comps[c])
           o == compToId[c]
           x == idToComp[c]
           o2 == compToId'[c]
           x2 == idToComp'[c]
           t == comps'[c]
<1>1. /\ c \in Indexed /\ o \in Seq(Ids) /\ x \in [Ids -> 0..MaxSlots]
      /\ comps[c] \in Seq(Values) /\ n \in Nat /\ n < MaxSlots /\ Len(o) = n
      /\ MaxSlots \in Nat
  BY StorageAssumption, LenProperties DEF BagsOK, SlotInv, PackedInv, Indexed, AddPacked
<1>2. /\ \A f \in Ids : c \in masks[f] => x[f] \in 1..n /\ o[x[f]] = f
      /\ CallbackOnDelete => \A j \in 1..n : c \in masks[o[j]] /\ x[o[j]] = j
      /\ \A j \in 1..n : o[j] \in Ids
  BY <1>1, ElementOfSeq DEF SlotInv, PackedInv
<1>3. t = Append(comps[c], v) /\ o2 = Append(o, e) /\ x2 = [x EXCEPT ![e] = n + 1]
  BY <1>1 DEF AddPacked, BagsOK, NewSlot
<1>4. Len(t) = n + 1
  BY <1>1, <1>3, AppendProperties
<1>5. /\ Len(o2) = n + 1 /\ o2[n + 1] = e
      /\ \A j \in 1..n : o2[j] = o[j]
  <2>1. /\ Len(o2) = Len(o) + 1 /\ o2[Len(o) + 1] = e
        /\ \A j \in 1..Len(o) : o2[j] = o[j]
    <3> HIDE DEF o, o2
    <3> QED
      BY <1>1, <1>3, AppendProperties
  <2> QED
    BY <1>1, <2>1
<1> HIDE DEF n, o, x, o2, x2, t
<1>6. ASSUME NEW f \in Ids, c \in masks'[f]
      PROVE  x2[f] \in 1..(n + 1) /\ o2[x2[f]] = f
  <2>1. CASE f = e
    BY <1>1, <1>3, <1>5, <2>1
  <2>2. CASE f # e
    <3>1. x2[f] = x[f] /\ x[f] \in 1..n /\ o[x[f]] = f
      BY <1>1, <1>2, <1>3, <1>6, <2>2
    <3> QED
      BY <1>1, <1>5, <3>1
  <2> QED
    BY <2>1, <2>2
<1>7. ASSUME CallbackOnDelete, NEW j \in 1..(n + 1)
      PROVE  c \in masks'[o2[j]] /\ x2[o2[j]] = j
  <2>1. CASE j = n + 1
    BY <1>1, <1>3, <1>5, <2>1
  <2>2. CASE j # n + 1
    <3>1. j \in 1..n
      BY <1>1, <2>2
    <3>2. o2[j] = o[j] /\ c \in masks[o[j]] /\ x[o[j]] = j /\ o[j] \in Ids /\ o[j] # e
      BY <1>2, <1>5, <1>7, <3>1
    <3> QED
      BY <1>1, <1>3, <3>2
  <2> QED
    BY <2>1, <2>2
<1>8. n + 1 <= MaxSlots
  BY <1>1
<1> QED
  BY <1>4, <1>5, <1>6, <1>7, <1>8 DEF PackedInv, o2, x2, t

LEMMA AddStackStep ==
  ASSUME BagsOK, SlotInv, NEW e \in Ids, NEW c \in Stack, NEW v \in Values,
         AddStack(e, c, v), c \notin masks[e],
         \A f \in Ids : c \in masks'[f] <=> f = e \/ c \in masks[f]
  PROVE  StackInv(c)' /\ Len(comps'[c]) <= MaxSlots
<1> DEFINE n == Len(comps[c])
           s == freeIdx[c]
           s2 == freeIdx'[c]
           x == idToComp[c]
           x2 == idToComp'[c]
           t == comps'[c]
<1>1. /\ c \in Indexed /\ s \in Seq(1..MaxSlots) /\ x \in [Ids -> 0..MaxSlots]
      /\ comps[c] \in Seq(Values) /\ n \in Nat /\ n <= MaxSlots
      /\ MaxSlots \in Nat /\ Len(s) \in Nat
  BY StorageAssumption, LenProperties DEF BagsOK, SlotInv, Indexed
<1>2. /\ \A f \in Ids : c \in masks[f] =>
           /\ x[f] \in 1..n
           /\ \A g \in Ids : c \in masks[g] /\ g # f => x[g] # x[f]
           /\ \A j \in 1..Len(s) : s[j] # x[f]
      /\ \A j \in 1..Len(s) : /\ s[j] \in 1..n
                              /\ \A k \in 1..Len(s) : k # j => s[k] # s[j]
  BY DEF SlotInv, StackInv
<1>3. CASE HasFree(c)
  <2> DEFINE i == s[Len(s)]
  <2>1. Len(t) = n /\ s2 = Pop(s) /\ x2 = [x EXCEPT ![e] = i] /\ s # <<>>
    BY <1>1, <1>3 DEF AddStack, BagsOK, HasFree, KeptIdx, Last
  <2>2. /\ Len(s) \in Nat \ {0} /\ Len(s2) = Len(s) - 1
        /\ \A j \in 1..(Len(s) - 1) : s2[j] = s[j]
    <3> HIDE DEF s, s2
    <3> QED
      BY <1>1, <2>1, PopLast
  <2>3. i \in 1..n /\ \A j \in 1..(Len(s) - 1) : s[j] # i
    <3>1. Len(s) \in 1..Len(s)
      BY <2>2
    <3>2. \A j \in 1..(Len(s) - 1) : j \in 1..Len(s) /\ j # Len(s)
      BY <2>2
    <3> QED
      BY <1>2, <3>1, <3>2
  <2> HIDE DEF n, s, s2, x, x2, t, i
  <2>4. \A j \in 1..Len(s2) : j \in 1..Len(s) /\ s2[j] = s[j] /\ s2[j] # i
    BY <2>2, <2>3
  <2>5. \A f \in Ids : c \in masks'[f] =>
          \/ f = e /\ x2[f] = i
          \/ f # e /\ c \in masks[f] /\ x2[f] = x[f] /\ x2[f] # i
    BY <1>1, <1>2, <2>1, <2>2 DEF i
  <2>6. \A f \in Ids : c \in masks'[f] =>
          /\ x2[f] \in 1..n
          /\ \A g \in Ids : c \in masks'[g] /\ g # f => x2[g] # x2[f]
          /\ \A j \in 1..Len(s2) : s2[j] # x2[f]
    BY <1>2, <2>3, <2>4, <2>5
  <2>7. \A j \in 1..Len(s2) : /\ s2[j] \in 1..n
                              /\ \A k \in 1..Len(s2) : k # j => s2[k] # s2[j]
    BY <1>2, <2>4
  <2> QED
    BY <1>1, <2>1, <2>6, <2>7 DEF StackInv, s2, x2, t
<1>4. CASE ~HasFree(c)
  <2>1. /\ t = Append(comps[c], v) /\ s2 = s /\ s = <<>>
        /\ x2 = [x EXCEPT ![e] = n + 1] /\ n < MaxSlots
    BY <1>1, <1>4 DEF AddStack, BagsOK, HasFree, NewSlot
  <2>2. Len(t) = n + 1 /\ Len(s2) = 0
    BY <1>1, <2>1, AppendProperties, EmptySeq
  <2> HIDE DEF n, s, s2, x, x2, t
  <2>3. \A f \in Ids : c \in masks'[f] =>
          \/ f = e /\ x2[f] = n + 1
          \/ f # e /\ c \in masks[f] /\ x2[f] = x[f] /\ x2[f] \in 1..n
    BY <1>1, <1>2, <2>1
  <2>4. \A f \in Ids : c \in masks'[f] =>
          /\ x2[f] \in 1..(n + 1)
          /\ \A g \in Ids : c \in masks'[g] /\ g # f => x2[g] # x2[f]
    BY <1>1, <1>2, <2>3
  <2>5. n + 1 <= MaxSlots
    BY <1>1, <2>1
  <2> QED
    BY <2>2, <2>4, <2>5 DEF StackInv, s2, x2, t
<1> QED
  BY <1>3, <1>4

LEMMA AddKeepsTypes ==
  ASSUME BagsOK, CellsOK, SlotInv, NEW e \in Ids, NEW c \in Components,
         NEW v \in Values, AddSparse(e, c, v) \/ AddPacked(e, c, v) \/ AddStack(e, c, v)
  PROVE  BagsOK' /\ CellsOK'
<1> USE DEF BagsOK
<1>1. CASE AddSparse(e, c, v)
  BY <1>1 DEF AddSparse, CellsOK
<1>2. ASSUME c \in Indexed, Len(comps[c]) < MaxSlots
      PROVE  /\ [comps EXCEPT ![c] = Append(@, v)] \in [Indexed -> Seq(Values)]
             /\ [idToComp EXCEPT ![c][e] = NewSlot(c)] \in [Indexed -> [Ids -> 0..MaxSlots]]
  <2>1. Len(comps[c]) \in Nat /\ Append(comps[c], v) \in Seq(Values)
    BY <1>2, LenProperties, AppendProperties
  <2>2. NewSlot(c) \in 0..MaxSlots
    BY <1>2, <2>1, StorageAssumption DEF NewSlot
  <2> QED
    BY <2>1, <2>2
<1>3. CASE AddPacked(e, c, v)
  <2>1. c \in Indexed /\ c \in Packed /\ Len(comps[c]) < MaxSlots
    BY <1>3 DEF AddPacked, Indexed
  <2>2. Append(compToId[c], e) \in Seq(Ids)
    BY <2>1, AppendProperties
  <2> QED
    BY <1>2, <1>3, <2>1, <2>2 DEF AddPacked, CellsOK
<1>4. CASE AddStack(e, c, v)
  <2>1. c \in Indexed /\ c \in Stack
    BY <1>4 DEF AddStack, Indexed
  <2>2. CASE HasFree(c)
    <3>1. /\ Last(freeIdx[c]) \in 1..MaxSlots
          /\ KeptIdx(c) \in Seq(1..MaxSlots)
      BY <2>1, <2>2, PopLast DEF HasFree, KeptIdx
    <3>2. Last(freeIdx[c]) \in 0..MaxSlots
      BY <3>1, StorageAssumption
    <3>3. [comps[c] EXCEPT ![Last(freeIdx[c])] = v] \in Seq(Values)
      <4>1. comps[c] \in Seq(Values) /\ Len(comps[c]) \in Nat
            /\ comps[c] \in [1..Len(comps[c]) -> Values]
        BY <2>1, LenProperties, ElementOfSeq
      <4>2. [comps[c] EXCEPT ![Last(freeIdx[c])] = v] \in [1..Len(comps[c]) -> Values]
        BY <4>1
      <4> QED
        BY <4>1, <4>2, SeqDef
    <3> DEFINE i == Last(freeIdx[c])
    <3>4. /\ freeIdx' = [freeIdx EXCEPT ![c] = KeptIdx(c)]
          /\ idToComp' = [idToComp EXCEPT ![c][e] = i]
          /\ comps' = [comps EXCEPT ![c][i] = v]
          /\ compToId' = compToId /\ cells' = cells
      BY <1>4, <2>2 DEF AddStack
    <3> HIDE DEF i
    <3>5. freeIdx' \in [Stack -> Seq(1..MaxSlots)]
      BY <2>1, <3>1, <3>4
    <3>6. idToComp' \in [Indexed -> [Ids -> 0..MaxSlots]]
      <4>1. [idToComp[c] EXCEPT ![e] = i] \in [Ids -> 0..MaxSlots]
        BY <2>1, <3>2 DEF i
      <4> QED
        BY <2>1, <3>4, <4>1
    <3>7. comps' \in [Indexed -> Seq(Values)]
      <4>1. [comps[c] EXCEPT ![i] = v] \in Seq(Values)
        BY <3>3 DEF i
      <4> QED
        BY <2>1, <3>4, <4>1
    <3> QED
      BY <3>4, <3>5, <3>6, <3>7 DEF CellsOK
  <2>3. CASE ~HasFree(c)
    BY <1>2, <1>4, <2>1, <2>3 DEF AddStack, CellsOK
  <2> QED
    BY <2>2, <2>3
<1> QED
  BY <1>1, <1>3, <1>4

-----------------------------------------------------------------------------
(* Deleting the components cs of entity e from their storages.             *)
LEMMA DeleteStep ==
  ASSUME BagsOK, CellsOK, SlotInv, CallbackOnDelete,
         NEW e \in Ids, NEW cs \in SUBSET masks[e], Delete(cs, e),
         masks \in [Ids -> SUBSET Components],
         masks' = [masks EXCEPT ![e] = @ \ cs]
  PROVE  SlotInv'
<1>1. \A f \in Ids, c \in Components :
        c \in masks'[f] <=> c \in masks[f] /\ ~(f = e /\ c \in cs)
  OBVIOUS
<1>2. ASSUME NEW c \in Packed PROVE PackedInv(c)' /\ Len(comps'[c]) <= MaxSlots
  <2>1. c \in Indexed /\ c \in Components
    BY DEF Indexed, Components
  <2>2. CASE c \in cs
    <3>1. /\ comps'[c] = DelPacked(c, e).comps
          /\ compToId'[c] = DelPacked(c, e).owners
          /\ idToComp'[c] = DelPacked(c, e).index
      BY <2>1, <2>2 DEF Delete
    <3>2. c \in masks[e] /\ \A f \in Ids : c \in masks'[f] <=> f # e /\ c \in masks[f]
      BY <1>1, <2>1, <2>2
    <3> QED
      BY <3>1, <3>2, PackedDelete
  <2>3. CASE c \notin cs
    <3>1. comps'[c] = comps[c] /\ compToId'[c] = compToId[c] /\ idToComp'[c] = idToComp[c]
      BY <2>1, <2>3 DEF Delete
    <3>2. \A f \in Ids : c \in masks'[f] <=> c \in masks[f]
      BY <1>1, <2>1, <2>3
    <3>3. PackedInv(c) /\ Len(comps[c]) <= MaxSlots
      BY <2>1 DEF SlotInv
    <3> QED
      BY <3>1, <3>2, <3>3, PackedFrame
  <2> QED
    BY <2>2, <2>3
<1>3. ASSUME NEW c \in Stack PROVE StackInv(c)' /\ Len(comps'[c]) <= MaxSlots
  <2>1. c \in Indexed /\ c \in Components /\ c \notin Packed
    BY StorageAssumption DEF Indexed, Components
  <2>2. comps'[c] = comps[c] /\ idToComp'[c] = idToComp[c]
    BY <2>1 DEF Delete
  <2>3. CASE c \in cs
    <3>1. freeIdx'[c] = Append(freeIdx[c], idToComp[c][e])
      BY <2>3 DEF Delete
    <3>2. c \in masks[e] /\ \A f \in Ids : c \in masks'[f] <=> f # e /\ c \in masks[f]
      BY <1>1, <2>1, <2>3
    <3> QED
      BY <2>2, <3>1, <3>2, StackDelete
  <2>4. CASE c \notin cs
    <3>1. freeIdx'[c] = freeIdx[c]
      BY <2>4 DEF Delete
    <3>2. \A f \in Ids : c \in masks'[f] => c \in masks[f]
      BY <1>1, <2>1
    <3>3. StackInv(c) /\ Len(comps[c]) <= MaxSlots
      BY <2>1 DEF SlotInv
    <3> QED
      BY <2>2, <3>1, <3>2, <3>3, StackFrame
  <2> QED
    BY <2>3, <2>4
<1> QED
  BY <1>2, <1>3 DEF SlotInv, Indexed

(* Adding component c to entity e.                                         *)
LEMMA AddStep ==
  ASSUME BagsOK, SlotInv, NEW e \in Ids, NEW c \in Components, NEW v \in Values,
         masks \in [Ids -> SUBSET Components], c \notin masks[e],
         masks' = [masks EXCEPT ![e] = @ \cup {c}],
         AddSparse(e, c, v) \/ AddPacked(e, c, v) \/ AddStack(e, c, v)
  PROVE  SlotInv'
<1>1. \A f \in Ids, d \in Components :
        d \in masks'[f] <=> d \in masks[f] \/ (f = e /\ d = c)
  OBVIOUS
<1>2. ASSUME NEW d \in Indexed, d # c \/ AddSparse(e, c, v)
      PROVE  /\ comps'[d] = comps[d] /\ idToComp'[d] = idToComp[d]
             /\ d \in Packed => compToId'[d] = compToId[d]
             /\ d \in Stack => freeIdx'[d] = freeIdx[d]
             /\ d # c
  BY <1>2, StorageAssumption DEF AddSparse, AddPacked, AddStack, BagsOK, Indexed
<1>3. ASSUME NEW d \in Packed PROVE PackedInv(d)' /\ Len(comps'[d]) <= MaxSlots
  <2>1. d \in Indexed /\ d \in Components
    BY DEF Indexed, Components
  <2>2. CASE d = c /\ ~AddSparse(e, c, v)
    <3>1. AddPacked(e, c, v)
      BY <2>2, StorageAssumption DEF AddStack
    <3> QED
      BY <1>1, <2>2, <3>1, AddPackedStep
  <2>3. CASE d # c \/ AddSparse(e, c, v)
    <3>1. /\ comps'[d] = comps[d] /\ idToComp'[d] = idToComp[d]
          /\ compToId'[d] = compToId[d] /\ d # c
      BY <1>2, <2>1, <2>3
    <3>2. \A f \in Ids : d \in masks'[f] <=> d \in masks[f]
      BY <1>1, <2>1, <3>1
    <3>3. PackedInv(d) /\ Len(comps[d]) <= MaxSlots
      BY <2>1 DEF SlotInv
    <3> QED
      BY <3>1, <3>2, <3>3, PackedFrame
  <2> QED
    BY <2>2, <2>3
<1>4. ASSUME NEW d \in Stack PROVE StackInv(d)' /\ Len(comps'[d]) <= MaxSlots
  <2>1. d \in Indexed /\ d \in Components
    BY DEF Indexed, Components
  <2>2. CASE d = c /\ ~AddSparse(e, c, v)
    <3>1. AddStack(e, c, v)
      BY <2>2, StorageAssumption DEF AddPacked
    <3> QED
      BY <1>1, <2>2, <3>1, AddStackStep
  <2>3. CASE d # c \/ AddSparse(e, c, v)
    <3>1. /\ comps'[d] = comps[d] /\ idToComp'[d] = idToComp[d]
          /\ freeIdx'[d] = freeIdx[d] /\ d # c
      BY <1>2, <2>1, <2>3
    <3>2. \A f \in Ids : d \in masks'[f] => d \in masks[f]
      BY <1>1, <2>1, <3>1
    <3>3. StackInv(d) /\ Len(comps[d]) <= MaxSlots
      BY <2>1 DEF SlotInv
    <3> QED
      BY <3>1, <3>2, <3>3, StackFrame
  <2> QED
    BY <2>2, <2>3
<1> QED
  BY <1>3, <1>4 DEF SlotInv, Indexed

(* A step that moves no slot and takes no component from anyone while there*)
(* are deleters.                                                           *)
LEMMA FrameStep ==
  ASSUME BagsOK, SlotInv, UNCHANGED <<idToComp, compToId, freeIdx>>,
         \A c \in Indexed : Len(comps'[c]) = Len(comps[c]),
         \A f \in Ids, c \in Indexed : c \in masks'[f] => c \in masks[f],
         CallbackOnDelete =>
           \A f \in Ids, c \in Indexed : c \in masks[f] => c \in masks'[f]
  PROVE  SlotInv'
<1>1. ASSUME NEW c \in Packed PROVE PackedInv(c)'
  <2>1. c \in Indexed /\ PackedInv(c)
    BY DEF Indexed, SlotInv
  <2> QED
    BY <2>1, PackedFrame
<1>2. ASSUME NEW c \in Stack PROVE StackInv(c)'
  <2>1. c \in Indexed /\ StackInv(c)
    BY DEF Indexed, SlotInv
  <2> QED
    BY <2>1, StackFrame
<1> QED
  BY <1>1, <1>2 DEF SlotInv

(* One case per action.                                                    *)
LEMMA StorageStep ==
  ASSUME IdsOK, BagsOK, CellsOK, MaskInv, SlotInv, [Next]_vars
  PROVE  BagsOK' /\ CellsOK' /\ SlotInv'
<1> USE DEF IdsOK
<1>1. CASE CreateEntity
  <2>1. UNCHANGED storageVars
    BY <1>1 DEF CreateEntity
  <2>2. \A f \in Ids : masks'[f] = masks[f]
    <3>1. CASE Recycle
      BY <3>1 DEF Recycle
    <3>2. CASE Extend
      <4>1. maxId' = maxId + 1 /\ masks' = [masks EXCEPT ![maxId'] = {}]
        BY <3>2 DEF Extend
      <4>2. \A f \in Live : f <= maxId /\ f \in Nat
        BY StorageAssumption DEF Live, Ids
      <4>3. maxId' \notin Live
        BY <4>1, <4>2
      <4> QED
        BY <4>1, <4>3 DEF MaskInv
    <3> QED
      BY <1>1, <3>1, <3>2 DEF CreateEntity
  <2>3. SlotInv'
    BY <2>1, <2>2, FrameStep DEF storageVars
  <2> QED
    BY <2>1, <2>3 DEF storageVars, BagsOK, CellsOK
<1>2. ASSUME NEW e \in Ids, DeleteEntity(e) PROVE BagsOK' /\ CellsOK' /\ SlotInv'
  <2>1. masks' = [masks EXCEPT ![e] = {}]
    BY <1>2 DEF DeleteEntity, Cleared
  <2>2. CASE CallbackOnDelete
    <3>1. Delete(masks[e], e)
      BY <1>2, <2>2 DEF DeleteEntity
    <3>2. masks' = [masks EXCEPT ![e] = @ \ masks[e]]
      BY <2>1
    <3> QED
      BY <2>2, <3>1, <3>2, DeleteKeepsTypes, DeleteStep
  <2>3. CASE ~CallbackOnDelete
    <3>1. UNCHANGED storageVars
      BY <1>2, <2>3 DEF DeleteEntity
    <3>2. \A f \in Ids : masks'[f] \subseteq masks[f]
      BY <2>1
    <3>3. SlotInv'
      BY <2>3, <3>1, <3>2, FrameStep DEF storageVars
    <3> QED
      BY <3>1, <3>3 DEF storageVars, BagsOK, CellsOK
  <2> QED
    BY <2>2, <2>3
<1>3. ASSUME NEW e \in Ids, NEW c \in Components, DelComponent(e, c)
      PROVE  BagsOK' /\ CellsOK' /\ SlotInv'
  <2>1. /\ CallbackOnDelete /\ {c} \subseteq masks[e] /\ Delete({c}, e)
        /\ masks' = [masks EXCEPT ![e] = @ \ {c}]
    BY <1>3, DeletersAssumption DEF DelComponent, Holders
  <2> QED
    BY <2>1, DeleteKeepsTypes, DeleteStep
<1>4. ASSUME NEW e \in Ids, NEW c \in Components, NEW v \in Values,
             AddComponent(e, c, v)
      PROVE  BagsOK' /\ CellsOK' /\ SlotInv'
  <2>1. /\ c \notin masks[e] /\ masks' = [masks EXCEPT ![e] = @ \cup {c}]
        /\ AddSparse(e, c, v) \/ AddPacked(e, c, v) \/ AddStack(e, c, v)
    BY <1>4 DEF AddComponent, Holders
  <2> QED
    BY <2>1, AddKeepsTypes, AddStep
<1>5. ASSUME NEW e \in Ids, NEW c \in Components, NEW v \in Values,
             SetComponent(e, c, v)
      PROVE  BagsOK' /\ CellsOK' /\ SlotInv'
  <2>1. masks' = masks /\ UNCHANGED <<idToComp, compToId, freeIdx>>
    BY <1>5 DEF SetComponent
  <2>2. CASE c \in Sparse
    <3>1. comps' = comps /\ cells' = [cells EXCEPT ![c][e] = v]
      BY <1>5, <2>2 DEF SetComponent
    <3> QED
      BY <2>1, <2>2, <3>1, FrameStep DEF BagsOK, CellsOK
  <2>3. CASE c \in Indexed
    <3> DEFINE i == idToComp[c][e]
               s == comps[c]
               t == [s EXCEPT ![i] = v]
    <3>1. cells' = cells /\ comps' = [comps EXCEPT ![c] = t]
      BY <1>5, <2>3, StorageAssumption DEF SetComponent
    <3>2. s \in Seq(Values)
      BY <2>3 DEF BagsOK
    <3>3. t \in Seq(Values) /\ Len(t) = Len(s)
      <4> HIDE DEF s, i
      <4>1. Len(s) \in Nat /\ s \in [1..Len(s) -> Values]
        BY <3>2, LenProperties, ElementOfSeq
      <4>2. t \in [1..Len(s) -> Values]
        BY <4>1
      <4> HIDE DEF t
      <4> QED
        BY <4>1, <4>2, SeqDef, LenProperties
    <3> HIDE DEF t
    <3>4. /\ comps' \in [Indexed -> Seq(Values)]
          /\ \A d \in Indexed : Len(comps'[d]) = Len(comps[d])
      BY <2>3, <3>1, <3>3 DEF BagsOK
    <3> QED
      BY <2>1, <3>1, <3>4, FrameStep DEF BagsOK, CellsOK
  <2> QED
    BY <2>2, <2>3 DEF Components
<1>6. CASE UNCHANGED vars
  BY <1>6, FrameStep DEF vars, BagsOK, CellsOK
<1> QED
  BY <1>1, <1>2, <1>3, <1>4, <1>5, <1>6 DEF Next

-----------------------------------------------------------------------------
LEMMA StoreCorrect ==
  Spec => [](IdsOK /\ BagsOK /\ CellsOK /\ MaskInv /\ SlotInv)
<1>1. Init => IdsOK /\ BagsOK /\ CellsOK /\ MaskInv /\ SlotInv
  <2> SUFFICES ASSUME Init PROVE IdsOK /\ BagsOK /\ CellsOK /\ MaskInv /\ SlotInv
    OBVIOUS
  <2>1. \A S : <<>> \in Seq(S)
    OBVIOUS
  <2>2. Len(<<>>) = 0 /\ DOMAIN <<>> = {}
    OBVIOUS
  <2>3. IdsOK /\ MaskInv
    BY <2>1, <2>2, StorageAssumption DEF Init, IdsOK, MaskInv, Live
  <2>4. BagsOK /\ CellsOK
    BY <2>1, StorageAssumption DEF Init, BagsOK, CellsOK
  <2>5. /\ \A c \in Indexed : comps[c] = <<>>
        /\ \A c \in Packed : compToId[c] = <<>>
        /\ \A c \in Stack : freeIdx[c] = <<>>
        /\ \A e \in Ids : masks[e] = {}
    BY DEF Init
  <2>6. SlotInv
    BY <2>2, <2>5, StorageAssumption DEF SlotInv, PackedInv, StackInv, Indexed
  <2> QED
    BY <2>3, <2>4, <2>6
<1>2. /\ IdsOK /\ BagsOK /\ CellsOK /\ MaskInv /\ SlotInv
      /\ [Next]_vars
      => (IdsOK /\ BagsOK /\ CellsOK /\ MaskInv /\ SlotInv)'
  BY MaskStep, StorageStep
<1> QED
  BY <1>1, <1>2, PTL DEF Spec

(* Bags only grow, and adding a component is all that needs more room.     *)
RoomInv == \A c \in Components : \A e \in Ids : c \in masks[e] => e < room[c]

LEMMA EnsuredIsEnough ==
  ASSUME NEW capacity \in Nat, NEW n \in Nat
  PROVE  /\ Ensured(capacity, n) \in Nat
         /\ capacity <= Ensured(capacity, n) /\ n <= Ensured(capacity, n)
  BY DEF Ensured

LEMMA RoomStep ==
  ASSUME IdsOK, MaskInv, RoomOK, RoomInv, [Next]_vars PROVE RoomOK' /\ RoomInv'
<1> USE StorageAssumption DEF IdsOK, RoomOK, RoomInv
<1>1. ASSUME room' = room, \A f \in Ids : masks'[f] \subseteq masks[f]
      PROVE  RoomOK' /\ RoomInv'
  BY <1>1
<1>2. CASE CreateEntity
  <2>1. room' = room
    BY <1>2 DEF CreateEntity
  <2>2. \A f \in Ids : masks'[f] \subseteq masks[f]
    <3>1. CASE Recycle
      BY <3>1 DEF Recycle
    <3>2. CASE Extend
      <4>1. masks' = [masks EXCEPT ![maxId'] = {}]
        BY <3>2 DEF Extend
      <4> QED
        BY <4>1
    <3> QED
      BY <1>2, <3>1, <3>2 DEF CreateEntity
  <2> QED
    BY <1>1, <2>1, <2>2
<1>3. ASSUME NEW e \in Ids, DeleteEntity(e) PROVE RoomOK' /\ RoomInv'
  BY <1>1, <1>3 DEF DeleteEntity, Cleared
<1>4. ASSUME NEW e \in Ids, NEW c \in Components, DelComponent(e, c)
      PROVE  RoomOK' /\ RoomInv'
  BY <1>1, <1>4 DEF DelComponent
<1>5. ASSUME NEW e \in Ids, NEW c \in Components, NEW v \in Values,
             AddComponent(e, c, v)
      PROVE  RoomOK' /\ RoomInv'
  <2> DEFINE new == Ensured(room[c], Needed(e))
  <2>1. /\ room' = [room EXCEPT ![c] = new]
        /\ masks' = [masks EXCEPT ![e] = @ \cup {c}]
    BY <1>5 DEF AddComponent
  <2>2. e \in Nat /\ Needed(e) \in Nat /\ e < Needed(e)
    BY DEF Ids, Needed
  <2>3. new \in Nat /\ room[c] <= new /\ Needed(e) <= new
    BY <2>2, EnsuredIsEnough
  <2> HIDE DEF new
  <2>4. RoomOK'
    BY <2>1, <2>3
  <2>5. ASSUME NEW d \in Components, NEW f \in Ids, d \in masks'[f]
        PROVE  f < room'[d]
    <3>1. f \in Nat
      BY DEF Ids
    <3>2. CASE d = c /\ f = e
      BY <2>1, <2>2, <2>3, <3>2
    <3>3. CASE d # c \/ f # e
      <4>1. f < room[d]
        BY <2>1, <2>5, <3>3
      <4>2. room[d] <= room'[d] /\ room[d] \in Nat /\ room'[d] \in Nat
        BY <2>1, <2>3
      <4> QED
        BY <3>1, <4>1, <4>2
    <3> QED
      BY <3>2, <3>3
  <2> QED
    BY <2>4, <2>5
<1>6. ASSUME NEW e \in Ids, NEW c \in Components, NEW v \in Values,
             SetComponent(e, c, v)
      PROVE  RoomOK' /\ RoomInv'
  BY <1>1, <1>6 DEF SetComponent
<1>7. CASE UNCHANGED vars
  BY <1>1, <1>7 DEF vars
<1> QED
  BY <1>2, <1>3, <1>4, <1>5, <1>6, <1>7 DEF Next

LEMMA RoomCorrect == Spec => [](RoomOK /\ RoomInv)
<1>1. Init => RoomOK /\ RoomInv
  BY StorageAssumption DEF Init, RoomOK, RoomInv
<1>2. IdsOK /\ MaskInv /\ RoomOK /\ RoomInv /\ [Next]_vars => (RoomOK /\ RoomInv)'
  BY RoomStep
<1> QED
  BY <1>1, <1>2, StoreCorrect, PTL DEF Spec

(* No entity's cell is beyond the end of the bag it is read from, for any  *)
(* first capacity, also 0, and after ids were recycled in any order.       *)
THEOREM CellsStayInBounds == Spec => []CellsInBounds
<1>1. RoomInv => CellsInBounds
  BY DEF RoomInv, CellsInBounds, Holders, Live
<1> QED
  BY <1>1, RoomCorrect, PTL

(* Every map of the entity store keeps its type: in particular an index an *)
(* entity uses and a recycled slot are within the bounds of the bags.      *)
THEOREM TypeCorrect == Spec => []TypeOK
<1>1. IdsOK /\ BagsOK /\ CellsOK /\ RoomOK => TypeOK
  BY TypeParts
<1> QED
  BY <1>1, StoreCorrect, RoomCorrect, PTL

(* An id that deleteEntity put back is in the list once and has no         *)
(* component, so createEntity hands out clean entities.                    *)
THEOREM IdsAreClean == Spec => []RecycledIdsClean
<1>1. IdsOK /\ MaskInv => RecycledIdsClean
  <2> SUFFICES ASSUME IdsOK, MaskInv PROVE RecycledIdsClean
    OBVIOUS
  <2>1. \A i \in DOMAIN ids : ids[i] \in Ids /\ ids[i] \notin Live
    BY ElementOfSeq, LenProperties DEF IdsOK, Live, Elements
  <2> QED
    BY <2>1 DEF RecycledIdsClean, MaskInv
<1> QED
  BY <1>1, StoreCorrect, PTL

(* After any creations, deletions, additions and removals, no two entities *)
(* read or write the same slot of a packed or a stack storage.             *)
THEOREM SlotsStayApart == Spec => []SlotsApart
<1>1. SlotInv => SlotsApart
  BY DEF SlotInv, PackedInv, StackInv, SlotsApart, Indexed, Holders, Live
<1> QED
  BY <1>1, StoreCorrect, PTL

-----------------------------------------------------------------------------
(* The game's world runs no deleter, so no slot is ever free: ...          *)
NoneFree == \A c \in Stack : freeIdx[c] = <<>>

(* ... every component added takes a slot of its own, a new one, and no    *)
(* slot is given back, however often entities come and go.                 *)
Added(c) == \E e \in Ids : c \in masks'[e] \ masks[e]
SlotsLeak ==
  \A c \in Indexed :
    Len(comps'[c]) = IF Added(c) THEN Len(comps[c]) + 1 ELSE Len(comps[c])

LEMMA AddLeaks ==
  ASSUME IdsOK, BagsOK, NoneFree, NEW c \in Indexed,
         NEW e \in Ids, NEW d \in Components, NEW v \in Values,
         AddComponent(e, d, v)
  PROVE  Len(comps'[c]) = IF Added(c) THEN Len(comps[c]) + 1 ELSE Len(comps[c])
<1>1. /\ e \in Live /\ d \notin masks[e]
      /\ masks' = [masks EXCEPT ![e] = @ \cup {d}]
      /\ AddSparse(e, d, v) \/ AddPacked(e, d, v) \/ AddStack(e, d, v)
  BY DEF AddComponent, Holders
<1>2. Added(c) <=> c = d
  BY <1>1 DEF Added, IdsOK
<1>3. comps[c] \in Seq(Values) /\ c \notin Sparse
  BY StorageAssumption DEF BagsOK, Indexed
<1>4. CASE c = d
  <2>1. comps'[c] = Append(comps[c], v)
    BY <1>1, <1>3, <1>4
    DEF AddSparse, AddPacked, AddStack, HasFree, NoneFree, BagsOK
  <2> QED
    BY <1>2, <1>3, <1>4, <2>1, AppendProperties
<1>5. CASE c # d
  BY <1>1, <1>2, <1>3, <1>5
  DEF AddSparse, AddPacked, AddStack, HasFree, NoneFree, BagsOK
<1> QED
  BY <1>4, <1>5

LEMMA SetKeepsLength ==
  ASSUME BagsOK, NEW c \in Indexed,
         NEW e \in Ids, NEW d \in Components, NEW v \in Values,
         SetComponent(e, d, v)
  PROVE  Len(comps'[c]) = Len(comps[c])
<1> DEFINE s == comps[c]
           i == idToComp[c][e]
<1>1. s \in Seq(Values) /\ c \notin Sparse
  BY StorageAssumption DEF BagsOK, Indexed
<1>2. comps'[c] = s \/ comps'[c] = [s EXCEPT ![i] = v]
  BY <1>1 DEF SetComponent, BagsOK
<1> HIDE DEF s, i
<1> DEFINE t == [s EXCEPT ![i] = v]
<1>3. Len(t) = Len(s)
  <2>1. Len(s) \in Nat /\ s \in [1..Len(s) -> Values]
    BY <1>1, LenProperties, ElementOfSeq
  <2>2. t \in [1..Len(s) -> Values]
    BY <2>1
  <2> HIDE DEF t
  <2> QED
    BY <2>1, <2>2, SeqDef, LenProperties
<1> QED
  BY <1>2, <1>3 DEF s

LEMMA LeakStep ==
  ASSUME IdsOK, BagsOK, MaskInv, NoneFree, ~CallbackOnDelete, [Next]_vars
  PROVE  NoneFree' /\ SlotsLeak
<1>1. ~RemovesComponents
  BY DeletersAssumption
<1>2. ASSUME NoneFree', NEW c \in Indexed, Len(comps'[c]) = Len(comps[c]),
             \A e \in Ids : masks'[e] \subseteq masks[e]
      PROVE  Len(comps'[c]) = IF Added(c) THEN Len(comps[c]) + 1
                                          ELSE Len(comps[c])
  BY <1>2 DEF Added
<1>3. CASE CreateEntity
  <2>1. UNCHANGED storageVars /\ \A e \in Ids : masks'[e] \subseteq masks[e]
    BY <1>3 DEF CreateEntity, Recycle, Extend, IdsOK
  <2>2. NoneFree' /\ comps' = comps
    BY <2>1 DEF storageVars, NoneFree
  <2> QED
    BY <1>2, <2>1, <2>2 DEF SlotsLeak
<1>4. ASSUME NEW e \in Ids, DeleteEntity(e)
      PROVE  NoneFree' /\ SlotsLeak
  <2>1. /\ UNCHANGED storageVars
        /\ \A f \in Ids : masks'[f] \subseteq masks[f]
    BY <1>4 DEF DeleteEntity, Cleared, IdsOK
  <2>2. NoneFree' /\ comps' = comps
    BY <2>1 DEF storageVars, NoneFree
  <2> QED
    BY <1>2, <2>1, <2>2 DEF SlotsLeak
<1>5. ASSUME NEW e \in Ids, NEW d \in Components, NEW v \in Values,
             AddComponent(e, d, v)
      PROVE  NoneFree' /\ SlotsLeak
  <2>1. freeIdx' = freeIdx
    BY <1>5 DEF AddComponent, AddSparse, AddPacked, AddStack, HasFree, NoneFree
  <2> QED
    BY <1>5, <2>1, AddLeaks DEF NoneFree, SlotsLeak
<1>6. ASSUME NEW e \in Ids, NEW d \in Components, NEW v \in Values,
             SetComponent(e, d, v)
      PROVE  NoneFree' /\ SlotsLeak
  <2>1. freeIdx' = freeIdx /\ masks' = masks
    BY <1>6 DEF SetComponent
  <2>2. \A c \in Indexed : Len(comps'[c]) = Len(comps[c])
    BY <1>6, SetKeepsLength
  <2> QED
    BY <1>2, <2>1, <2>2 DEF NoneFree, SlotsLeak
<1>7. CASE UNCHANGED vars
  BY <1>2, <1>7 DEF vars, NoneFree, SlotsLeak
<1> QED
  BY <1>1, <1>3, <1>4, <1>5, <1>6, <1>7 DEF Next, DelComponent

(* In the game's world, whose deleteEntity runs no deleter (bagel.h:21),   *)
(* the bags of a component "created and destroyed a lot" grow with every   *)
(* entity that ever had it: slots are never reused, for any number of      *)
(* entities, components and steps.                                         *)
THEOREM SlotsAreNeverReused ==
  ASSUME ~CallbackOnDelete
  PROVE  Spec => [][SlotsLeak]_vars
<1>1. Init => NoneFree
  BY DEF Init, NoneFree
<1>2. IdsOK /\ BagsOK /\ MaskInv /\ NoneFree /\ [Next]_vars
        => NoneFree' /\ SlotsLeak
  BY LeakStep
<1> QED
  BY <1>1, <1>2, StoreCorrect, PTL DEF Spec
=============================================================================
