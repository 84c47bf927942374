------------------------- MODULE RadialBurstProofs --------------------------
(***************************************************************************)
(* Theorems about the bag of transforms and the bursts fired out of it,    *)
(* for any number of shooters, bullets and cells.                          *)
(***************************************************************************)
EXTENDS RadialBurst, FiniteSetTheorems, TLAPS

TypeOK ==
  /\ place \in [Shooters -> Places] /\ shooter \in Shooters
  /\ maxId \in Int /\ LastShooter <= maxId
  /\ capacity \in Nat /\ allocation \in Nat /\ ref \in Nat
  /\ burst \in 0..BurstBullets /\ roomy \in BOOLEAN

(* Every id beyond the shooters' is in use or can be handed out again.     *)
IdsInv == /\ live \cap recycled = {}
          /\ live \cup recycled = (LastShooter + 1)..maxId

(* Every id has a cell, and there are no more ids than were ever needed.   *)
BagInv == /\ maxId < capacity /\ InitialEntities <= capacity
          /\ Cardinality(live) + burst <= MaxBullets
          /\ maxId <= LastShooter + MaxBullets
          /\ BagBounded

(* Where a burst stands: the room it had or lacked is the room its rest has*)
(* or lacks, until the bag moves; then there is room for all the rest.     *)
BurstInv ==
  burst > 0 => IF ref = allocation
                 THEN roomy <=> RoomFor(burst)
                 ELSE allocation = ref + 1 /\ ~roomy /\ RoomFor(burst)

BurstsInv == TypeOK /\ IdsInv /\ BagInv /\ BurstInv

USE DEF Sizes

(* The ids in use and the free ones make up all ids beyond the shooters'.  *)
LEMMA Counts ==
  ASSUME NEW S, NEW T, NEW m \in Int, Sizes, LastShooter <= m,
         S \cap T = {}, S \cup T = (LastShooter + 1)..m
  PROVE  /\ IsFiniteSet(S) /\ IsFiniteSet(T)
         /\ Cardinality(S) \in Nat /\ Cardinality(T) \in Nat
         /\ Cardinality(S) + Cardinality(T) = m - LastShooter
<1> DEFINE I == (LastShooter + 1)..m
<1>1. IsFiniteSet(I) /\ Cardinality(I) = m - LastShooter
  <2>1. LastShooter + 1 \in Int
    OBVIOUS
  <2>2. IsFiniteSet(I) /\ Cardinality(I) = IF LastShooter + 1 > m THEN 0 ELSE m - (LastShooter + 1) + 1
    BY <2>1, FS_Interval, Zenon
  <2> DEFINE k == Cardinality(I)
  <2>3. k = IF LastShooter + 1 > m THEN 0 ELSE m - (LastShooter + 1) + 1
    BY <2>2
  <2> HIDE DEF k
  <2>4. k = m - LastShooter
    BY <2>3
  <2> QED
    BY <2>2, <2>4 DEF k
<1>2. S \in SUBSET I /\ T \in SUBSET I
  OBVIOUS
<1> HIDE DEF I
<1>3. IsFiniteSet(S) /\ IsFiniteSet(T)
  BY <1>1, <1>2, FS_Subset
<1>4. Cardinality(S) \in Nat /\ Cardinality(T) \in Nat
  BY <1>3, FS_CardinalityType
<1>5. Cardinality(S \cup T) = Cardinality(S) + Cardinality(T) - Cardinality(S \cap T)
  BY <1>3, FS_Union
<1>6. Cardinality(S \cap T) = 0
  BY FS_EmptySet
<1>7. Cardinality(S \cup T) = m - LastShooter
  BY <1>1 DEF I
<1> QED
  BY <1>3, <1>4, <1>5, <1>6, <1>7

(* createEntity and the growth of the bag: one id more is in use, taken    *)
(* back or new; the bag moves exactly if there is no room for one more, and*)
(* doubles then.                                                           *)
LEMMA CreateStep ==
  ASSUME Sizes, TypeOK, IdsInv, BagInv, Cardinality(live) < MaxBullets, Create
  PROVE  /\ IdsInv' /\ maxId' \in Int /\ LastShooter <= maxId'
         /\ maxId' <= LastShooter + MaxBullets
         /\ Cardinality(live') = Cardinality(live) + 1
         /\ \/ maxId' = maxId /\ Cardinality(recycled') = Cardinality(recycled) - 1
            \/ /\ maxId' = maxId + 1
               /\ Cardinality(recycled') = 0 /\ Cardinality(recycled) = 0
         /\ maxId' < capacity'
         /\ IF RoomFor(1)
              THEN capacity' = capacity /\ allocation' = allocation
              ELSE /\ recycled' = {} /\ maxId' = capacity
                   /\ capacity' = 2 * capacity /\ allocation' = allocation + 1
<1> PICK id \in NewIds : /\ live' = live \cup {id} /\ recycled' = recycled \ {id}
                         /\ maxId' = IF id > maxId THEN id ELSE maxId
                         /\ Ensure(id)
  BY DEF Create
<1> DEFINE n == Cardinality(live)
           r == Cardinality(recycled)
<1>1. /\ IsFiniteSet(live) /\ IsFiniteSet(recycled) /\ n \in Nat /\ r \in Nat
      /\ n + r = maxId - LastShooter
  BY Counts DEF TypeOK, IdsInv
<1>2. live' \cap recycled' = {}
  BY DEF IdsInv
<1>3. CASE recycled # {}
  <2>1. id \in recycled /\ id \in (LastShooter + 1)..maxId /\ id \notin live
    BY <1>3 DEF NewIds, IdsInv
  <2>2. maxId' = maxId
    BY <2>1 DEF TypeOK
  <2>3. live' \cup recycled' = (LastShooter + 1)..maxId
    BY <2>1 DEF IdsInv
  <2>4. Cardinality(live') = n + 1
    BY <1>1, <2>1, FS_AddElement
  <2>5. Cardinality(recycled') = r - 1
    BY <1>1, <2>1, FS_RemoveElement
  <2>6. r # 0
    BY <1>1, <1>3, FS_EmptySet
  <2>7. RoomFor(1)
    <3> HIDE DEF r
    <3>1. maxId + 1 - r < capacity
      BY <1>1, <2>6 DEF TypeOK, BagInv
    <3> QED
      BY <3>1 DEF RoomFor, r
  <2>8. capacity' = capacity /\ allocation' = allocation
    BY <2>1 DEF TypeOK, BagInv, Ensure, Needed
  <2> QED
    BY <1>2, <2>2, <2>3, <2>4, <2>5, <2>7, <2>8 DEF IdsInv, TypeOK, BagInv
<1>4. CASE recycled = {}
  <2>1. id = maxId + 1 /\ id \notin live
    BY <1>4 DEF NewIds, IdsInv, TypeOK
  <2>2. maxId' = maxId + 1 /\ recycled' = {}
    BY <1>4, <2>1 DEF TypeOK
  <2>3. live' \cup recycled' = (LastShooter + 1)..maxId'
    BY <1>4, <2>1, <2>2 DEF IdsInv, TypeOK
  <2>4. Cardinality(live') = n + 1
    BY <1>1, <2>1, FS_AddElement
  <2>5. r = 0 /\ Cardinality(recycled') = 0
    BY <1>4, <2>2, FS_EmptySet
  <2>6. n = maxId - LastShooter /\ maxId' <= LastShooter + MaxBullets
    <3> HIDE DEF n, r
    <3>1. n < MaxBullets
      BY DEF n
    <3> QED
      BY <1>1, <2>2, <2>5, <3>1 DEF TypeOK
  <2>7. RoomFor(1) <=> maxId + 1 < capacity
    BY <2>5 DEF RoomFor, TypeOK
  <2>8. CASE maxId + 1 < capacity
    BY <1>2, <2>1, <2>2, <2>3, <2>4, <2>5, <2>6, <2>7, <2>8
    DEF IdsInv, TypeOK, BagInv, Ensure, Needed
  <2>9. CASE ~(maxId + 1 < capacity)
    <3>1. maxId' = capacity /\ 2 * capacity >= Needed(id)
      BY <2>1, <2>2, <2>9 DEF TypeOK, BagInv, Needed
    <3>2. capacity' = 2 * capacity /\ allocation' = allocation + 1
      BY <2>1, <2>9, <3>1 DEF TypeOK, BagInv, Ensure, Needed, Grown
    <3> QED
      BY <1>2, <2>2, <2>3, <2>4, <2>5, <2>6, <2>7, <2>9, <3>1, <3>2
      DEF IdsInv, TypeOK, BagInv
  <2> QED
    BY <2>8, <2>9
<1> QED
  BY <1>3, <1>4

(* A bullet of the burst: the room it had goes with it, and a bag that     *)
(* moves has room for the rest afterwards, since it holds a whole burst.   *)
LEMMA FireStep ==
  ASSUME Sizes, BurstsInv, FireNext
  PROVE  /\ BagInv' /\ BurstInv'
         /\ allocation' <= ref + 1
         /\ burst = 1 => (allocation' = ref <=> roomy)
<1> DEFINE n == Cardinality(live)
           r == Cardinality(recycled)
           s == Cardinality(recycled')
<1>1. n \in Nat /\ r \in Nat
  BY Counts DEF BurstsInv, TypeOK, IdsInv
<1>2. /\ burst \in 1..BurstBullets /\ burst' = burst - 1 /\ Create
      /\ ref' = ref /\ roomy' = roomy
  BY DEF BurstsInv, TypeOK, FireNext, CreateProjectile
<1>3. n < MaxBullets
  <2> HIDE DEF n
  <2>1. n + burst <= MaxBullets
    BY DEF BurstsInv, BagInv, n
  <2> QED
    BY <1>1, <1>2, <2>1
<1>4. /\ IdsInv' /\ maxId' \in Int /\ LastShooter <= maxId'
      /\ maxId' <= LastShooter + MaxBullets
      /\ Cardinality(live') = n + 1
      /\ \/ maxId' = maxId /\ s = r - 1
         \/ maxId' = maxId + 1 /\ s = 0 /\ r = 0
      /\ maxId' < capacity'
      /\ IF RoomFor(1)
           THEN capacity' = capacity /\ allocation' = allocation
           ELSE /\ recycled' = {} /\ maxId' = capacity
                /\ capacity' = 2 * capacity /\ allocation' = allocation + 1
  BY <1>2, <1>3, CreateStep DEF BurstsInv
<1>5. s \in Nat
  BY <1>4, Counts DEF IdsInv
<1>6. BagInv'
  <2>1. Cardinality(live') + burst' <= MaxBullets
    <3> HIDE DEF n
    <3>1. n + burst <= MaxBullets
      BY DEF BurstsInv, BagInv, n
    <3> QED
      BY <1>1, <1>2, <1>4, <3>1
  <2>2. InitialEntities <= capacity' /\ BagBounded'
    BY <1>4 DEF BurstsInv, BagInv, BagBounded, TypeOK
  <2> QED
    BY <1>4, <2>1, <2>2 DEF BagInv
<1>7. /\ RoomFor(1) <=> maxId + 1 - r < capacity
      /\ RoomFor(burst) <=> maxId + burst - r < capacity
      /\ RoomFor(burst)' <=> maxId' + burst' - s < capacity'
  BY DEF RoomFor
<1>8. IF ref = allocation
        THEN roomy <=> RoomFor(burst)
        ELSE allocation = ref + 1 /\ ~roomy /\ RoomFor(burst)
  BY <1>2 DEF BurstsInv, BurstInv
<1>9. CASE RoomFor(1)
  <2>1. capacity' = capacity /\ allocation' = allocation
    BY <1>4, <1>9
  <2>2. RoomFor(burst)' <=> RoomFor(burst)
    <3> HIDE DEF r, s
    <3>1. CASE maxId' = maxId /\ s = r - 1
      BY <1>1, <1>2, <1>7, <2>1, <3>1 DEF BurstsInv, TypeOK
    <3>2. CASE maxId' = maxId + 1 /\ s = 0 /\ r = 0
      BY <1>2, <1>7, <2>1, <3>2 DEF BurstsInv, TypeOK
    <3> QED
      BY <1>4, <3>1, <3>2
  <2>3. BurstInv'
    BY <1>2, <1>8, <2>1, <2>2, Zenon DEF BurstInv
  <2>4. allocation' <= ref + 1
    BY <1>8, <2>1 DEF BurstsInv, TypeOK
  <2>5. burst = 1 => (allocation' = ref <=> roomy)
    BY <1>8, <1>9, <2>1
  <2> QED
    BY <1>6, <2>3, <2>4, <2>5
<1>10. CASE ~RoomFor(1)
  <2>1. maxId' = capacity /\ capacity' = 2 * capacity /\ allocation' = allocation + 1
    BY <1>4, <1>10
  <2>2. ~RoomFor(burst)
    <3> HIDE DEF r
    <3> QED
      BY <1>1, <1>2, <1>7, <1>10 DEF BurstsInv, TypeOK
  <2>3. ref = allocation /\ ~roomy
    BY <1>8, <2>2
  <2>4. RoomFor(burst)'
    <3>1. burst' < BurstBullets /\ BurstBullets <= capacity
      BY <1>2 DEF BurstsInv, BagInv, TypeOK
    <3> HIDE DEF s
    <3>2. maxId' + burst' - s < capacity'
      BY <1>2, <1>5, <2>1, <3>1 DEF BurstsInv, TypeOK
    <3> QED
      BY <1>7, <3>2
  <2>5. allocation' = ref + 1 /\ allocation' # ref
    BY <2>1, <2>3 DEF BurstsInv, TypeOK
  <2> QED
    BY <1>2, <1>6, <2>3, <2>4, <2>5 DEF BurstInv, BurstsInv, TypeOK
<1> QED
  BY <1>9, <1>10

LEMMA InitBursts == Sizes /\ Init => BurstsInv
<1> SUFFICES ASSUME Sizes, Init PROVE BurstsInv
  OBVIOUS
<1>1. TypeOK
  BY DEF Init, TypeOK, Shooters
<1>2. IdsInv
  BY DEF Init, IdsInv
<1>3. Cardinality(live) = 0
  BY FS_EmptySet DEF Init
<1>4. BagInv
  BY <1>3 DEF Init, BagInv, BagBounded
<1> QED
  BY <1>1, <1>2, <1>4 DEF BurstsInv, BurstInv, Init

(* Outside a burst an entity may come; the burst's own variables rest.     *)
LEMMA LoneEntity ==
  ASSUME Sizes, BurstsInv, Create, burst = 0, Cardinality(live) < MaxBullets,
         UNCHANGED <<place, burstVars>>
  PROVE  BurstsInv'
<1>1. /\ IdsInv' /\ maxId' \in Int /\ LastShooter <= maxId'
      /\ maxId' <= LastShooter + MaxBullets
      /\ Cardinality(live') = Cardinality(live) + 1
      /\ maxId' < capacity'
      /\ \/ capacity' = capacity /\ allocation' = allocation
         \/ /\ maxId' = capacity
            /\ capacity' = 2 * capacity /\ allocation' = allocation + 1
  BY CreateStep, Zenon DEF BurstsInv
<1>2. Cardinality(live) \in Nat
  BY Counts DEF BurstsInv, TypeOK, IdsInv
<1>3. TypeOK'
  BY <1>1 DEF BurstsInv, TypeOK, burstVars
<1>4. BagInv'
  <2>1. Cardinality(live') + burst' <= MaxBullets
    <3> DEFINE n == Cardinality(live)
    <3>1. n + 1 = Cardinality(live') /\ n \in Nat /\ n < MaxBullets
      BY <1>1, <1>2
    <3> HIDE DEF n
    <3> QED
      BY <3>1 DEF burstVars
  <2> QED
    BY <1>1, <2>1 DEF BurstsInv, BagInv, BagBounded, TypeOK
<1>5. BurstInv'
  BY DEF BurstInv, burstVars, BurstsInv, TypeOK
<1> QED
  BY <1>1, <1>3, <1>4, <1>5 DEF BurstsInv

LEMMA StepBursts == Sizes /\ BurstsInv /\ [Next]_vars => BurstsInv'
<1> SUFFICES ASSUME Sizes, BurstsInv, [Next]_vars PROVE BurstsInv'
  OBVIOUS
<1>1. ASSUME NEW s \in Shooters, Shoot(s) PROVE BurstsInv'
  BY <1>1, LoneEntity DEF Shoot, CreateProjectile
<1>2. CASE Explode
  BY <1>2, LoneEntity DEF Explode
<1>3. ASSUME NEW s \in Shooters, BeginBurst(s) PROVE BurstsInv'
  <2>1. TypeOK' /\ IdsInv'
    BY <1>3 DEF BurstsInv, TypeOK, IdsInv, BeginBurst, storeVars, RoomFor
  <2>2. BagInv'
    BY <1>3 DEF BurstsInv, BagInv, BagBounded, BeginBurst, storeVars
  <2>3. ref' = allocation' /\ (roomy' <=> RoomFor(burst)')
    BY <1>3 DEF BeginBurst, storeVars, RoomFor
  <2> QED
    BY <2>1, <2>2, <2>3 DEF BurstsInv, BurstInv
<1>4. CASE FireNext
  <2>1. BagInv' /\ BurstInv'
    BY <1>4, FireStep
  <2>2. IdsInv' /\ TypeOK'
    <3>1. Cardinality(live) < MaxBullets
      <4> DEFINE n == Cardinality(live)
      <4>1. n \in Nat /\ n + burst <= MaxBullets
        BY Counts DEF BurstsInv, TypeOK, IdsInv, BagInv
      <4> HIDE DEF n
      <4>2. n < MaxBullets
        BY <1>4, <4>1 DEF FireNext, BurstsInv, TypeOK
      <4> QED
        BY <4>2 DEF n
    <3>2. /\ IdsInv' /\ maxId' \in Int /\ LastShooter <= maxId'
          /\ \/ capacity' = capacity /\ allocation' = allocation
             \/ capacity' = 2 * capacity /\ allocation' = allocation + 1
      BY <1>4, <3>1, CreateStep, Zenon DEF BurstsInv, FireNext, CreateProjectile
    <3> QED
      BY <1>4, <3>2 DEF BurstsInv, TypeOK, FireNext
  <2> QED
    BY <2>1, <2>2 DEF BurstsInv
<1>5. CASE OtherSystems
  <2>1. PICK gone \in SUBSET live : /\ live' = live \ gone
                                    /\ recycled' = recycled \cup gone
    BY <1>5 DEF OtherSystems
  <2>2. IdsInv'
    BY <1>5, <2>1 DEF BurstsInv, IdsInv, OtherSystems
  <2>3. TypeOK'
    BY <1>5 DEF BurstsInv, TypeOK, OtherSystems, burstVars
  <2>4. Cardinality(live') <= Cardinality(live)
    BY <2>1, Counts, FS_Subset DEF BurstsInv, IdsInv, TypeOK
  <2>5. Cardinality(live) \in Nat /\ Cardinality(live') \in Nat
    BY <2>2, <2>3, Counts DEF BurstsInv, IdsInv, TypeOK
  <2>6. BagInv'
    <3> DEFINE n == Cardinality(live)
               m == Cardinality(live')
    <3>1. n \in Nat /\ m \in Nat /\ m <= n /\ n + burst <= MaxBullets
      BY <2>4, <2>5 DEF BurstsInv, BagInv
    <3> HIDE DEF n, m
    <3>2. m + burst' <= MaxBullets
      BY <1>5, <3>1 DEF OtherSystems, burstVars
    <3>3. Cardinality(live') + burst' <= MaxBullets
      BY <3>2 DEF m
    <3> QED
      BY <1>5, <3>3 DEF BurstsInv, BagInv, BagBounded, OtherSystems
  <2>7. BurstInv'
    BY <1>5 DEF BurstInv, OtherSystems, burstVars
  <2> QED
    BY <2>2, <2>3, <2>6, <2>7 DEF BurstsInv
<1>6. CASE UNCHANGED vars
  BY <1>6 DEF vars, storeVars, burstVars, shotVars, BurstsInv, TypeOK, IdsInv, BagInv,
              BagBounded, BurstInv, RoomFor
<1> QED
  BY <1>1, <1>2, <1>3, <1>4, <1>5, <1>6 DEF Next

LEMMA BurstsCorrect == ASSUME Sizes PROVE Spec => []BurstsInv
<1> QED
  BY InitBursts, StepBursts, PTL DEF Spec

-----------------------------------------------------------------------------
(* Every variable of the bag and of a burst keeps its type.                *)
THEOREM TypeCorrect == Sizes => (Spec => []TypeOK)
<1> SUFFICES ASSUME Sizes PROVE Spec => []TypeOK
  OBVIOUS
<1>1. BurstsInv => TypeOK
  BY DEF BurstsInv
<1> QED
  BY <1>1, BurstsCorrect, PTL

(* The bag of transforms grows to twice the cells that the most entities   *)
(* ever alive at a time need, and no further.                              *)
THEOREM BagStaysBounded == Sizes => (Spec => []BagBounded)
<1> SUFFICES ASSUME Sizes PROVE Spec => []BagBounded
  OBVIOUS
<1>1. BurstsInv => BagBounded
  BY DEF BurstsInv, BagInv
<1> QED
  BY <1>1, BurstsCorrect, PTL

(* A burst with room for its bullets has them start at the shooter.        *)
THEOREM RoomyBurstsAreRight == Sizes => (Spec => RoomyBurstIsRight)
<1> SUFFICES ASSUME Sizes PROVE Spec => RoomyBurstIsRight
  OBVIOUS
<1>1. BurstsInv /\ [Next]_vars => [FireNext /\ roomy => startsAt' = wanted']_vars
  <2> SUFFICES ASSUME BurstsInv, FireNext, roomy PROVE startsAt' = wanted'
    OBVIOUS
  <2>1. ref = allocation
    BY DEF BurstsInv, BurstInv, FireNext, TypeOK
  <2> QED
    BY <2>1 DEF FireNext, CreateProjectile, Read
<1> QED
  BY <1>1, BurstsCorrect, PTL DEF Spec, RoomyBurstIsRight

(* A burst moves the bag never or once, as its room at the start tells.    *)
THEOREM BagMovesOnce == Sizes => (Spec => BurstMovesBagOnce)
<1> SUFFICES ASSUME Sizes PROVE Spec => BurstMovesBagOnce
  OBVIOUS
<1>1. BurstsInv /\ [Next]_vars =>
        [FireNext => /\ allocation' <= ref + 1
                     /\ burst = 1 => (allocation' = ref <=> roomy)]_vars
  BY FireStep
<1> QED
  BY <1>1, BurstsCorrect, PTL DEF Spec, BurstMovesBagOnce
=============================================================================
