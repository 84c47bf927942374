---------------------------- MODULE RadialBurst -----------------------------
(***************************************************************************)
(* Where bullets start: createProjectile adds an MTransform for the new    *)
(* entity, and the sparse storage that holds them all may move to grow.    *)
(* A reference into the storage is good for one allocation only; reading a *)
(* stale one is undefined, modelled as any position.  shootingSystem and   *)
(* tickBoss fire one bullet per reference, fireRadialBurst eight.          *)
(* Every entity the game makes has an MTransform.                          *)
(***************************************************************************)
EXTENDS Integers, FiniteSets

CONSTANTS
  LastShooter,       \* entities 0..LastShooter have an MTransform for good
  Places,            \* positions that are told apart
  BurstBullets,      \* the 8 directions of fireRadialBurst
  InitialEntities,   \* the capacity of the bag once the shooters are made:
                     \* bagel::InitialEntities, or what it has grown to
  MaxBullets         \* bound: bullets and explosions that exist at one time

(* The shooters have their cells, and a burst of 8 fits into a bag of 10.  *)
Sizes == /\ LastShooter \in Nat /\ BurstBullets \in Nat
         /\ InitialEntities \in Nat /\ MaxBullets \in Nat
         /\ LastShooter < InitialEntities
         /\ BurstBullets <= InitialEntities

Shooters == 0..LastShooter

VARIABLES
  place,       \* MTransform of the shooters
  live,        \* ids of the bullets and explosions
  maxId, recycled,          \* World::_maxId and the ids it can hand out again
  capacity, allocation,     \* the bag of SparseStorage<MTransform>
  burst,       \* bullets left to fire in fireRadialBurst's loop
  shooter, ref,             \* self and t: whose MTransform, of which allocation
  roomy,       \* history: when the burst began, its bullets had room in the bag
  startsAt, wanted          \* history: the last bullet's place, its shooter's

storeVars == <<live, maxId, recycled, capacity, allocation>>
burstVars == <<burst, shooter, ref, roomy>>
shotVars == <<startsAt, wanted>>
vars == <<place, storeVars, burstVars, shotVars>>

Init ==
  /\ place \in [Shooters -> Places]
  /\ live = {} /\ recycled = {}
  /\ maxId = LastShooter
  /\ capacity = InitialEntities /\ allocation = 0
  /\ burst = 0 /\ ref = 0 /\ shooter = LastShooter /\ roomy = TRUE
  /\ startsAt = place[LastShooter] /\ wanted = place[LastShooter]

-----------------------------------------------------------------------------
(* Reading through a reference.                                            *)
Read(s, r) == IF r = allocation THEN {place[s]} ELSE Places

(* World::createEntity: a recycled id, or the next one.                    *)
NewIds == IF recycled # {} THEN recycled ELSE {maxId + 1}

(* DynamicBag::ensure(ent.id + 1).                                         *)
Needed(id) == id + 1
Grown(id) == IF 2 * capacity > Needed(id) THEN 2 * capacity ELSE Needed(id)
Ensure(id) ==
  IF Needed(id) > capacity
    THEN /\ capacity' = Grown(id)
         /\ allocation' = allocation + 1
    ELSE UNCHANGED <<capacity, allocation>>

(* An entity and its MTransform.                                           *)
Create ==
  \E id \in NewIds :
    /\ live' = live \cup {id} /\ recycled' = recycled \ {id}
    /\ maxId' = IF id > maxId THEN id ELSE maxId
    /\ Ensure(id)

(* createProjectile(t.x, t.y, ...): the arguments are read, then the       *)
(* entity and its components are made.                                     *)
CreateProjectile(s, r) ==
  /\ startsAt' \in Read(s, r) /\ wanted' = place[s]
  /\ Create

(* shootingSystem and tickBoss: a reference of their own for every bullet. *)
Shoot(s) ==
  /\ burst = 0 /\ Cardinality(live) < MaxBullets
  /\ CreateProjectile(s, allocation)
  /\ UNCHANGED <<place, burstVars>>

(* healthSystem and bossAnimSystem: createExplosion copies its arguments.  *)
Explode ==
  /\ burst = 0 /\ Cardinality(live) < MaxBullets
  /\ Create
  /\ UNCHANGED <<place, burstVars, shotVars>>

(* The ids that n new entities get stay below the bag's capacity.          *)
RoomFor(n) == maxId + n - Cardinality(recycled) < capacity

(* tickPatroller calls fireRadialBurst with the reference it holds.        *)
BeginBurst(s) ==
  /\ burst = 0 /\ Cardinality(live) + BurstBullets <= MaxBullets
  /\ burst' = BurstBullets /\ shooter' = s /\ ref' = allocation
  /\ roomy' = RoomFor(BurstBullets)
  /\ UNCHANGED <<place, storeVars, shotVars>>

FireNext ==
  /\ burst > 0 /\ burst' = burst - 1
  /\ CreateProjectile(shooter, ref)
  /\ UNCHANGED <<place, shooter, ref, roomy>>

(* Any other system: the shooters move, bullets and explosions end.        *)
OtherSystems ==
  /\ burst = 0
  /\ place' \in [Shooters -> Places]
  /\ \E gone \in SUBSET live : /\ live' = live \ gone
                               /\ recycled' = recycled \cup gone
  /\ UNCHANGED <<maxId, capacity, allocation, burstVars, shotVars>>

Next == \/ \E s \in Shooters : Shoot(s) \/ BeginBurst(s)
        \/ FireNext \/ Explode \/ OtherSystems

Spec == Init /\ [][Next]_vars

-----------------------------------------------------------------------------
(* "Spawns 8 bullets ... from position t" (fireRadialBurst): so does every *)
(* bullet of a burst.                                                      *)
BurstStartsAtShooter == [][FireNext => startsAt' = wanted']_vars

(* What it does instead: a burst that begins with room for its bullets, the*)
(* ids it takes back included, has all of them start at the shooter.       *)
RoomyBurstIsRight == [][FireNext /\ roomy => startsAt' = wanted']_vars

(* A burst without that room makes the bag move, once: it moves to twice   *)
(* its size, and that is room enough for the rest.                         *)
BurstMovesBagOnce ==
  [][FireNext => /\ allocation' <= ref + 1
                 /\ burst = 1 => (allocation' = ref <=> roomy)]_vars

(* Ids come back, so the bag stays within twice the cells that the most    *)
(* entities ever alive at a time need, however many have come and gone.    *)
BagBounded ==
  \/ capacity = InitialEntities
  \/ capacity <= 2 * (LastShooter + MaxBullets)
=============================================================================
