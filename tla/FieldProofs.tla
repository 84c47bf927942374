---------------------------- MODULE FieldProofs -----------------------------
(***************************************************************************)
(* Theorems about Field, for any levels, speeds, ranges and numbers of     *)
(* enemies.                                                                *)
(***************************************************************************)
EXTENDS Field, SequenceTheorems, TLAPS

-----------------------------------------------------------------------------
(* A patroller's record, and how far it is from its path.                  *)
LEMMA TickPatrollerType ==
  ASSUME NEW p \in PatrollerType, NEW path \in [spawn : Int, min : Int, max : Int],
         NEW near
  PROVE  TickPatroller(p, path, near) \in PatrollerType
<1> USE PatrolAssumption DEF PatrollerType
<1>1. PatrolVelocity(p, path, near) \in {0, PatrolSpeed, -PatrolSpeed}
  BY DEF PatrolVelocity
<1>2. HeadsRight(p, path) \in BOOLEAN
  BY DEF HeadsRight
<1>3. \A n \in Nat : Less(n) \in Nat /\ Less(n) <= n
  BY DEF Less
<1> DEFINE q == TickPatroller(p, path, near)
<1>4. q.body \in Int /\ q.at \in Int
  BY <1>1 DEF TickPatroller
<1>5. q.right \in BOOLEAN /\ q.fired \in BOOLEAN
  BY <1>2 DEF TickPatroller
<1>6. q.burst \in 0..BurstFrames
  BY DEF TickPatroller, InBurst
<1>7. q.cool \in 0..BurstCooldown /\ q.freeze \in Nat
  BY <1>3 DEF TickPatroller
<1> QED
  BY <1>4, <1>5, <1>6, <1>7 DEF TickPatroller

(* A frozen or firing patroller stands, and where it is, its next place is *)
(* one step ahead: the two together stay near the path.                    *)
OnPath(p, path) ==
  /\ Within(p.at, path) /\ Within(p.body, path)
  /\ p.body - p.at \in {0, PatrolSpeed, -PatrolSpeed}

LEMMA TickStaysOnPath ==
  ASSUME NEW p \in PatrollerType, NEW path \in [spawn : Int, min : Int, max : Int],
         NEW near, path.min <= path.max, OnPath(p, path)
  PROVE  OnPath(TickPatroller(p, path, near), path)
<1> DEFINE v == PatrolVelocity(p, path, near)
           q == TickPatroller(p, path, near)
<1> USE PatrolAssumption
<1>1. q.at = p.body /\ q.body = p.body + v
  BY DEF TickPatroller
<1>2. p.at \in Int /\ p.body \in Int /\ path.min \in Int /\ path.max \in Int
  BY DEF PatrollerType
<1>3. \/ v = 0
      \/ v = PatrolSpeed /\ p.at <= path.max
      \/ v = -PatrolSpeed /\ path.min < p.at
  BY <1>2 DEF PatrolVelocity, HeadsRight
<1> HIDE DEF v, q
<1>4. /\ Within(p.at, path) /\ Within(p.body, path)
      /\ p.at - PatrolSpeed <= p.body /\ p.body <= p.at + PatrolSpeed
  BY <1>2 DEF OnPath
<1>5. Within(q.at, path) /\ Within(q.body, path)
  BY <1>1, <1>2, <1>3, <1>4 DEF Within
<1>6. q.body - q.at = v
  BY <1>1, <1>2, <1>3
<1> QED
  BY <1>3, <1>5, <1>6 DEF OnPath, q

LEMMA CreatedOnPath ==
  ASSUME NEW path \in [spawn : Int, min : Int, max : Int],
         path.min <= path.max, path.spawn \in {path.min, path.max}
  PROVE  /\ CreatePatroller(path) \in PatrollerType
         /\ OnPath(CreatePatroller(path), path)
<1> DEFINE p == CreatePatroller(path)
<1>1. p \in PatrollerType
  BY PatrolAssumption DEF CreatePatroller, PatrollerType
<1>2. p.at = path.spawn /\ p.body = path.spawn
  BY DEF CreatePatroller
<1> HIDE DEF p
<1>3. p.body - p.at = 0
  BY <1>2
<1>4. Within(path.spawn, path)
  BY PatrolAssumption DEF Within
<1> QED
  BY <1>1, <1>2, <1>3, <1>4 DEF OnPath, p

LEMMA FreezeKeeps ==
  ASSUME NEW hit
  PROVE  /\ \A p \in PatrollerType :
              /\ Freeze(p, hit) \in PatrollerType
              /\ Freeze(p, hit).at = p.at /\ Freeze(p, hit).body = p.body
         /\ \A l \in LocksterType : Freeze(l, hit) \in LocksterType
BY FieldAssumption DEF Freeze, PatrollerType, LocksterType

(* A Lockster's record.                                                    *)
LEMMA TickLocksterType ==
  ASSUME NEW l \in LocksterType, NEW x \in Int, NEW inRange, NEW moved \in Int
  PROVE  TickLockster(l, x, inRange, moved) \in LocksterType
<1> USE ChargeAssumption DEF LocksterType
<1>1. NextAlert(l, inRange) \in 0..AlertTicks
  BY DEF NextAlert, Charging, Unfrozen
<1> DEFINE m == TickLockster(l, x, inRange, moved)
<1>2. m.body \in Int /\ m.at \in Int /\ m.alert \in 0..AlertTicks
  BY <1>1 DEF TickLockster
<1>3. m.target \in Int
  BY DEF TickLockster
<1>4. m.freeze \in Nat
  BY DEF TickLockster, Unfrozen
<1> QED
  BY <1>2, <1>3, <1>4 DEF TickLockster

-----------------------------------------------------------------------------
(* What the proofs use of a level.                                         *)
LEMMA LevelFacts ==
  ASSUME level \in Levels
  PROVE  /\ level.left \in Int /\ level.right \in Int /\ level.left <= level.right
         /\ 1 \in DOMAIN level.spawns
         /\ \A i \in DOMAIN level.spawns : level.spawns[i] \in Int
         /\ \A p \in DOMAIN level.paths :
              /\ level.paths[p] \in [spawn : Int, min : Int, max : Int]
              /\ level.paths[p].min <= level.paths[p].max
              /\ level.paths[p].spawn \in {level.paths[p].min, level.paths[p].max}
         /\ \A l \in DOMAIN level.nests : level.nests[l] \in Int
<1>1. /\ level.left \in Int /\ level.right \in Int /\ level.left <= level.right
      /\ level.spawns \in Seq(Int) /\ level.spawns # <<>>
      /\ level.paths \in Seq([spawn : Int, min : Int, max : Int])
      /\ level.nests \in Seq(Int)
  BY LevelAssumption
<1>2. \A p \in DOMAIN level.paths :
        /\ level.paths[p].min <= level.paths[p].max
        /\ level.paths[p].spawn \in {level.paths[p].min, level.paths[p].max}
  BY LevelAssumption
<1>3. 1 \in DOMAIN level.spawns
  BY <1>1, EmptySeq, LenProperties
<1>4. ASSUME NEW S, NEW s \in Seq(S), NEW i \in DOMAIN s PROVE s[i] \in S
  BY <1>4, ElementOfSeq, LenProperties
<1>5. /\ \A i \in DOMAIN level.spawns : level.spawns[i] \in Int
      /\ \A l \in DOMAIN level.nests : level.nests[l] \in Int
  BY <1>1, <1>4
<1>6. \A p \in DOMAIN level.paths :
        level.paths[p] \in [spawn : Int, min : Int, max : Int]
  BY <1>1, <1>4
<1> QED
  BY <1>1, <1>2, <1>3, <1>5, <1>6

(* The player, its checkpoint and the camera.                              *)
PlayerOK ==
  /\ body \in Int /\ at \in Int /\ cam \in Int /\ checkpoint \in Int
  /\ height \in Heights /\ passed \subseteq Int /\ down \in 0..FlickerTicks

PatrollersOK ==
  /\ Live(patrollers) \subseteq DOMAIN level.paths
  /\ patrollers \in [Live(patrollers) -> PatrollerType]
  /\ \A p \in Live(patrollers) : OnPath(patrollers[p], level.paths[p])

LockstersOK ==
  /\ Live(locksters) \subseteq DOMAIN level.nests
  /\ locksters \in [Live(locksters) -> LocksterType]

FieldInv ==
  /\ level \in Levels
  /\ PlayerOK /\ CheckpointIsRightmost /\ PatrollersOK /\ LockstersOK
  /\ shots \subseteq [at : Int, v : Int]

LEMMA ClampedInt ==
  ASSUME level \in Levels, NEW x \in Int PROVE Clamped(x) \in Int
BY LevelFacts, FieldAssumption DEF Clamped

LEMMA FieldInitial == Init => FieldInv
<1> SUFFICES ASSUME Init PROVE FieldInv
  OBVIOUS
<1>1. level \in Levels /\ 1 \in DOMAIN level.spawns /\ level.spawns[1] \in Int
  BY LevelFacts DEF Init
<1>2. PlayerOK /\ CheckpointIsRightmost
  BY <1>1, FieldAssumption DEF Init, PlayerOK, CheckpointIsRightmost
<1>3. PatrollersOK
  BY <1>1, LevelFacts, CreatedOnPath DEF Init, PatrollersOK, Live
<1>4. LockstersOK
  BY <1>1, LevelFacts, ChargeAssumption
  DEF Init, LockstersOK, Live, CreateLockster, LocksterType
<1> QED
  BY <1>1, <1>2, <1>3, <1>4 DEF FieldInv, Init

-----------------------------------------------------------------------------
(* One step per part of a frame.                                           *)
LEMMA CheckpointStep ==
  ASSUME level \in Levels, PlayerOK, CheckpointIsRightmost, Checkpoint
  PROVE  checkpoint' \in Int /\ passed' \subseteq Int /\ CheckpointIsRightmost'
<1>1. PlayerSpawns \subseteq Int
  BY LevelFacts DEF PlayerSpawns
<1>2. /\ checkpoint' \in {checkpoint} \cup Crossed(body)
      /\ \A c \in {checkpoint} \cup Crossed(body) : c <= checkpoint'
      /\ passed' = passed \cup Crossed(body) /\ Crossed(body) \subseteq Int
  BY <1>1 DEF Checkpoint, Crossed
<1>3. checkpoint \in passed /\ passed \subseteq Int /\ \A c \in passed : c <= checkpoint
  BY DEF PlayerOK, CheckpointIsRightmost
<1>4. checkpoint' \in passed' /\ passed' \subseteq Int
  BY <1>2, <1>3
<1>5. \A c \in passed' : c <= checkpoint'
  BY <1>2, <1>3, <1>4
<1> QED
  BY <1>4, <1>5 DEF CheckpointIsRightmost

LEMMA PlayerStep ==
  ASSUME PlayerOK, checkpoint' \in Int, NEW moved \in Strides, NEW dies \in BOOLEAN,
         Player(moved, dies)
  PROVE  /\ body' \in Int /\ at' \in Int
         /\ height' \in Heights /\ down' \in 0..FlickerTicks
BY FieldAssumption DEF Player, PlayerOK, Less

LEMMA PatrollersStep ==
  ASSUME level \in Levels, PatrollersOK, level' = level,
         NEW hit, NEW killed, Patrollers(hit, killed)
  PROVE  PatrollersOK'
<1> DEFINE q(p) == IF Revives THEN ResetPatroller(patrollers[p], level.paths[p])
                   ELSE Freeze(TickPatroller(patrollers[p], level.paths[p], Near(p)), hit)
<1>1. ASSUME NEW p \in Live(patrollers)
      PROVE  q(p) \in PatrollerType /\ OnPath(q(p), level.paths[p])
  <2>1. /\ p \in DOMAIN level.paths /\ patrollers[p] \in PatrollerType
        /\ OnPath(patrollers[p], level.paths[p])
    BY DEF PatrollersOK
  <2>2. /\ level.paths[p] \in [spawn : Int, min : Int, max : Int]
        /\ level.paths[p].min <= level.paths[p].max
        /\ level.paths[p].spawn \in {level.paths[p].min, level.paths[p].max}
    BY <2>1, LevelFacts
  <2>3. CASE Revives
    BY <2>2, <2>3, CreatedOnPath DEF ResetPatroller
  <2>4. CASE ~Revives
    <3> DEFINE t == TickPatroller(patrollers[p], level.paths[p], Near(p))
    <3>1. t \in PatrollerType /\ OnPath(t, level.paths[p])
      BY <2>1, <2>2, TickPatrollerType, TickStaysOnPath
    <3> HIDE DEF t
    <3>2. /\ Freeze(t, hit) \in PatrollerType /\ Freeze(t, hit).at = t.at
          /\ Freeze(t, hit).body = t.body
      BY <3>1, FreezeKeeps
    <3>3. OnPath(Freeze(t, hit), level.paths[p])
      BY <3>1, <3>2 DEF OnPath
    <3> QED
      BY <2>4, <3>2, <3>3 DEF t
  <2> QED
    BY <2>3, <2>4
<1>2. patrollers' = [p \in Live(patrollers) \ killed |-> q(p)]
  BY DEF Patrollers
<1> HIDE DEF q
<1> QED
  BY <1>1, <1>2 DEF PatrollersOK, Live

LEMMA LockstersStep ==
  ASSUME level \in Levels, PlayerOK, LockstersOK, level' = level, NEW hit, NEW killed,
         NEW moved, \A l \in Live(locksters) : moved[l] \in Moves(l),
         Locksters(hit, killed, moved)
  PROVE  LockstersOK'
<1> DEFINE live == Live(locksters) \ killed
<1>1. CASE /\ Revives
           /\ \E back \in SUBSET (DOMAIN level.nests \ live) :
                locksters' = [l \in live \cup back |-> CreateLockster(level.nests[l])]
  <2>1. PICK back \in SUBSET (DOMAIN level.nests \ live) :
          locksters' = [l \in live \cup back |-> CreateLockster(level.nests[l])]
    BY <1>1
  <2>2. live \cup back \subseteq DOMAIN level.nests
    BY DEF LockstersOK
  <2>3. \A l \in DOMAIN level.nests : CreateLockster(level.nests[l]) \in LocksterType
    BY LevelFacts, ChargeAssumption DEF CreateLockster, LocksterType
  <2> HIDE DEF live
  <2> QED
    BY <2>1, <2>2, <2>3 DEF LockstersOK, Live
<1>2. CASE /\ ~Revives
           /\ locksters' =
                [l \in live |->
                   Freeze(TickLockster(locksters[l], at, InRange(l), moved[l]), hit)]
  <2>1. ASSUME NEW l \in live
        PROVE  Freeze(TickLockster(locksters[l], at, InRange(l), moved[l]), hit)
                 \in LocksterType
    <3>1. l \in Live(locksters) /\ locksters[l] \in LocksterType
      BY DEF LockstersOK
    <3>2. moved[l] \in Int
      <4>1. ChargeVelocity(locksters[l]) \in Int
        BY ChargeAssumption DEF ChargeVelocity
      <4>2. moved[l] \in {ChargeVelocity(locksters[l])} \cup Knocks
        BY <3>1 DEF Moves
      <4> QED
        BY <4>1, <4>2, FieldAssumption
    <3> DEFINE t == TickLockster(locksters[l], at, InRange(l), moved[l])
    <3>3. t \in LocksterType
      BY <3>1, <3>2, TickLocksterType DEF PlayerOK
    <3> QED
      BY <3>3, FreezeKeeps
  <2>2. live \subseteq DOMAIN level.nests
    BY DEF LockstersOK
  <2> HIDE DEF live
  <2> QED
    BY <1>2, <2>1, <2>2 DEF LockstersOK, Live
<1> QED
  BY <1>1, <1>2 DEF Locksters

LEMMA ShotsStep ==
  ASSUME PlayerOK, PatrollersOK, shots \subseteq [at : Int, v : Int],
         NEW dies, Shots(dies)
  PROVE  shots' \subseteq [at : Int, v : Int]
<1>1. {Flown(s) : s \in shots} \subseteq [at : Int, v : Int]
  BY DEF Flown
<1>2. PlayerShots \subseteq [at : Int, v : Int]
  BY FieldAssumption DEF PlayerShots, PlayerOK
<1>3. BurstShots \subseteq [at : Int, v : Int]
  BY FieldAssumption DEF BurstShots, PatrollersOK, PatrollerType
<1> QED
  BY <1>1, <1>2, <1>3 DEF Shots, Fired

LEMMA FieldStep ==
  ASSUME FieldInv, [Next]_vars PROVE FieldInv'
<1> USE DEF FieldInv
<1>1. CASE Next
  <2>1. PICK moved \in Strides, hit \in BOOLEAN, dies \in BOOLEAN,
             fallen \in SUBSET Live(patrollers), lost \in SUBSET Live(locksters),
             knocked \in [Live(locksters) -> UNION {Moves(l) : l \in Live(locksters)}] :
          /\ \A l \in Live(locksters) : knocked[l] \in Moves(l)
          /\ Checkpoint /\ Player(moved, dies) /\ Camera
          /\ Patrollers(hit, fallen) /\ Locksters(hit, lost, knocked)
          /\ Shots(dies)
          /\ UNCHANGED level
    BY <1>1 DEF Next, Frame
  <2>2. level' \in Levels
    BY <2>1
  <2>3. checkpoint' \in Int /\ passed' \subseteq Int /\ CheckpointIsRightmost'
    BY <2>1, CheckpointStep
  <2>4. /\ body' \in Int /\ at' \in Int
        /\ height' \in Heights /\ down' \in 0..FlickerTicks
    BY <2>1, <2>3, PlayerStep
  <2>5. cam' \in Int
    BY <2>1, ClampedInt DEF Camera, Followed, PlayerOK
  <2>6. PlayerOK'
    BY <2>3, <2>4, <2>5 DEF PlayerOK
  <2>7. PatrollersOK'
    BY <2>1, PatrollersStep
  <2>8. LockstersOK'
    BY <2>1, LockstersStep
  <2>9. shots' \subseteq [at : Int, v : Int]
    BY <2>1, ShotsStep
  <2> QED
    BY <2>2, <2>3, <2>6, <2>7, <2>8, <2>9
<1>2. CASE UNCHANGED vars
  BY <1>2 DEF vars, playerVars, PlayerOK, CheckpointIsRightmost, PatrollersOK,
              LockstersOK, Live
<1> QED
  BY <1>1, <1>2

LEMMA FieldCorrect == Spec => []FieldInv
<1>1. FieldInv /\ [Next]_vars => FieldInv'
  BY FieldStep
<1> QED
  BY <1>1, FieldInitial, PTL DEF Spec

-----------------------------------------------------------------------------
(* Every variable of a frame keeps its type: timers stay within their      *)
(* bounds, and enemies are those of the level.                             *)
THEOREM TypeCorrect == Spec => []TypeOK
<1>1. FieldInv => TypeOK
  BY DEF FieldInv, TypeOK, PlayerOK, PatrollersOK, LockstersOK
<1> QED
  BY <1>1, FieldCorrect, PTL

(* No patroller gets further than two steps from its path, for any paths,  *)
(* freezes, bursts and respawns.                                           *)
THEOREM PatrollersStayBounded == Spec => []PatrolBounded
<1>1. FieldInv => PatrolBounded
  BY DEF FieldInv, PatrollersOK, PatrolBounded, OnPath
<1> QED
  BY <1>1, FieldCorrect, PTL

(* The player's checkpoint is the rightmost spawn it has passed, in        *)
(* whatever order the map lists them.                                      *)
THEOREM CheckpointCorrect == Spec => []CheckpointIsRightmost
<1>1. FieldInv => CheckpointIsRightmost
  BY DEF FieldInv
<1> QED
  BY <1>1, FieldCorrect, PTL

(* The clamped view holds every point of the map it is asked to follow,    *)
(* and shows nothing but the map, or all of it.                            *)
LEMMA ClampedView ==
  ASSUME level \in Levels, NEW x \in Int
  PROVE  /\ level.left <= x /\ x <= level.right =>
              Clamped(x) - HalfView <= x /\ x <= Clamped(x) + HalfView
         /\ \/ /\ Clamped(x) - HalfView <= level.left
               /\ level.right <= Clamped(x) + HalfView
            \/ /\ level.left <= Clamped(x) - HalfView
               /\ Clamped(x) + HalfView <= level.right
<1> DEFINE first == level.left + HalfView
           last  == level.right - HalfView
           c     == (level.left + level.right) \div 2
<1>1. /\ level.left \in Int /\ level.right \in Int /\ level.left <= level.right
      /\ HalfView \in Nat
  BY LevelFacts, FieldAssumption
<1>2. CASE first > last
  <2>1. Clamped(x) = c
    BY <1>2 DEF Clamped
  <2>2. c \in Int /\ 2 * c <= level.left + level.right
        /\ level.left + level.right <= 2 * c + 1
    BY <1>1
  <2> HIDE DEF c
  <2>3. c - HalfView <= level.left /\ level.right <= c + HalfView
    BY <1>1, <1>2, <2>2
  <2> QED
    BY <1>1, <2>1, <2>2, <2>3
<1>3. CASE first <= last
  <2>1. Clamped(x) = IF x < first THEN first ELSE IF x > last THEN last ELSE x
    BY <1>1, <1>3 DEF Clamped
  <2> QED
    BY <1>1, <1>3, <2>1
<1> QED
  BY <1>1, <1>2, <1>3

(* The view holds the player as it is drawn and stays inside the map, in   *)
(* every frame but the one in which the player is put back.                *)
THEOREM PlayerStaysInView == Spec => PlayerInView
<1> DEFINE A == /\ ~Revives /\ level.left <= at' /\ at' <= level.right => InView(at)'
                /\ \/ InView(level.left)' /\ InView(level.right)'
                   \/ level.left <= cam' - HalfView /\ cam' + HalfView <= level.right
<1>1. FieldInv /\ [Next]_vars => [A]_vars
  <2> SUFFICES ASSUME FieldInv, Next PROVE A
    OBVIOUS
  <2>1. /\ cam' = Clamped(body) /\ level' = level
        /\ at' = IF Revives THEN checkpoint' ELSE body
    BY DEF Next, Frame, Player, Camera, Followed
  <2>2. level \in Levels /\ body \in Int
    BY DEF FieldInv, PlayerOK
  <2>3. /\ level.left \in Int /\ level.right \in Int /\ level.left <= level.right
        /\ HalfView \in Nat /\ Clamped(body) \in Int
    BY <2>2, LevelFacts, ClampedInt, FieldAssumption
  <2>4. /\ level.left <= body /\ body <= level.right =>
             Clamped(body) - HalfView <= body /\ body <= Clamped(body) + HalfView
        /\ \/ /\ Clamped(body) - HalfView <= level.left
              /\ level.right <= Clamped(body) + HalfView
           \/ /\ level.left <= Clamped(body) - HalfView
              /\ Clamped(body) + HalfView <= level.right
    BY <2>2, ClampedView
  <2> DEFINE view == Clamped(body)
  <2>5. cam' = view /\ view \in Int
    BY <2>1, <2>3
  <2> HIDE DEF view
  <2> QED
    BY <2>1, <2>3, <2>4, <2>5 DEF InView, view
<1> QED
  BY <1>1, FieldCorrect, PTL DEF Spec, PlayerInView

(* After the player is put back there is a Lockster at rest near every     *)
(* Lockster spawn, whichever were dead and however close the spawns are.   *)
THEOREM LockstersComeBack == Spec => LockstersBack
<1> DEFINE Back(l) ==
      \E k \in Live(locksters') :
        /\ Close(k, l)
        /\ locksters'[k].at = level.nests[k] /\ ~Charging(locksters'[k])
<1> DEFINE A == Revives => \A l \in DOMAIN level.nests : Back(l)
<1>1. FieldInv /\ [Next]_vars => [A]_vars
  <2> SUFFICES ASSUME FieldInv, Next, Revives, NEW l \in DOMAIN level.nests
               PROVE  Back(l)
    OBVIOUS
  <2>1. PICK hit \in BOOLEAN, killed \in SUBSET Live(locksters),
            moved \in [Live(locksters) -> UNION {Moves(i) : i \in Live(locksters)}] :
          Locksters(hit, killed, moved)
    BY DEF Next, Frame
  <2> DEFINE live == Live(locksters) \ killed
  <2>2. PICK back \in SUBSET (DOMAIN level.nests \ live) :
          /\ Recreated(live, back)
          /\ locksters' = [k \in live \cup back |-> CreateLockster(level.nests[k])]
    BY <2>1 DEF Locksters
  <2>3. Live(locksters') = live \cup back
    BY <2>2 DEF Live
  <2>4. PICK k \in live \cup back : Close(k, l)
    <3>1. level.nests[l] \in Int
      BY LevelFacts DEF FieldInv
    <3>2. Close(l, l)
      BY <3>1, FieldAssumption DEF Close
    <3> QED
      BY <2>2, <3>2 DEF Recreated
  <2>5. locksters'[k].at = level.nests[k] /\ locksters'[k].alert = 0
    BY <2>2 DEF CreateLockster
  <2>6. ~Charging(locksters'[k])
    BY <2>5, ChargeAssumption DEF Charging
  <2> QED
    BY <2>3, <2>4, <2>5, <2>6
<1> QED
  BY <1>1, FieldCorrect, PTL DEF Spec, LockstersBack

-----------------------------------------------------------------------------
(* A point that is passed in a step shorter than the window around it is   *)
(* seen from inside the window at one end of the step.                     *)
LEMMA WindowIsSeen ==
  ASSUME NEW from \in Int, NEW to \in Int, NEW mark \in Int,
         NEW step \in Nat, NEW tol \in Nat, step < 2 * tol,
         -step <= to - from, to - from <= step, Passes(from, to, mark)
  PROVE  \/ -2 * tol < 2 * from - mark /\ 2 * from - mark < 2 * tol
         \/ -2 * tol < 2 * to - mark /\ 2 * to - mark < 2 * tol
BY DEF Passes

LEMMA FrozenRest ==
  ASSUME NEW p \in PatrollerType, NEW hit
  PROVE  Freeze(p, hit).burst = p.burst /\ Freeze(p, hit).at = p.at
BY DEF Freeze, PatrollerType

(* No patroller passes the center of its path between two looks without a  *)
(* look from inside the window, for any path, burst and freeze.            *)
THEOREM CenterIsNeverMissed == Spec => NoCenterMissed
<1> DEFINE A == ~Revives => \A p \in Live(patrollers) \cap Live(patrollers') :
                              CenterSeen(p)
<1>1. FieldInv /\ [Next]_vars => [A]_vars
  <2> SUFFICES ASSUME FieldInv, Next, ~Revives,
                      NEW p \in Live(patrollers) \cap Live(patrollers')
               PROVE  CenterSeen(p)
    OBVIOUS
  <2> DEFINE path == level.paths[p]
             q == patrollers[p]
             t == TickPatroller(q, path, Near(p))
  <2>1. PICK hit \in BOOLEAN, killed \in SUBSET Live(patrollers) :
          Patrollers(hit, killed)
    BY DEF Next, Frame
  <2>2. /\ q \in PatrollerType /\ OnPath(q, path) /\ p \in DOMAIN level.paths
        /\ path \in [spawn : Int, min : Int, max : Int]
    BY LevelFacts DEF FieldInv, PatrollersOK
  <2>3. t \in PatrollerType
    BY <2>2, TickPatrollerType
  <2>4. patrollers'[p] = Freeze(t, hit)
    BY <2>1 DEF Patrollers, Live
  <2>5. patrollers'[p].at = t.at /\ patrollers'[p].burst = t.burst
    BY <2>3, <2>4, FrozenRest
  <2>6. t.at = q.body
    BY DEF TickPatroller
  <2>7. Ready(p) /\ AtCenter(q, path) => t.burst = BurstFrames
    BY DEF Ready, TickPatroller, Starts
  <2>8. q.at \in Int /\ q.body \in Int /\ path.min + path.max \in Int
    BY <2>2 DEF PatrollerType
  <2>9. -PatrolSpeed <= q.body - q.at /\ q.body - q.at <= PatrolSpeed
    BY <2>2, <2>8, PatrolAssumption DEF OnPath
  <2> HIDE DEF q, t
  <2>10. ASSUME Passes(q.at, q.body, path.min + path.max)
         PROVE  AtCenter(q, path) \/ AtCenter(patrollers'[p], path)
    <3> DEFINE mark == path.min + path.max
    <3>1. /\ PatrolSpeed \in Nat /\ CenterTol \in Nat /\ PatrolSpeed < 2 * CenterTol
      BY PatrolAssumption
    <3> HIDE DEF path
    <3>2. \/ -2 * CenterTol < 2 * q.at - mark /\ 2 * q.at - mark < 2 * CenterTol
          \/ -2 * CenterTol < 2 * q.body - mark /\ 2 * q.body - mark < 2 * CenterTol
      BY <2>8, <2>9, <2>10, <3>1, WindowIsSeen
    <3> QED
      BY <2>5, <2>6, <3>2 DEF AtCenter
  <2> QED
    BY <2>5, <2>6, <2>7, <2>10 DEF CenterSeen, q
<1> QED
  BY <1>1, FieldCorrect, PTL DEF Spec, NoCenterMissed

(* No charging Lockster gets past its target between two looks without a   *)
(* look from inside the window, and that look ends the charge.             *)
THEOREM TargetIsNeverMissed == Spec => NoTargetMissed
<1> DEFINE A == ~Revives => \A l \in Live(locksters) \cap Live(locksters') :
                              TargetSeen(l)
<1>1. FieldInv /\ [Next]_vars => [A]_vars
  <2> SUFFICES ASSUME FieldInv, Next, ~Revives,
                      NEW l \in Live(locksters) \cap Live(locksters'),
                      Unfrozen(locksters[l]), Charging(locksters[l]), OwnStride(l),
                      Passes(locksters[l].at, locksters'[l].at, 2 * locksters[l].target),
                      ~Reached(locksters[l])
               PROVE  Reached(locksters'[l])
    <3>1. ASSUME FieldInv, Next, ~Revives,
                 NEW l \in Live(locksters) \cap Live(locksters'),
                 Unfrozen(locksters[l]), Charging(locksters[l]), Reached(locksters[l])
          PROVE  locksters'[l].alert = 0
      <4>1. PICK hit \in BOOLEAN, killed \in SUBSET Live(locksters), moved \in
                   [Live(locksters) -> UNION {Moves(i) : i \in Live(locksters)}] :
              Locksters(hit, killed, moved)
        BY <3>1 DEF Next, Frame
      <4> DEFINE t == TickLockster(locksters[l], at, InRange(l), moved[l])
      <4>2. locksters'[l] = Freeze(t, hit)
        BY <3>1, <4>1 DEF Locksters, Live
      <4>3. t.alert = 0
        BY <3>1 DEF TickLockster, NextAlert
      <4> QED
        BY <4>2, <4>3 DEF Freeze, TickLockster
    <3> QED
      BY <3>1 DEF TargetSeen
  <2>1. PICK hit \in BOOLEAN, killed \in SUBSET Live(locksters), moved \in
               [Live(locksters) -> UNION {Moves(i) : i \in Live(locksters)}] :
          Locksters(hit, killed, moved)
    BY DEF Next, Frame
  <2> DEFINE m == locksters[l]
             t == TickLockster(m, at, InRange(l), moved[l])
  <2>2. m \in LocksterType
    BY DEF FieldInv, LockstersOK
  <2>3. locksters'[l] = Freeze(t, hit)
    BY <2>1 DEF Locksters, Live
  <2>4. t.at = m.body /\ t.target = m.target
    BY <2>2, ChargeAssumption DEF TickLockster, Locks, NextAlert, Charging, LocksterType
  <2>5. locksters'[l].at = m.body /\ locksters'[l].target = m.target
    BY <2>3, <2>4 DEF Freeze, TickLockster
  <2>6. m.at \in Int /\ m.body \in Int /\ m.target \in Int
    BY <2>2 DEF LocksterType
  <2> DEFINE mark == 2 * m.target
  <2>7. /\ mark \in Int /\ Passes(m.at, m.body, mark)
        /\ -ChargeSpeed <= m.body - m.at /\ m.body - m.at <= ChargeSpeed
        /\ ~(-Reach < m.at - m.target /\ m.at - m.target < Reach)
    BY <2>5, <2>6 DEF OwnStride, Reached
  <2> HIDE DEF m
  <2>8. /\ ChargeSpeed \in Nat /\ Reach \in Nat /\ ChargeSpeed < 2 * Reach
    BY ChargeAssumption
  <2>9. \/ -2 * Reach < 2 * m.at - mark /\ 2 * m.at - mark < 2 * Reach
        \/ -2 * Reach < 2 * m.body - mark /\ 2 * m.body - mark < 2 * Reach
    BY <2>6, <2>7, <2>8, WindowIsSeen
  <2>10. -Reach < m.body - m.target /\ m.body - m.target < Reach
    BY <2>6, <2>7, <2>8, <2>9
  <2> QED
    BY <2>5, <2>10 DEF Reached
<1> QED
  BY <1>1, FieldCorrect, PTL DEF Spec, NoTargetMissed

(* Patrollers and Locksters never step over what they look for.            *)
THEOREM MarksAreNeverMissed == Spec => MarksNotMissed
  BY CenterIsNeverMissed, TargetIsNeverMissed DEF MarksNotMissed

-----------------------------------------------------------------------------
(* The clamp never carries the view further than what it follows goes.     *)
LEMMA ClampedStride ==
  ASSUME level \in Levels, NEW x \in Int, NEW y \in Int, NEW n \in Nat,
         -n <= y - x, y - x <= n
  PROVE  -n <= Clamped(y) - Clamped(x) /\ Clamped(y) - Clamped(x) <= n
<1> DEFINE first == level.left + HalfView
           last  == level.right - HalfView
           c     == (level.left + level.right) \div 2
<1>1. first \in Int /\ last \in Int /\ c \in Int
  BY LevelFacts, FieldAssumption
<1>2. \A z \in Int :
        Clamped(z) = IF first > last THEN c
                     ELSE IF z < first THEN first ELSE IF z > last THEN last ELSE z
  BY DEF Clamped
<1> HIDE DEF first, last, c
<1>3. CASE first > last
  BY <1>1, <1>2, <1>3
<1>4. CASE first <= last
  BY <1>1, <1>2, <1>4
<1> QED
  BY <1>1, <1>3, <1>4

(* A bullet faster than the player gains on the view, so it is not carried *)
(* along for ever: what is left of the way to ShotsLeave is that frames go *)
(* on and that the player's strides stay shorter than the bullet's.        *)
THEOREM BulletsGainOnTheView == Spec => ShotsGain
<1> DEFINE A == ~Revives /\ cam = Clamped(at) =>
                  \A s \in shots : Outruns(s) /\ Flown(s) \in shots'
                                     => Ahead(Flown(s), cam') > Ahead(s, cam)
<1>1. FieldInv /\ [Next]_vars => [A]_vars
  <2> SUFFICES ASSUME FieldInv, Next, cam = Clamped(at), NEW s \in shots, Outruns(s)
               PROVE  Ahead(Flown(s), cam') > Ahead(s, cam)
    OBVIOUS
  <2>1. cam' = Clamped(body)
    BY DEF Next, Frame, Camera, Followed
  <2>2. level \in Levels /\ body \in Int /\ at \in Int /\ s \in [at : Int, v : Int]
    BY DEF FieldInv, PlayerOK
  <2> DEFINE from == Clamped(at)
             to == Clamped(body)
  <2>3. from \in Int /\ to \in Int
    BY <2>2, ClampedInt
  <2>4. Flown(s).at = s.at + s.v /\ Flown(s).v = s.v /\ s.at \in Int /\ s.v \in Int
    BY <2>2 DEF Flown
  <2>a. /\ s.v > 0 => /\ Ahead(Flown(s), cam') = s.at + s.v - to
                      /\ Ahead(s, cam) = s.at - from
        /\ ~(s.v > 0) => /\ Ahead(Flown(s), cam') = to - (s.at + s.v)
                         /\ Ahead(s, cam) = from - s.at
    <3>1. cam = from /\ cam' = to
      BY <2>1
    <3> DEFINE f == Flown(s)
    <3>2. f.at = s.at + s.v /\ f.v = s.v
      BY <2>4
    <3> HIDE DEF from, to, f
    <3>3. /\ s.v > 0 => Ahead(f, to) = s.at + s.v - to /\ Ahead(s, from) = s.at - from
          /\ ~(s.v > 0) => /\ Ahead(f, to) = to - (s.at + s.v)
                           /\ Ahead(s, from) = from - s.at
      BY <2>3, <2>4, <3>2 DEF Ahead
    <3> QED
      BY <3>1, <3>3 DEF f
  <2>5. CASE s.v > 0
    <3>1. s.v - 1 \in Nat /\ -(s.v - 1) <= body - at /\ body - at <= s.v - 1
      BY <2>2, <2>4, <2>5 DEF Outruns
    <3>2. to - from <= s.v - 1
      BY <2>2, <3>1, ClampedStride
    <3> HIDE DEF from, to
    <3>3. s.at + s.v - to > s.at - from
      BY <2>3, <2>4, <3>2
    <3> QED
      BY <2>a, <2>5, <3>3 DEF from, to
  <2>6. CASE ~(s.v > 0)
    <3>1. -s.v - 1 \in Nat /\ -(-s.v - 1) <= body - at /\ body - at <= -s.v - 1
      BY <2>2, <2>4, <2>6 DEF Outruns
    <3>2. -(-s.v - 1) <= to - from
      BY <2>2, <3>1, ClampedStride
    <3> HIDE DEF from, to
    <3>3. to - (s.at + s.v) > from - s.at
      BY <2>3, <2>4, <3>2
    <3> QED
      BY <2>a, <2>6, <3>3 DEF from, to
  <2> QED
    BY <2>5, <2>6
<1> QED
  BY <1>1, FieldCorrect, PTL DEF Spec, ShotsGain
=============================================================================
