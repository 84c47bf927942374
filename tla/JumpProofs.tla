----------------------------- MODULE JumpProofs -----------------------------
(***************************************************************************)
(* Theorems about jumpSystem, for every frame time, coyote time and buffer *)
(* time.                                                                   *)
(***************************************************************************)
EXTENDS Jump, TLAPS

LEMMA RunDownRange ==
  ASSUME NEW limit \in Nat, NEW time \in 0..limit
  PROVE  RunDown(time) \in 0..limit
  BY JumpAssumption DEF RunDown

(* One frame further off the ground is one Dt more.                        *)
LEMMA NextFrame ==
  ASSUME NEW n \in Nat PROVE (n + 1) * Dt = n * Dt + Dt
  BY JumpAssumption

-----------------------------------------------------------------------------
(* The timers and the frame count are what they should be.                 *)
Counters == /\ coyoteTimer \in 0..CoyoteTime /\ bufferTimer \in 0..BufferTime
            /\ off \in 0..MaxOff

LEMMA CountersCorrect == Spec => []Counters
<1> USE DEF Counters
<1>1. Init => Counters
  BY JumpAssumption DEF Init
<1>2. Counters /\ [Next]_vars => Counters'
  <2> SUFFICES ASSUME Counters, [Next]_vars PROVE Counters'
    OBVIOUS
  <2>1. CASE JumpSystem
    <3>1. Coyote \in 0..CoyoteTime /\ Buffer \in 0..BufferTime
      BY JumpAssumption DEF Coyote, Buffer
    <3>2. coyoteTimer' \in 0..CoyoteTime
      BY <2>1, <3>1, JumpAssumption, RunDownRange DEF JumpSystem
    <3>3. bufferTimer' \in 0..BufferTime
      BY <2>1, <3>1, JumpAssumption, RunDownRange DEF JumpSystem
    <3>4. off' \in 0..MaxOff
      BY <2>1, JumpAssumption DEF JumpSystem
    <3> QED
      BY <3>2, <3>3, <3>4
  <2>2. CASE \/ InputSystem \/ MovementSystem \/ CollisionSystem
           \/ HealthSystem \/ RespawnSystem
    BY <2>2 DEF InputSystem, MovementSystem, CollisionSystem, HealthSystem,
                RespawnSystem, jumpVars, history
  <2>3. CASE UNCHANGED vars
    BY <2>3 DEF vars, jumpVars, history
  <2> QED
    BY <2>1, <2>2, <2>3 DEF Next
<1> QED
  BY <1>1, <1>2, PTL DEF Spec

-----------------------------------------------------------------------------
(* One jump between two landings: the flag and the count start together    *)
(* and every JumpSystem step moves both.                                   *)
THEOREM OneJumpPerLanding == Spec => []NoDoubleJump
<1>1. Init => NoDoubleJump
  BY DEF Init, NoDoubleJump
<1>2. NoDoubleJump /\ [Next]_vars => NoDoubleJump'
  <2> SUFFICES ASSUME NoDoubleJump, [Next]_vars PROVE NoDoubleJump'
    OBVIOUS
  <2>1. CASE JumpSystem
    <3>1. jumped' => ~StillJumping
      BY <2>1, Zenon DEF JumpSystem, JumpsNow, JumpsBuffered
    <3>2. isJumping' <=> StillJumping \/ jumped'
      BY <2>1, Zenon DEF JumpSystem
    <3>3. StillJumping <=> isJumping /\ ~Lands
      BY Zenon DEF StillJumping
    <3> DEFINE before == IF Lands THEN 0 ELSE jumps
    <3>4. jumps' = before + (IF jumped' THEN 1 ELSE 0)
      BY <2>1, Zenon DEF JumpSystem
    <3>5. before = IF StillJumping THEN 1 ELSE 0
      <4>1. CASE Lands
        BY <4>1, <3>3
      <4>2. CASE ~Lands
        <5>1. StillJumping <=> isJumping
          BY <4>2, <3>3, Zenon
        <5>2. jumps = IF isJumping THEN 1 ELSE 0
          BY Zenon DEF NoDoubleJump
        <5> QED
          BY <4>2, <5>1, <5>2
      <4> QED
        BY <4>1, <4>2
    <3> HIDE DEF before
    <3>6. jumps' = IF isJumping' THEN 1 ELSE 0
      <4>1. CASE jumped'
        BY <4>1, <3>1, <3>2, <3>4, <3>5
      <4>2. CASE ~jumped'
        <5>1. isJumping' <=> StillJumping
          BY <4>2, <3>2, Zenon
        <5> QED
          BY <4>2, <3>4, <3>5, <5>1
      <4> QED
        BY <4>1, <4>2
    <3> QED
      BY <3>6 DEF NoDoubleJump
  <2>2. CASE \/ InputSystem \/ MovementSystem \/ CollisionSystem
           \/ HealthSystem \/ RespawnSystem
    <3>1. UNCHANGED <<jumps, isJumping>>
      BY <2>2 DEF InputSystem, MovementSystem, CollisionSystem, HealthSystem,
                  RespawnSystem, jumpVars, history
    <3> QED
      BY <3>1 DEF NoDoubleJump
  <2>3. CASE UNCHANGED vars
    BY <2>3 DEF vars, jumpVars, history, NoDoubleJump
  <2> QED
    BY <2>1, <2>2, <2>3 DEF Next
<1> QED
  BY <1>1, <1>2, PTL DEF Spec

(* The tripled gravity never outlives the jump it belongs to: the landing  *)
(* that clears isJumping is a frame with ground, which resets the scale.   *)
THEOREM GravityRestored == Spec => []HeavyOnlyInJump
<1>1. Init => HeavyOnlyInJump
  BY DEF Init, HeavyOnlyInJump
<1>2. HeavyOnlyInJump /\ [Next]_vars => HeavyOnlyInJump'
  <2> SUFFICES ASSUME HeavyOnlyInJump, [Next]_vars PROVE HeavyOnlyInJump'
    OBVIOUS
  <2>1. CASE JumpSystem
    <3>1. heavy' => StaysHeavy \/ isJumping'
      BY <2>1, Zenon DEF JumpSystem
    <3>2. StaysHeavy => StillJumping
      BY Zenon DEF StaysHeavy, StillJumping, Lands, HeavyOnlyInJump
    <3>3. StillJumping => isJumping'
      BY <2>1, Zenon DEF JumpSystem
    <3> QED
      BY <3>1, <3>2, <3>3, Zenon DEF HeavyOnlyInJump
  <2>2. CASE \/ InputSystem \/ MovementSystem \/ CollisionSystem
           \/ HealthSystem \/ RespawnSystem
    BY <2>2 DEF InputSystem, MovementSystem, CollisionSystem, HealthSystem,
                RespawnSystem, jumpVars, history, HeavyOnlyInJump
  <2>3. CASE UNCHANGED vars
    BY <2>3 DEF vars, jumpVars, history, HeavyOnlyInJump
  <2> QED
    BY <2>1, <2>2, <2>3 DEF Next
<1> QED
  BY <1>1, <1>2, PTL DEF Spec

-----------------------------------------------------------------------------
(* The coyote timer and the frames off the ground add up to the coyote     *)
(* time: what makes the window close.                                      *)
LEMMA CoyoteStep ==
  ASSUME Counters, Counters', CoyoteInv, [Next]_vars PROVE CoyoteInv'
<1> USE DEF Counters
<1>1. CASE JumpSystem
  <2>1. isGrounded' = synced /\ (synced => off' = 0)
    BY <1>1, Zenon DEF JumpSystem
  <2>2. CASE synced
    BY <1>1, <2>1, <2>2, JumpAssumption DEF JumpSystem, CoyoteInv, Coyote, RunDown
  <2>3. CASE ~synced
    <3>1. off' = IF off < MaxOff THEN off + 1 ELSE off
      BY <1>1, <2>3, Zenon DEF JumpSystem
    <3>2. coyoteTimer' = RunDown(Coyote)
      BY <1>1, Zenon DEF JumpSystem
    <3>3. Coyote > 0 => off < MaxOff /\ Coyote + off * Dt <= CoyoteTime
      <4>1. CASE isGrounded /\ ~StillJumping
        BY <4>1, <2>3, JumpAssumption DEF Coyote, CoyoteInv
      <4>2. CASE ~(isGrounded /\ ~StillJumping)
        <5>1. Coyote = coyoteTimer
          BY <4>2, <2>3, Zenon DEF Coyote
        <5>2. off = MaxOff => off * Dt = (MaxOff - 1) * Dt + Dt
          BY NextFrame, JumpAssumption
        <5> QED
          BY <5>1, <5>2, JumpAssumption DEF CoyoteInv
      <4> QED
        BY <4>1, <4>2
    <3>4. coyoteTimer' > 0 => Coyote > Dt /\ coyoteTimer' = Coyote - Dt
      BY <3>2, JumpAssumption DEF RunDown, Coyote
    <3>5. (off + 1) * Dt = off * Dt + Dt
      BY NextFrame, JumpAssumption
    <3>6. coyoteTimer' > 0 => coyoteTimer' + off' * Dt <= CoyoteTime
      <4> SUFFICES ASSUME coyoteTimer' > 0
                   PROVE  coyoteTimer' + off' * Dt <= CoyoteTime
        OBVIOUS
      <4>1. off' = off + 1
        BY <3>1, <3>3, <3>4, JumpAssumption DEF Coyote
      <4>2. Coyote \in Nat /\ off * Dt \in Nat
        BY JumpAssumption DEF Coyote
      <4> QED
        BY <4>1, <4>2, <3>3, <3>4, <3>5, JumpAssumption
    <3> QED
      BY <2>1, <2>3, <3>6 DEF CoyoteInv
  <2> QED
    BY <2>2, <2>3
<1>2. CASE \/ InputSystem \/ MovementSystem \/ CollisionSystem
           \/ HealthSystem \/ RespawnSystem
  <2>1. UNCHANGED <<isGrounded, coyoteTimer, off>>
    BY <1>2, Zenon DEF InputSystem, MovementSystem, CollisionSystem, HealthSystem,
                       RespawnSystem, jumpVars, history
  <2> QED
    BY <2>1 DEF CoyoteInv
<1>3. CASE UNCHANGED vars
  BY <1>3 DEF vars, jumpVars, history, CoyoteInv
<1> QED
  BY <1>1, <1>2, <1>3 DEF Next

(* No jump starts later than the coyote time after the last ground seen.   *)
THEOREM JumpsStartNearGround == Spec => JumpsNearGround
<1>1. Init => CoyoteInv
  BY JumpAssumption DEF Init, CoyoteInv
<1>2. ASSUME Counters, CoyoteInv, JumpSystem, jumped'
      PROVE  off' = 0 \/ (off' - 1) * Dt < CoyoteTime
  <2> USE DEF Counters
  <2>1. CASE synced
    BY <1>2, <2>1 DEF JumpSystem
  <2>2. CASE ~synced
    <3>1. Coyote > 0
      BY <1>2, <2>2 DEF JumpSystem, JumpsNow, JumpsBuffered
    <3>2. off' = IF off < MaxOff THEN off + 1 ELSE off
      BY <1>2, <2>2, Zenon DEF JumpSystem
    <3>3. CASE isGrounded /\ ~StillJumping
      BY <1>2, <2>2, <3>1, <3>2, <3>3, JumpAssumption DEF Coyote, CoyoteInv
    <3>4. CASE ~(isGrounded /\ ~StillJumping)
      <4>1. coyoteTimer > 0 /\ coyoteTimer + off * Dt <= CoyoteTime
        <5>1. Coyote = coyoteTimer
          BY <3>4, <2>2, Zenon DEF Coyote
        <5> QED
          BY <1>2, <3>1, <5>1 DEF CoyoteInv
      <4>2. off = MaxOff => off * Dt = (MaxOff - 1) * Dt + Dt
        BY NextFrame, JumpAssumption
      <4>3. off' - 1 = off
        BY <1>2, <3>2, <4>1, <4>2, JumpAssumption
      <4> QED
        BY <1>2, <4>1, <4>3, JumpAssumption
    <3> QED
      BY <3>3, <3>4
  <2> QED
    BY <2>1, <2>2
<1> QED
  BY <1>1, <1>2, CountersCorrect, CoyoteStep, PTL DEF Spec, JumpsNearGround

-----------------------------------------------------------------------------
(* Every counter and flag of Jump stays in its type.                       *)
THEOREM TypeCorrect == Spec => []TypeOK
<1> DEFINE Flags == /\ phase \in {"input", "jump", "movement", "collision", "health",
                                  "respawn"}
                    /\ onGround \in BOOLEAN /\ synced \in BOOLEAN
                    /\ moveUp \in BOOLEAN /\ isGrounded \in BOOLEAN
                    /\ isJumping \in BOOLEAN /\ prevMoveUp \in BOOLEAN
                    /\ heavy \in BOOLEAN /\ jumped \in BOOLEAN
                    /\ isDead \in BOOLEAN /\ isRespawning \in BOOLEAN
                    /\ early \in BOOLEAN /\ inFlight \in BOOLEAN
                    /\ rearmed \in BOOLEAN
<1>1. Init => Flags
  BY DEF Init
<1>2. Flags /\ [Next]_vars => Flags'
  <2> SUFFICES ASSUME Flags, [Next]_vars PROVE Flags'
    OBVIOUS
  <2>1. CASE InputSystem
    BY <2>1, Zenon DEF InputSystem, Then, jumpVars, lifeVars
  <2>2. CASE JumpSystem
    BY <2>2, Zenon DEF JumpSystem, Then, StillJumping, StaysHeavy, EarlyPress, FreshPress,
                JumpsNow, JumpsBuffered, lifeVars
  <2>3. CASE MovementSystem
    BY <2>3, Zenon DEF MovementSystem, Then, jumpVars, lifeVars, history
  <2>4. CASE CollisionSystem
    BY <2>4, Zenon DEF CollisionSystem, Then, jumpVars, lifeVars
  <2>5. CASE HealthSystem
    BY <2>5, Zenon DEF HealthSystem, Then, jumpVars, history
  <2>6. CASE RespawnSystem
    <3>1. UNCHANGED <<jumpVars, jumped, early, jumps, off>> /\ phase' = "input"
      BY <2>6, Zenon DEF RespawnSystem, Then
    <3>2. CASE StaysDown
      BY <3>1, <3>2, Zenon DEF StaysDown, jumpVars
    <3>3. CASE Revives
      BY <3>1, <3>3, Zenon DEF Revives, jumpVars
    <3>4. CASE UNCHANGED <<onGround, synced, moveUp, lifeVars, inFlight, rearmed>>
      BY <3>1, <3>4, Zenon DEF jumpVars, lifeVars
    <3> QED
      BY <2>6, <3>2, <3>3, <3>4, Zenon DEF RespawnSystem
  <2>7. CASE UNCHANGED vars
    <3>1. /\ phase' = phase /\ onGround' = onGround /\ synced' = synced
          /\ moveUp' = moveUp /\ isGrounded' = isGrounded
          /\ isJumping' = isJumping /\ prevMoveUp' = prevMoveUp
          /\ heavy' = heavy /\ jumped' = jumped /\ early' = early
          /\ isDead' = isDead /\ isRespawning' = isRespawning
          /\ inFlight' = inFlight /\ rearmed' = rearmed
      BY <2>7 DEF vars, jumpVars, lifeVars, history
    <3> QED
      BY <3>1
  <2> QED
    BY <2>1, <2>2, <2>3, <2>4, <2>5, <2>6, <2>7 DEF Next
<1>3. Flags /\ Counters /\ NoDoubleJump => TypeOK
  BY DEF Counters, NoDoubleJump, TypeOK
<1> QED
  BY <1>1, <1>2, <1>3, CountersCorrect, OneJumpPerLanding, PTL DEF Spec

-----------------------------------------------------------------------------
(* Without having been let go the key is either remembered as held or     *)
(* belongs to a dead player, whose Intent is empty; what re-arms it after  *)
(* that is the revival.  With a buffer no longer than a frame nothing is   *)
(* left of an early press when it could be used.                           *)
PressInv ==
  /\ ~rearmed => prevMoveUp \/ isDead
  /\ phase = "jump" => (isDead => ~moveUp) /\ (~rearmed => moveUp \/ isDead)
  /\ bufferTimer = 0

LEMMA PressStep ==
  ASSUME BufferTime <= Dt, PressInv, [Next]_vars
  PROVE  PressInv' /\ (JumpSystem /\ jumped' => rearmed)
<1>1. CASE InputSystem
  <2>1. /\ phase' = "jump" /\ phase = "input" /\ isDead' = isDead
        /\ prevMoveUp' = prevMoveUp /\ bufferTimer' = bufferTimer
    BY <1>1 DEF InputSystem, Then, jumpVars, lifeVars
  <2>2. PICK up \in BOOLEAN : moveUp' = (up /\ ~isDead) /\ rearmed' = (rearmed \/ ~up)
    BY <1>1 DEF InputSystem
  <2>3. /\ ~rearmed' => prevMoveUp' \/ isDead'
        /\ isDead' => ~moveUp'
        /\ ~rearmed' => moveUp' \/ isDead'
    BY <2>1, <2>2 DEF PressInv
  <2>4. ~JumpSystem
    BY <2>1 DEF JumpSystem, Then
  <2> QED
    BY <2>1, <2>3, <2>4 DEF PressInv
<1>2. CASE JumpSystem
  <2>1. /\ phase = "jump" /\ phase' = "movement" /\ isDead' = isDead
        /\ prevMoveUp' = moveUp /\ rearmed' = (rearmed /\ ~jumped')
    BY <1>2 DEF JumpSystem, Then, lifeVars
  <2>2. Buffer \in Nat /\ Buffer <= Dt
    BY JumpAssumption DEF PressInv, Buffer
  <2>3. bufferTimer' = 0
    BY <1>2, <2>2, JumpAssumption DEF JumpSystem, RunDown
  <2>4. ASSUME jumped' PROVE moveUp /\ ~prevMoveUp
    <3>1. JumpsNow \/ JumpsBuffered
      BY <1>2, <2>4 DEF JumpSystem
    <3>2. ~JumpsBuffered
      BY DEF PressInv, JumpsBuffered, Buffer, EarlyPress
    <3> QED
      BY <3>1, <3>2 DEF JumpsNow, FreshPress
  <2>5. jumped' => rearmed
    BY <2>1, <2>4 DEF PressInv
  <2>6. ~rearmed' => prevMoveUp' \/ isDead'
    BY <2>1, <2>4 DEF PressInv
  <2> QED
    BY <2>1, <2>3, <2>5, <2>6 DEF PressInv
<1>3. CASE MovementSystem \/ CollisionSystem \/ HealthSystem
  <2>1. /\ phase' \in {"collision", "health", "respawn"} /\ phase # "jump"
        /\ prevMoveUp' = prevMoveUp /\ bufferTimer' = bufferTimer /\ rearmed' = rearmed
    BY <1>3 DEF MovementSystem, CollisionSystem, HealthSystem, Then, jumpVars, history
  <2>2. isDead => isDead'
    <3>1. CASE MovementSystem \/ CollisionSystem
      BY <3>1 DEF MovementSystem, CollisionSystem, lifeVars
    <3>2. CASE HealthSystem
      BY <3>2, Zenon DEF HealthSystem
    <3> QED
      BY <1>3, <3>1, <3>2
  <2> QED
    BY <2>1, <2>2 DEF PressInv, JumpSystem, Then
<1>4. CASE RespawnSystem
  <2>1. /\ phase' = "input" /\ phase = "respawn"
        /\ prevMoveUp' = prevMoveUp /\ bufferTimer' = bufferTimer
        /\ rearmed' = TRUE \/ (rearmed' = rearmed /\ isDead' = isDead)
    BY <1>4 DEF RespawnSystem, StaysDown, Revives, Then, jumpVars, lifeVars
  <2> QED
    BY <2>1 DEF PressInv, JumpSystem, Then
<1>5. CASE UNCHANGED vars
  <2>1. /\ phase' = phase /\ moveUp' = moveUp /\ isDead' = isDead
        /\ prevMoveUp' = prevMoveUp /\ bufferTimer' = bufferTimer /\ rearmed' = rearmed
    BY <1>5 DEF vars, jumpVars, lifeVars, history
  <2>2. ~JumpSystem
    BY <2>1 DEF JumpSystem, Then
  <2> QED
    BY <2>1, <2>2 DEF PressInv
<1> QED
  BY <1>1, <1>2, <1>3, <1>4, <1>5 DEF Next

(* A key held down jumps once in a life, for every frame time and coyote   *)
(* time and every buffer no longer than a frame: the 10 ms of the game     *)
(* are.                                                                    *)
THEOREM HeldKeyIsSpent ==
  ASSUME BufferTime <= Dt PROVE Spec => HeldKeyJumpsOnce
<1>1. Init => PressInv
  BY DEF Init, PressInv
<1>2. PressInv /\ [Next]_vars => PressInv' /\ [JumpSystem /\ jumped' => rearmed]_vars
  BY PressStep
<1> QED
  BY <1>1, <1>2, PTL DEF Spec, HeldKeyJumpsOnce
=============================================================================
