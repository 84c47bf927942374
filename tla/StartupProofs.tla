--------------------------- MODULE StartupProofs ----------------------------
(***************************************************************************)
(* Theorems about Startup, for any list of textures, any maps and any      *)
(* missing files.                                                          *)
(***************************************************************************)
EXTENDS Startup, SequenceTheorems, TLAPS

-----------------------------------------------------------------------------
(* The loop's clock.                                                       *)
ClockOK == lag \in Nat /\ work \in Nat

LEMMA LateFrame ==
  ASSUME NEW from \in Nat, NEW took \in Nat, NEW frame \in Nat, NEW to,
         to = from + took - frame, ~(from + took < frame)
  PROVE  to \in Nat /\ (took <= frame => to <= from) /\ (took < frame => to < from)
OBVIOUS

LEMMA ClockStep ==
  ASSUME ClockOK, ClockFrame
  PROVE  ClockOK' /\ LagTick
<1>1. /\ lag \in Nat /\ work' \in Nat /\ GameFrame \in Nat /\ MaxOversleep \in Nat
  BY ClockAssumption DEF ClockOK, ClockFrame
<1>2. CASE Asleep(lag + work')
  <2>1. lag' \in 0..MaxOversleep
    BY <1>2 DEF ClockFrame
  <2> QED
    BY <1>1, <2>1 DEF ClockOK, LagTick
<1>3. CASE ~Asleep(lag + work')
  <2> DEFINE to == lag'
             took == work'
  <2>1. to = Late(lag + took) /\ ~Asleep(lag + took) /\ took \in Nat
    BY <1>1, <1>3 DEF ClockFrame
  <2> HIDE DEF to, took
  <2>2. /\ to \in Nat
        /\ took <= GameFrame => to <= lag
        /\ took < GameFrame => to < lag
    BY <1>1, <2>1, LateFrame DEF Asleep, Late
  <2> QED
    BY <1>1, <2>2 DEF ClockOK, LagTick, to, took
<1> QED
  BY <1>2, <1>3

-----------------------------------------------------------------------------
(* What is on disk, and the types of the rest.                             *)
InputsOK ==
  /\ map \in Maps /\ absent \in Absent
  /\ map.layers \in Seq(LayerKinds) /\ absent \subseteq Files

SdlOK ==
  /\ fields \subseteq {"window", "renderer"} \cup Range(Textures)
  /\ objects \subseteq {"window", "renderer", "scene"} \cup Range(Textures)

GameOK ==
  /\ world \in BOOLEAN /\ loaded \in BOOLEAN /\ player \in BOOLEAN
  /\ layer \in 0..Len(map.layers) /\ bodies \subseteq 1..Len(map.layers)

(* Every SDL object has the renderer that takes it along, and a pointer to *)
(* it.                                                                     *)
OwnedInv ==
  /\ "renderer" \notin fields => objects = {}
  /\ pc \in {"textures", "world", "load"} => "renderer" \in fields
  /\ objects \subseteq fields \cup {"scene"}
  /\ pc \in {"video", "window"} => fields = {}
  /\ pc \in {"quit", "exited"} => objects = {} /\ ~world

(* How far the constructor has got.                                        *)
Complete == /\ world /\ player /\ loaded
            /\ bodies = SolidsOf(Len(map.layers))

StageInv ==
  /\ pc \in Steps
  /\ pc \in {"load", "layers", "attach", "spawn"} => world
  /\ pc \in {"video", "window", "textures", "world", "load", "layers"} => bodies = {}
  /\ pc \in {"attach", "spawn"} => loaded /\ layer = Len(map.layers)
  /\ pc = "attach" => bodies \subseteq SolidsOf(Len(map.layers))
  /\ pc = "spawn" => bodies = SolidsOf(Len(map.layers))
  /\ pc = "main" =>
       ~Valid \/ absent \cap Range(Textures) # {} \/ Complete
  /\ pc \in {"run", "poll"} =>
       absent \cap Range(Textures) # {} \/ Complete

StartupInv == /\ InputsOK /\ SdlOK /\ GameOK /\ ClockOK /\ quit \in BOOLEAN
              /\ OwnedInv /\ StageInv /\ OnlyBadFilesStopIt

LEMMA StartupInitial == Init => StartupInv
<1> SUFFICES ASSUME Init PROVE StartupInv
  OBVIOUS
<1>1. InputsOK
  BY StartupAssumption DEF Init, InputsOK
<1>2. Len(map.layers) \in Nat
  BY <1>1, LenProperties DEF InputsOK
<1>3. SdlOK /\ GameOK
  <2>1. layer \in 0..Len(map.layers) /\ bodies \subseteq 1..Len(map.layers)
    BY <1>2 DEF Init
  <2> QED
    BY <2>1 DEF Init, SdlOK, GameOK
<1>5. ClockOK /\ quit \in BOOLEAN
  BY DEF Init, ClockInit, ClockOK
<1>4. OwnedInv /\ StageInv /\ OnlyBadFilesStopIt
  BY DEF Init, OwnedInv, StageInv, OnlyBadFilesStopIt, Steps
<1> QED
  BY <1>1, <1>3, <1>4, <1>5 DEF StartupInv

-----------------------------------------------------------------------------
(* The types.                                                              *)
LEMMA TypeStep ==
  ASSUME InputsOK, SdlOK, GameOK, ClockOK, quit \in BOOLEAN, [Next]_vars
  PROVE  InputsOK' /\ SdlOK' /\ GameOK' /\ ClockOK' /\ (quit \in BOOLEAN)'
<1>1. map' = map /\ absent' = absent
  BY DEF Next, Program, InitVideo, CreateWindowAndRenderer, LoadTexture,
         CreateWorld, LoadMap, ProcessLayer, FinishLoad, AttachPhysics,
         SpawnPlayer, Main, Frame, PollEvents, Destroy, QuitSDL, Close,
         vars, inputVars
<1>2. InputsOK'
  BY <1>1 DEF InputsOK
<1>3. SdlOK'
  <2>1. CASE UNCHANGED sdlVars
    BY <2>1 DEF sdlVars, SdlOK
  <2>2. CASE CreateWindowAndRenderer
    BY <2>2 DEF CreateWindowAndRenderer, Allocate, sdlVars, SdlOK
  <2>3. CASE LoadTexture
    <3>1. PICK i \in DOMAIN Textures : UNCHANGED sdlVars \/ Allocate({Textures[i]})
      BY <2>3 DEF LoadTexture
    <3>2. Textures[i] \in Range(Textures)
      BY DEF Range
    <3> QED
      BY <3>1, <3>2 DEF Allocate, sdlVars, SdlOK
  <2>4. CASE LoadMap
    BY <2>4 DEF LoadMap, SdlOK
  <2>5. CASE Destroy \/ QuitSDL
    BY <2>5 DEF Destroy, QuitSDL, SdlOK
  <2> QED
    BY <2>1, <2>2, <2>3, <2>4, <2>5
    DEF Next, Program, InitVideo, CreateWorld, ProcessLayer, FinishLoad,
        AttachPhysics, SpawnPlayer, Main, Frame, PollEvents, Close, vars
<1>4. GameOK'
  <2>1. CASE UNCHANGED <<sceneVars, gameVars>>
    BY <1>1, <2>1 DEF sceneVars, gameVars, GameOK
  <2>2. CASE CreateWorld \/ SpawnPlayer \/ FinishLoad \/ Destroy
    BY <1>1, <2>2 DEF CreateWorld, SpawnPlayer, FinishLoad, Destroy, GameOK,
                      sceneVars, gameVars
  <2>3. CASE ProcessLayer
    <3>1. Len(map.layers) \in Nat
      BY LenProperties DEF InputsOK
    <3> QED
      BY <1>1, <2>3, <3>1 DEF ProcessLayer, GameOK, gameVars
  <2>4. CASE AttachPhysics
    <3>1. \A i \in SolidsOf(layer) : i \in 1..Len(map.layers)
      BY DEF SolidsOf, GameOK
    <3> QED
      BY <1>1, <2>4, <3>1
      DEF AttachPhysics, AttachLayer, Bodiless, GameOK, sceneVars
  <2> QED
    BY <2>1, <2>2, <2>3, <2>4
    DEF Next, Program, InitVideo, CreateWindowAndRenderer, LoadTexture, LoadMap,
        Main, Frame, PollEvents, QuitSDL, Close, vars
<1>5. ClockOK'
  <2>1. CASE UNCHANGED clockVars
    BY <2>1 DEF clockVars, ClockOK
  <2>2. CASE ClockFrame
    BY <2>2, ClockStep
  <2> QED
    BY <2>1, <2>2
    DEF Next, Program, InitVideo, CreateWindowAndRenderer, LoadTexture,
        CreateWorld, LoadMap, ProcessLayer, FinishLoad, AttachPhysics,
        SpawnPlayer, Main, Frame, StepsNullWorld, PollEvents, Destroy, QuitSDL,
        Close, vars
<1>6. (quit \in BOOLEAN)'
  BY DEF Next, Program, InitVideo, CreateWindowAndRenderer, LoadTexture,
         CreateWorld, LoadMap, ProcessLayer, FinishLoad, AttachPhysics,
         SpawnPlayer, Main, Frame, PollEvents, Destroy, QuitSDL, Close, vars
<1> QED
  BY <1>2, <1>3, <1>4, <1>5, <1>6

(* Nothing is created without the renderer, and the destructor leaves      *)
(* nothing behind.                                                         *)
LEMMA OwnedStep == ASSUME OwnedInv, [Next]_vars PROVE OwnedInv'
<1> USE DEF OwnedInv, Goto
<1>1. CASE InitVideo
  BY <1>1 DEF InitVideo, sdlVars
<1>2. CASE CreateWindowAndRenderer
  BY <1>2 DEF CreateWindowAndRenderer, Allocate, sdlVars
<1>3. CASE LoadTexture
  <2>1. pc = "textures" /\ pc' \in {"main", "world", "textures"} /\ world' = world
    BY <1>3 DEF LoadTexture, gameVars
  <2>2. UNCHANGED sdlVars \/ \E i \in DOMAIN Textures : Allocate({Textures[i]})
    BY <1>3 DEF LoadTexture
  <2>3. /\ "renderer" \in fields' /\ objects' \subseteq fields' \cup {"scene"}
    BY <2>1, <2>2 DEF Allocate, sdlVars
  <2> QED
    BY <2>1, <2>3
<1>4. CASE LoadMap
  BY <1>4 DEF LoadMap
<1>5. CASE Destroy \/ QuitSDL
  BY <1>5 DEF Destroy, Released, QuitSDL, gameVars
<1>6. CASE CreateWorld \/ ProcessLayer \/ FinishLoad \/ AttachPhysics \/ SpawnPlayer
  BY <1>6 DEF CreateWorld, ProcessLayer, FinishLoad, AttachPhysics, AttachLayer,
              SpawnPlayer, sdlVars
<1>7. CASE Main \/ Frame \/ PollEvents
  BY <1>7 DEF Main, Frame, StepsNullWorld, PollEvents, sdlVars
<1>8. CASE Close \/ UNCHANGED vars
  BY <1>8 DEF Close, sdlVars, gameVars, vars
<1> QED
  BY <1>1, <1>2, <1>3, <1>4, <1>5, <1>6, <1>7, <1>8 DEF Next, Program

(* A step keeps what an earlier step of the constructor has established.   *)
LEMMA ProcessedSolids ==
  ASSUME NEW i \in SolidsOf(Len(map.layers)), map.layers \in Seq(LayerKinds)
  PROVE  i \in 1..Len(map.layers) /\ map.layers[i] \in Kinds
BY LenProperties DEF SolidsOf, Kinds, Range

LEMMA StageStep ==
  ASSUME InputsOK, GameOK, OwnedInv, StageInv, [Next]_vars PROVE StageInv'
<1> USE DEF StageInv, Goto
<1>1. map' = map /\ absent' = absent
  BY DEF Next, Program, InitVideo, CreateWindowAndRenderer, LoadTexture,
         CreateWorld, LoadMap, ProcessLayer, FinishLoad, AttachPhysics,
         SpawnPlayer, Main, Frame, PollEvents, Destroy, QuitSDL, Close,
         vars, inputVars
<1>2. \A n : SolidsOf(n)' = SolidsOf(n)
  BY <1>1 DEF SolidsOf
<1>3. CASE InitVideo
  BY <1>3 DEF InitVideo, Steps, OwnedInv, Valid, gameVars, sdlVars
<1>4. CASE CreateWindowAndRenderer
  BY <1>4 DEF CreateWindowAndRenderer, Steps, OwnedInv, Valid, gameVars, sdlVars
<1>5. CASE LoadTexture
  <2>1. /\ pc = "textures" /\ UNCHANGED gameVars /\ pc' \in {"main", "world", "textures"}
        /\ pc' = "main" => \E i \in DOMAIN Textures : Textures[i] \in absent
    BY <1>5 DEF LoadTexture
  <2>2. pc' = "main" => absent \cap Range(Textures) # {}
    BY <2>1 DEF Range
  <2> QED
    BY <1>1, <2>1, <2>2 DEF Steps, gameVars
<1>6. CASE CreateWorld \/ LoadMap \/ ProcessLayer
  BY <1>6 DEF CreateWorld, LoadMap, ProcessLayer, Steps, gameVars
<1>7. CASE FinishLoad
  BY <1>1, <1>7 DEF FinishLoad, Steps, gameVars
<1>8. CASE AttachPhysics
  <2>0. pc = "attach" /\ UNCHANGED <<sceneVars, world, player>>
    BY <1>8 DEF AttachPhysics
  <2>1. /\ layer = Len(map.layers)
        /\ \/ \E i \in Bodiless : \/ bodies' = bodies \cup {i} /\ pc' = pc
                                  \/ bodies' = bodies /\ pc' = "aborted"
           \/ Bodiless = {} /\ pc' = "spawn" /\ bodies' = bodies
    <3>1. layer = Len(map.layers)
      BY <2>0
    <3>2. CASE \E i \in DOMAIN map.layers : AttachLayer(i)
      <4>1. PICK i \in DOMAIN map.layers : AttachLayer(i)
        BY <3>2
      <4>2. /\ i \in Bodiless
            /\ \/ bodies' = bodies \cup {i} /\ pc' = pc
               \/ bodies' = bodies /\ pc' = "aborted"
        BY <4>1 DEF AttachLayer
      <4> QED
        BY <3>1, <4>2
    <3>3. CASE Bodiless = {} /\ pc' = "spawn" /\ bodies' = bodies
      BY <3>1, <3>3
    <3> QED
      BY <1>8, <3>2, <3>3 DEF AttachPhysics
  <2>2. Bodiless = SolidsOf(Len(map.layers)) \ bodies
    BY <2>1 DEF Bodiless
  <2>3. world /\ loaded /\ world' = world /\ loaded' = loaded
    BY <2>0 DEF sceneVars
  <2>4. /\ pc' \in {"attach", "spawn", "aborted"} /\ layer' = Len(map.layers)'
        /\ pc' = "attach" => bodies' \subseteq SolidsOf(Len(map.layers))
        /\ pc' = "spawn" => bodies' = SolidsOf(Len(map.layers))
    BY <1>1, <2>0, <2>1, <2>2 DEF sceneVars
  <2>5. SolidsOf(Len(map.layers))' = SolidsOf(Len(map.layers))
    BY <1>1, <1>2
  <2> QED
    BY <2>3, <2>4, <2>5 DEF Steps
<1>9. CASE SpawnPlayer
  <2>1. /\ pc = "spawn" /\ UNCHANGED <<sceneVars, world, bodies>>
        /\ \/ pc' = "crashed"
           \/ pc' = "main" /\ player' = TRUE
    BY <1>9 DEF SpawnPlayer
  <2>2. pc' = "main" => Complete'
    BY <1>1, <1>2, <2>1 DEF Complete, sceneVars
  <2> QED
    BY <2>1, <2>2 DEF Steps
<1>10. ASSUME pc \in {"main", "run", "poll"},
              pc' \in {"main", "run", "poll", "destroy", "aborted", "crashed"},
              UNCHANGED <<sdlVars, sceneVars, gameVars>>,
              pc = "main" /\ pc' \in {"run", "poll"} => Valid,
              pc' = "main" => pc = "main"
       PROVE  StageInv'
  <2>1. Complete' <=> Complete
    BY <1>1, <1>2, <1>10 DEF Complete, sceneVars, gameVars
  <2>2. Valid' <=> Valid
    BY <1>10 DEF Valid, sdlVars
  <2> QED
    BY <1>1, <1>10, <2>1, <2>2 DEF Steps
<1>11. CASE Main \/ Frame \/ PollEvents
  BY <1>10, <1>11 DEF Main, Frame, StepsNullWorld, PollEvents
<1>12. CASE Destroy \/ QuitSDL
  BY <1>12 DEF Destroy, QuitSDL, Steps
<1>13. CASE Close \/ UNCHANGED vars
  <2>1. UNCHANGED <<pc, sdlVars, sceneVars, gameVars>>
    BY <1>13 DEF Close, vars
  <2>2. (Complete' <=> Complete) /\ (Valid' <=> Valid)
    BY <1>1, <1>2, <2>1 DEF Complete, Valid, sdlVars, sceneVars, gameVars
  <2> QED
    BY <1>1, <1>2, <2>1, <2>2 DEF sceneVars, gameVars
<1> QED
  BY <1>3, <1>4, <1>5, <1>6, <1>7, <1>8, <1>9, <1>11, <1>12, <1>13 DEF Next, Program

(* What stops the program is a file that breaks the contract.              *)
LEMMA StopStep ==
  ASSUME InputsOK, GameOK, OwnedInv, StageInv, OnlyBadFilesStopIt, [Next]_vars
  PROVE  OnlyBadFilesStopIt'
<1> USE DEF Goto
<1>1. Usable' <=> Usable
  <2>1. map' = map /\ absent' = absent
    BY DEF Next, Program, InitVideo, CreateWindowAndRenderer, LoadTexture,
           CreateWorld, LoadMap, ProcessLayer, FinishLoad, AttachPhysics,
           SpawnPlayer, Main, Frame, PollEvents, Destroy, QuitSDL, Close,
           vars, inputVars
  <2> QED
    BY <2>1 DEF Usable, Kinds
<1>2. Processed \subseteq Kinds
  BY LenProperties DEF Processed, Kinds, Range, InputsOK, GameOK
<1>3. SUFFICES ASSUME Usable, pc' \in {"aborted", "crashed"} PROVE FALSE
  BY <1>1 DEF OnlyBadFilesStopIt
<1>4. pc \notin {"aborted", "crashed"}
  BY <1>3 DEF OnlyBadFilesStopIt
<1>5. CASE LoadMap
  BY <1>3, <1>5 DEF LoadMap, MapLoads, Usable
<1>6. CASE ProcessLayer
  <2>0. /\ layer < Len(map.layers) /\ layer + 1 \in DOMAIN map.layers
        /\ Refused(map.layers[layer + 1])
    <3>1. layer < Len(map.layers) /\ Refused(map.layers[layer + 1])
      BY <1>3, <1>4, <1>6 DEF ProcessLayer
    <3> QED
      BY <3>1, LenProperties DEF InputsOK, GameOK
  <2>1. /\ layer < Len(map.layers) /\ map.layers[layer + 1] \in SpawnLayers
        /\ Processed \cap SpawnLayers # {}
    <3>1. map.layers[layer + 1] # "noSource"
      BY <1>3, <2>0 DEF Usable, Kinds, Range
    <3> QED
      BY <2>0, <3>1 DEF Refused, Pathless, SecondSpawns
  <2>2. PICK j \in 1..layer : map.layers[j] \in SpawnLayers
    BY <2>1 DEF Processed
  <2>3. /\ layer + 1 \in DOMAIN map.layers /\ j \in DOMAIN map.layers
        /\ j # layer + 1
    BY <2>1, <2>2, LenProperties DEF InputsOK, GameOK
  <2> QED
    BY <1>3, <2>1, <2>2, <2>3 DEF Usable
<1>7. CASE AttachPhysics
  <2>1. PICK i \in Bodiless : map.layers[i] # "solid"
    BY <1>3, <1>4, <1>7 DEF AttachPhysics, AttachLayer
  <2>2. layer = Len(map.layers)
    BY <1>7 DEF AttachPhysics, StageInv
  <2>3. i \in SolidsOf(Len(map.layers))
    BY <2>1, <2>2 DEF Bodiless
  <2>4. map.layers[i] \in SolidLayers /\ map.layers[i] \in Kinds
    BY <2>3, ProcessedSolids DEF SolidsOf, InputsOK
  <2> QED
    BY <1>3, <2>1, <2>4 DEF SolidLayers, Usable
<1>8. CASE SpawnPlayer
  <2>1. pc = "spawn" /\ "spawns" \notin Processed
    BY <1>3, <1>4, <1>8 DEF SpawnPlayer
  <2>2. layer = Len(map.layers)
    BY <2>1 DEF StageInv
  <2>3. Processed = Kinds
    BY <2>2, LenProperties DEF Processed, Kinds, Range, InputsOK
  <2> QED
    BY <1>3, <2>1, <2>3 DEF Usable
<1>9. CASE Frame
  <2>1. absent \cap Range(Textures) = {}
    BY <1>3 DEF Usable
  <2>2. pc = "run" /\ (Undrawable \/ ~world)
    BY <1>3, <1>4, <1>9 DEF Frame, StepsNullWorld
  <2>3. world
    BY <2>1, <2>2 DEF StageInv, Complete
  <2>4. SceneValid /\ Processed \cap {"noTiles", "noImage"} # {}
    BY <2>2, <2>3 DEF Undrawable, Drawn
  <2>5. Kinds \cap TileLayers # {} /\ Kinds \cap SolidLayers # {}
    BY <1>2, <2>4 DEF SceneValid
  <2>6. "solid" \in Kinds
    BY <1>3, <2>5 DEF SolidLayers, Usable
  <2> QED
    BY <1>2, <1>3, <2>4, <2>5, <2>6 DEF Usable
<1>10. CASE InitVideo \/ CreateWindowAndRenderer \/ LoadTexture \/ CreateWorld
            \/ FinishLoad
  BY <1>3, <1>4, <1>10 DEF InitVideo, CreateWindowAndRenderer, LoadTexture,
                           CreateWorld, FinishLoad
<1>11. CASE Main \/ PollEvents \/ Destroy \/ QuitSDL
  BY <1>3, <1>4, <1>11 DEF Main, PollEvents, Destroy, QuitSDL
<1>12. CASE Close \/ UNCHANGED vars
  BY <1>3, <1>4, <1>12 DEF Close, vars
<1> QED
  BY <1>5, <1>6, <1>7, <1>8, <1>9, <1>10, <1>11, <1>12 DEF Next, Program

LEMMA StartupCorrect == Spec => []StartupInv
<1>1. StartupInv /\ [Next]_vars => StartupInv'
  <2> SUFFICES ASSUME StartupInv, [Next]_vars PROVE StartupInv'
    OBVIOUS
  <2>1. InputsOK' /\ SdlOK' /\ GameOK' /\ ClockOK' /\ (quit \in BOOLEAN)'
    BY TypeStep DEF StartupInv
  <2>2. OwnedInv' /\ StageInv' /\ OnlyBadFilesStopIt'
    BY OwnedStep, StageStep, StopStep DEF StartupInv
  <2> QED
    BY <2>1, <2>2 DEF StartupInv
<1> QED
  BY <1>1, StartupInitial, PTL DEF Spec

-----------------------------------------------------------------------------
(* Every variable keeps its type, and the loop's clock, whose difference   *)
(* to the real one is unsigned in the code, is never ahead of it.          *)
THEOREM TypeCorrect == Spec => []TypeOK
<1>1. StartupInv => TypeOK
  BY DEF StartupInv, InputsOK, SdlOK, GameOK, ClockOK, StageInv, TypeOK, NeverEarly
<1> QED
  BY <1>1, StartupCorrect, PTL

(* With files that keep the contract, no assertion on the way from main to *)
(* the last frame fails and nothing undefined is reached, for any number   *)
(* and order of layers.                                                    *)
THEOREM UsableFilesDoNotStopIt == Spec => []OnlyBadFilesStopIt
<1>1. StartupInv => OnlyBadFilesStopIt
  BY DEF StartupInv
<1> QED
  BY <1>1, StartupCorrect, PTL

(* With all textures there the loop runs on a complete game.               *)
THEOREM GameIsComplete == Spec => []PlaysComplete
<1>1. StartupInv => PlaysComplete
  BY DEF StartupInv, StageInv, Complete, Playing, PlaysComplete
<1> QED
  BY <1>1, StartupCorrect, PTL

(* The destructor has released everything when it calls SDL_Quit, whatever *)
(* step the constructor stopped at.                                        *)
THEOREM NothingIsLeft == Spec => []NothingLeaks
<1>1. StartupInv => NothingLeaks
  BY DEF StartupInv, OwnedInv, NothingLeaks
<1> QED
  BY <1>1, StartupCorrect, PTL

(* start never gets ahead of the clock, whatever the frames take: the      *)
(* unsigned end - start of the loop never wraps around.                    *)
THEOREM StartIsNeverAhead == Spec => []NeverEarly
<1>1. StartupInv => NeverEarly
  BY DEF StartupInv, ClockOK, NeverEarly
<1> QED
  BY <1>1, StartupCorrect, PTL

(* A frame that takes no longer than GAME_FRAME never makes the loop later *)
(* than it was, or than one sleep can, and a shorter one brings it nearer: *)
(* what is left of the way to CatchesUp is that frames go on.              *)
THEOREM LateLoopCatchesUp == Spec => LagShrinks
<1>1. StartupInv /\ [Next]_vars => [LagTick]_clockVars
  <2> SUFFICES ASSUME StartupInv, [Next]_vars
               PROVE  [LagTick]_clockVars
    OBVIOUS
  <2>1. CASE UNCHANGED clockVars
    BY <2>1
  <2>2. CASE ClockFrame
    BY <2>2, ClockStep DEF StartupInv
  <2> QED
    BY <2>1, <2>2
    DEF Next, Program, InitVideo, CreateWindowAndRenderer, LoadTexture,
        CreateWorld, LoadMap, ProcessLayer, FinishLoad, AttachPhysics,
        SpawnPlayer, Main, Frame, StepsNullWorld, PollEvents, Destroy, QuitSDL,
        Close, vars
<1> QED
  BY <1>1, StartupCorrect, PTL DEF Spec, LagShrinks
=============================================================================
