------------------------------- MODULE Startup ------------------------------
(***************************************************************************)
(* main: the constructor of MegamanGame, which may stop after any step,    *)
(* Scene::load layer by layer, valid(), the loop with its clock, and the   *)
(* destructor.  A map is the number of its tilesets and the kinds of its   *)
(* layers.  fatalError and a failed massert end the program at once.       *)
(***************************************************************************)
EXTENDS FrameClock, Sequences, Functions

CONSTANTS
  Textures,    \* the texture files of the constructor, in order
  Maps,        \* the maps the game may find: [tilesets |-> n, layers |-> seq]
  Absent       \* sets of files that may be missing, of Textures, "map", "tileset"

(* Tile layers with and without tiles, "solid" object layers with and      *)
(* without rectangles, "spawns" object layers with and without a player    *)
(* point, object layers of other classes, and image layers whose image     *)
(* loads, does not, or is not named at all.                                *)
TileLayers  == {"tiles", "noTiles"}
SolidLayers == {"solid", "noSolid"}
SpawnLayers == {"spawns", "noPlayer"}
ImageLayers == {"image", "noImage", "noSource"}
LayerKinds  == TileLayers \cup SolidLayers \cup SpawnLayers \cup ImageLayers
                 \cup {"other"}

Files == Range(Textures) \cup {"map", "tileset"}

ASSUME StartupAssumption ==
  /\ Textures # <<>>
  /\ \A i, j \in DOMAIN Textures : i # j => Textures[i] # Textures[j]
  /\ \A m \in Maps : m.tilesets \in Nat /\ m.layers \in Seq(LayerKinds)
  /\ Absent \subseteq SUBSET Files

VARIABLES
  pc,
  map, absent,     \* what the program finds on disk
  fields,          \* the pointers of MegamanGame that are not null
  objects,         \* the SDL objects that exist
  world,           \* b2World_IsValid(_boxWorld)
  loaded, layer,   \* Scene::_loaded, and how many layers are processed
  bodies,          \* the collision layers whose bodies are in the world
  player,          \* the player entity exists
  quit             \* a quit event waits in SDL's queue

inputVars == <<map, absent>>
sdlVars   == <<fields, objects>>
sceneVars == <<loaded, layer>>
gameVars  == <<world, bodies, player>>
vars == <<pc, inputVars, sdlVars, sceneVars, gameVars, quit, clockVars>>

Steps == {"video", "window", "textures", "world", "load", "layers", "attach",
          "spawn", "main", "run", "poll", "destroy", "quit",
          "exited", "aborted", "crashed"}
Ended == pc \in {"exited", "aborted", "crashed"}

TypeOK ==
  /\ pc \in Steps
  /\ map.layers \in Seq(LayerKinds) /\ absent \subseteq Files
  /\ fields \subseteq {"window", "renderer"} \cup Range(Textures)
  /\ objects \subseteq {"window", "renderer", "scene"} \cup Range(Textures)
  /\ world \in BOOLEAN /\ loaded \in BOOLEAN /\ player \in BOOLEAN
  /\ layer \in 0..Len(map.layers)
  /\ bodies \subseteq 1..Len(map.layers)
  /\ quit \in BOOLEAN
  /\ NeverEarly /\ work \in Nat

Init ==
  /\ pc = "video"
  /\ map \in Maps /\ absent \in Absent
  /\ fields = {} /\ objects = {}
  /\ loaded = FALSE /\ layer = 0
  /\ world = FALSE /\ bodies = {} /\ player = FALSE
  /\ quit = FALSE
  /\ ClockInit

-----------------------------------------------------------------------------
Goto(from, to) == pc = from /\ pc' = to

(* Definitions named Slip... are plausible mistakes in the definition that *)
(* follows; nothing uses them.                                             *)

(* The constructor.  A step that fails returns to main.                    *)
InitVideo ==
  /\ Goto("video", "window") \/ Goto("video", "main")
  /\ UNCHANGED <<inputVars, sdlVars, sceneVars, gameVars, quit, clockVars>>

Allocate(new) == fields' = fields \cup new /\ objects' = objects \cup new

CreateWindowAndRenderer ==
  /\ \/ Goto("window", "textures") /\ Allocate({"window", "renderer"})
     \/ Goto("window", "main") /\ UNCHANGED sdlVars
  /\ UNCHANGED <<inputVars, sceneVars, gameVars, quit, clockVars>>

IsNext(i) == /\ Textures[i] \notin fields
             /\ \A j \in 1..(i - 1) : Textures[j] \in fields

LoadTexture ==
  /\ pc = "textures"
  /\ \E i \in DOMAIN Textures :
       /\ IsNext(i)
       /\ IF Textures[i] \in absent
            THEN pc' = "main" /\ UNCHANGED sdlVars
            ELSE /\ Allocate({Textures[i]})
                 /\ pc' = IF i = Len(Textures) THEN "world" ELSE "textures"
  /\ UNCHANGED <<inputVars, sceneVars, gameVars, quit, clockVars>>

CreateWorld ==
  /\ Goto("world", "load")
  /\ world' = TRUE
  /\ UNCHANGED <<inputVars, sdlVars, sceneVars, bodies, player, quit, clockVars>>

-----------------------------------------------------------------------------
(* Scene::load.  "scene" stands for the textures the scene owns.  The      *)
(* tileset is absent when its texture does not load or has no path.        *)
MapLoads == "map" \notin absent /\ map.tilesets = 1 /\ "tileset" \notin absent

LoadMap ==
  /\ \/ MapLoads /\ Goto("load", "layers") /\ objects' = objects \cup {"scene"}
     \/ ~MapLoads /\ Goto("load", "aborted") /\ UNCHANGED objects
  /\ UNCHANGED <<inputVars, fields, sceneVars, gameVars, quit, clockVars>>

Processed == {map.layers[i] : i \in 1..layer}

(* massert(!path.empty()): Texture::loadFromFile wants the path of a file, *)
(* whether or not it can be loaded.                                        *)
Pathless(kind) == kind = "noSource"

(* massert(!_spawnLayer): one spawn layer at most.                         *)
SecondSpawns(kind) == kind \in SpawnLayers /\ Processed \cap SpawnLayers # {}

(* A layer whose create fails is reported and kept.                        *)
Refused(kind) == Pathless(kind) \/ SecondSpawns(kind)

ProcessLayer ==
  /\ pc = "layers" /\ layer < Len(map.layers)
  /\ IF Refused(map.layers[layer + 1])
       THEN pc' = "aborted" /\ UNCHANGED layer
       ELSE layer' = layer + 1 /\ UNCHANGED pc
  /\ UNCHANGED <<inputVars, sdlVars, loaded, gameVars, quit, clockVars>>

FinishLoad ==
  /\ layer = Len(map.layers) /\ Goto("layers", "attach")
  /\ loaded' = TRUE
  /\ UNCHANGED <<inputVars, sdlVars, layer, gameVars, quit, clockVars>>

(* Scene::attachPhysics: createBodies asserts that its layer is valid.     *)
SolidsOf(n) == {i \in 1..n : map.layers[i] \in SolidLayers}

SlipBodiless == IF bodies = {} THEN SolidsOf(layer) ELSE {}
Bodiless == SolidsOf(layer) \ bodies

AttachLayer(i) ==
  /\ i \in Bodiless /\ \A j \in Bodiless : i <= j
  /\ IF map.layers[i] = "solid"
       THEN bodies' = bodies \cup {i} /\ UNCHANGED pc
       ELSE pc' = "aborted" /\ UNCHANGED bodies

AttachPhysics ==
  /\ pc = "attach"
  /\ \/ \E i \in DOMAIN map.layers : AttachLayer(i)
     \/ Bodiless = {} /\ pc' = "spawn" /\ UNCHANGED bodies
  /\ UNCHANGED <<inputVars, sdlVars, sceneVars, world, player, quit, clockVars>>

(* playerSpawns[0]: undefined when the list is empty; a read through a     *)
(* null pointer crashes, or a player is put somewhere.                     *)
SpawnPlayer ==
  /\ \/ Goto("spawn", "main") /\ player' = TRUE
     \/ "spawns" \notin Processed /\ Goto("spawn", "crashed") /\ UNCHANGED player
  /\ UNCHANGED <<inputVars, sdlVars, sceneVars, world, bodies, quit, clockVars>>

-----------------------------------------------------------------------------
Valid == {"window", "renderer"} \subseteq fields

Main ==
  /\ IF Valid THEN Goto("main", "run") ELSE Goto("main", "destroy")
  /\ UNCHANGED <<inputVars, sdlVars, sceneVars, gameVars, quit, clockVars>>

SceneValid == /\ loaded
              /\ Processed \cap TileLayers # {}
              /\ Processed \cap SolidLayers # {}
              /\ Processed \cap SpawnLayers # {}

(* run draws the scene when it is valid; each layer asserts that it is.    *)
SlipDrawn == TRUE
Drawn == SceneValid
Undrawable == Drawn /\ (~SceneValid \/ Processed \cap {"noTiles", "noImage"} # {})

(* One iteration.  Stepping the null world is undefined: it crashes, or    *)
(* does nothing that is seen.                                              *)
StepsNullWorld == Goto("run", "crashed") /\ ~world /\ UNCHANGED clockVars

Frame ==
  /\ \/ StepsNullWorld
     \/ Undrawable /\ Goto("run", "aborted") /\ UNCHANGED clockVars
     \/ ~Undrawable /\ Goto("run", "poll") /\ ClockFrame
  /\ UNCHANGED <<inputVars, sdlVars, sceneVars, gameVars, quit>>

SlipAsked == quit /\ lag <= MaxOversleep
Asked == quit

PollEvents ==
  /\ IF Asked THEN Goto("poll", "destroy") ELSE Goto("poll", "run")
  /\ UNCHANGED <<inputVars, sdlVars, sceneVars, gameVars, quit, clockVars>>

(* ~MegamanGame up to SDL_Quit.  The renderer takes its textures with it,  *)
(* the scene's among them.                                                 *)
SlipReleased == IF world THEN fields \cup {"scene"} ELSE {}
Released == IF "renderer" \in fields THEN fields \cup {"scene"} ELSE fields

Destroy ==
  /\ Goto("destroy", "quit")
  /\ world' = FALSE /\ bodies' = {}
  /\ objects' = objects \ Released
  /\ UNCHANGED <<inputVars, fields, sceneVars, player, quit, clockVars>>

(* SDL_Quit; then the member _scene hands its texture pointers to          *)
(* SDL_DestroyTexture, which finds them in SDL's registry no more.         *)
QuitSDL ==
  /\ Goto("quit", "exited")
  /\ objects' = {}
  /\ UNCHANGED <<inputVars, fields, sceneVars, gameVars, quit, clockVars>>

(* The player closes the window, or presses Escape.                        *)
Close == /\ ~quit /\ "window" \in objects
         /\ quit' = TRUE
         /\ UNCHANGED <<pc, inputVars, sdlVars, sceneVars, gameVars, clockVars>>

Program == \/ InitVideo \/ CreateWindowAndRenderer \/ LoadTexture \/ CreateWorld
           \/ LoadMap \/ ProcessLayer \/ FinishLoad \/ AttachPhysics
           \/ SpawnPlayer \/ Main \/ Frame \/ PollEvents \/ Destroy \/ QuitSDL

Next == Program \/ Close

(* The program never waits for anything but the sleep of its clock.        *)
Spec == Init /\ [][Next]_vars /\ WF_vars(Program)

-----------------------------------------------------------------------------
Playing == pc \in {"run", "poll"}
Kinds == Range(map.layers)

(* What the game asks of the files it is shipped with.                     *)
Usable ==
  /\ absent = {} /\ map.tilesets = 1
  /\ "spawns" \in Kinds
  /\ \A i, j \in DOMAIN map.layers :
       map.layers[i] \in SpawnLayers /\ map.layers[j] \in SpawnLayers => i = j
  /\ Kinds \cap {"noSolid", "noSource"} = {}
  /\ Kinds \cap TileLayers # {} /\ "solid" \in Kinds
       => Kinds \cap {"noTiles", "noImage"} = {}

(* Only files that break that contract stop the program: with usable ones  *)
(* every assertion on the way holds and nothing undefined is reached.      *)
OnlyBadFilesStopIt == pc \in {"aborted", "crashed"} => ~Usable

(* With all textures there, the loop runs on a complete game: a world with *)
(* the bodies of every solid layer, the whole map and a player.            *)
PlaysComplete ==
  Playing /\ absent \cap Range(Textures) = {} =>
    /\ world /\ player /\ loaded
    /\ bodies = SolidsOf(Len(map.layers))

(* Whatever step the constructor stopped at, the destructor has released   *)
(* every SDL object and the world when it calls SDL_Quit.                  *)
NothingLeaks == pc \in {"quit", "exited"} => objects = {} /\ ~world

(* The program ends once it is asked to, also when it is in a stall or     *)
(* still loading.                                                          *)
EndsWhenAsked == quit ~> Ended

(* After a stall the loop plays the time it missed in frames that follow   *)
(* each other at once: as soon as frames are shorter than GAME_FRAME again *)
(* it gets back on time, and stays so.                                     *)
CatchesUp == <>[](Playing /\ work < GameFrame) => <>[](lag <= MaxOversleep)

(* "If any step fails the relevant pointer stays null; valid() will return *)
(* false and run() should not be called" (MegamanGame.h).                  *)
ValidMeansComplete == Playing => world /\ player
=============================================================================
