------------------------------ MODULE MCStartup -----------------------------
(* Every map of three layers, those of four that hold the layers a scene   *)
(* needs and one more, and a good map with a wrong number of tilesets; two *)
(* texture files.                                                          *)
EXTENDS Startup

Needed == {"tiles", "solid", "spawns"}
MCTextures == <<"player", "heart">>
MCMaps ==
  {[tilesets |-> 1, layers |-> s] :
     s \in [1..3 -> LayerKinds]
             \cup {s \in [1..4 -> LayerKinds] : Needed \subseteq Range(s)}}
  \cup {[tilesets |-> n, layers |-> <<"tiles", "solid", "spawns">>] : n \in {0, 2}}
MCAbsent == {{}, {"heart"}, {"map"}, {"tileset"}}
=============================================================================
