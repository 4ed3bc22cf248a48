--------------------------- MODULE MCInteraction ---------------------------
(* The three passes of data/scenes/SceneTest00.lua.                         *)
EXTENDS Interaction

MCProcesses == <<"reflection", "reflection2", "base">>
=============================================================================
