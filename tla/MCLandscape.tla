--------------------------- MODULE MCLandscape ---------------------------
(* Terrains of up to eight by eight chunks of up to eight by eight       *)
(* squares, four levels of detail; 3 is no power of two and is refused.    *)
EXTENDS Landscape
=============================================================================
