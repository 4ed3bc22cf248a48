----------------------------- MODULE MCJobSystem -----------------------------
(* TLC instance of JobSystem.                                               *)
EXTENDS JobSystem
=============================================================================
