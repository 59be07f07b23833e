------------------------- MODULE MC_ActivityControl -------------------------
(* TLC instance of ActivityControl; the bounds are set in the .cfg files.  *)
EXTENDS ActivityControl
=============================================================================
