--------------------------- MODULE MC_TTSHandler ---------------------------
(* TLC instances of TTSHandler: only bounds, given in the .cfg files.       *)
EXTENDS TTSHandler
=============================================================================
