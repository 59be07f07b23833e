--------------------------- MODULE MC_TTSServices ---------------------------
(* TLC instance of TTSServices: only bounds, given in the .cfg file.        *)
EXTENDS TTSServices
=============================================================================
