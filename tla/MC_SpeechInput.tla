--------------------------- MODULE MC_SpeechInput ---------------------------
(* TLC instance of SpeechInput: only bounds, given in the .cfg files.       *)
EXTENDS SpeechInput
=============================================================================
