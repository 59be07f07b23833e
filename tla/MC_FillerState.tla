--------------------------- MODULE MC_FillerState ---------------------------
EXTENDS FillerState
=============================================================================
