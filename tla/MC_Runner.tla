------------------------------ MODULE MC_Runner ------------------------------
(* TLC instance of Runner; the handlers are given in the .cfg files.        *)
EXTENDS Runner
=============================================================================
