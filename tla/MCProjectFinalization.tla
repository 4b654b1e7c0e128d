------------------------ MODULE MCProjectFinalization ------------------------
(* The instances of ProjectFinalization that TLC checks, and the routines    *)
(* that only they need.                                                      *)
EXTENDS ProjectFinalization
==============================================================================
