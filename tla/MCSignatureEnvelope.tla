------------------------- MODULE MCSignatureEnvelope -------------------------
(* Routings for the instances TLC checks. *)
EXTENDS SignatureEnvelope

Serial == <<1, 2>>
Parallel == <<1, 1>>
SerialThenCopy == <<1, 2, 9999>>
=============================================================================
