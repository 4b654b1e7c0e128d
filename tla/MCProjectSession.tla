-------------------------- MODULE MCProjectSession ---------------------------
(* A buyer, and an agent who signs after the buyer.                          *)
EXTENDS ProjectSession

CONSTANTS buyer, agent

BuyerFirst == [r \in Signers |-> IF r = buyer THEN 1 ELSE 2]

CONSTANTS d1, d2

\* Both sign one document, the agent another one too.
Packet == [d \in Docs |-> IF d = d1 THEN <<buyer, agent>> ELSE <<agent>>]

\* A template with two roles, in a session whose one recipient is the buyer.
OneBuyer == [d \in Docs |-> <<buyer, buyer>>]
==============================================================================
