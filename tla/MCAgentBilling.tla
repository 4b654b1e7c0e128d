--------------------------- MODULE MCAgentBilling ---------------------------
EXTENDS AgentBilling, TLC
Requests == Permutations(Slots)
=============================================================================
