------------------------- MODULE MCPayoutStatement -------------------------
EXTENDS PayoutStatement, TLC

Colleagues == Permutations(Slots)
============================================================================
