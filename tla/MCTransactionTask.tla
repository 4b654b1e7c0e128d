------------------------- MODULE MCTransactionTask -------------------------
EXTENDS TransactionTask, TLC

Colleagues == Permutations(People)

\* nobody has decided on what was no longer so, or is about to
Fresh == /\ ~stale
         /\ \A s \in Slots : slot[s].fresh
         /\ \A t \in Txs : tx[t].fresh
============================================================================
