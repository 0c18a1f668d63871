---- MODULE MCTxHistory ----
EXTENDS TxHistory, TLC

\* What the counterexamples need.
MCRemoveOps == {"storeFails", "lock", "switch", "remove"}
MCResetOps == {"storeFails", "lock", "reset", "create"}
MCResetFailsOps == MCResetOps \cup {"resetFails"}
MCAllOps == {"storeFails", "lock", "switch", "remove", "restart", "mine", "refresh", "reset", "create"}
MCAccountSymmetry == Permutations(Accounts)
====
