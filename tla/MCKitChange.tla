----------------------------- MODULE MCKitChange -----------------------------
EXTENDS KitChange, TLC

\* Transactions are interchangeable, and so are the members of a core.
Symmetry == Permutations(Txn) \cup Permutations(Member)
=============================================================================
