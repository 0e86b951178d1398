------------------------------ MODULE MCDispatch ------------------------------
EXTENDS Dispatch, TLC

\* Findings, request threads and texts are interchangeable.
Symmetry == Permutations(Finding) \cup Permutations(Request) \cup Permutations(Text)
=============================================================================
