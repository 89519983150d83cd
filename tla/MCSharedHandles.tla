-------------------------- MODULE MCSharedHandles ---------------------------
\* SharedHandles for threads, handles and data that are interchangeable.
EXTENDS SharedHandles

Symmetry == Permutations(Thread) \cup Permutations(Handle)
=============================================================================
