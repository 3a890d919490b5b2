------------------------------- MODULE MCArchive -------------------------------
EXTENDS ArchiveSystem, TLC
Symmetry == Permutations(Jobs) \cup Permutations(Workers)
================================================================================
