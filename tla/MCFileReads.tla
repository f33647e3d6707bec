---------------------------- MODULE MCFileReads ----------------------------
\* Values for model checking FileReads.
EXTENDS FileReads, TLC

Symmetry == Permutations(TransferIds)
=============================================================================
