---------------------------- MODULE MCWorkspace ----------------------------
EXTENDS Workspace, TLC

Alike == Permutations(Positions)
=============================================================================
