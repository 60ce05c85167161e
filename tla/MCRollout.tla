----------------------------- MODULE MCRollout -----------------------------
EXTENDS Rollout, TLC
MCOthers == Permutations(Node \ {Home})
=============================================================================
