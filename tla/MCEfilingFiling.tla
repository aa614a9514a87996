-------------------------- MODULE MCEfilingFiling --------------------------
\* The filing's life, for TLC.
EXTENDS EfilingFiling, TLC

HandlerSymmetry == Permutations(Handlers)
=============================================================================
