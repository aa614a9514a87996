---- MODULE MCEsign ----
EXTENDS Esign, TLC

Symmetry == Permutations(Handlers) \cup Permutations(Signers)

====
