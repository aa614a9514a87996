---- MODULE MCCaseLink ----
EXTENDS CaseLink, TLC

\* Handlers run the same code, and CNRs and tiers are only compared.
HandlerSymmetry == Permutations(Handlers)
Symmetry == Permutations(Handlers) \cup Permutations(Cnrs) \cup Permutations(Tiers)

====
