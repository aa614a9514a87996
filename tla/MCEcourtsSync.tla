--------------------------- MODULE MCEcourtsSync ---------------------------
(* EcourtsSync on small instances.  Workers and cases are interchangeable.  *)
EXTENDS EcourtsSync, TLC

Symmetry == Permutations(Workers) \cup Permutations(Cases)

\* For liveness with one case and MaxNow = 1: either two slots fall due and no
\* matter is live, or the last slot is due and the matter is live.
FewSlots == \/ Init /\ \A c \in Cases : ~cases[c].live
            \/ StartsAt(MaxNow + 1)
FewSlotsSpec == FewSlots /\ [][Next]_vars /\ Fairness
=============================================================================
