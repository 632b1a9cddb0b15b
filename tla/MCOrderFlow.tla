---------------------------- MODULE MCOrderFlow ----------------------------
\* Small instances of OrderFlow.
EXTENDS OrderFlow, TLC

\* An availability call lists one shop and day, or none.
FewAnswers == {{}} \cup {{x} : x \in Shop \X Day}

Symmetry == Permutations(Goods) \cup Permutations(Shop) \cup Permutations(Day)
=============================================================================
