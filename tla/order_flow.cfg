SPECIFICATION Spec
CONSTANTS
    Goods = {g1, g2}
    Shop = {s1, s2}
    Day = {d1}
    Hour = {h}
    Qty = {q1}
    Answers <- FewAnswers
    MaxCalls = 1
    MaxStray = 1
    None = None
SYMMETRY Symmetry
INVARIANTS  CardIsVerified
