\* Two symbols, one of them tradable; the ranking changes once.
CONSTANTS
    Symbols = {s1, s2}
    TopN = 1
    Required = 1
    MaxRanks = 1
SPECIFICATION Spec
SYMMETRY MCSymmetry
INVARIANT FundingWithinUniverse
CHECK_DEADLOCK FALSE
