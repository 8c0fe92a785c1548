\* Two symbols, one of them tradable; the ranking changes three times.
CONSTANTS
    Symbols = {s1, s2}
    TopN = 1
    Required = 2
    MaxRanks = 3
SPECIFICATION FairSpec
INVARIANTS RotationInv StreamsOnSettledUniverse
PROPERTIES PaperSurvivesRotation RankingAdopted
\* A scanner that ended is not started again.
CHECK_DEADLOCK FALSE
