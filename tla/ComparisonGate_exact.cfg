SPECIFICATION Spec
CONSTANTS
    None = None
    ChampionArms <- SortedArms
    CandidateArms <- AllArms
CHECK_DEADLOCK FALSE
INVARIANTS
    GateMonotone
    BinomialExact
