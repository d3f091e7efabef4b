SPECIFICATION Spec
CONSTANTS
    Row <- MCRow
    Visible <- MCVisible
    Size <- MCSize
    BodySize <- MCBodySize
    contextMax = 1
    Budget = {1, 2, 3}
    defaultLimit = 2
    maxReadWindow = 4
    MaxChanges = 2
INVARIANTS ExactAnswer NoRepeat NoneOverlooked SeedShown BudgetKept
