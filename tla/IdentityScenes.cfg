SPECIFICATION ScenesSpec
CONSTANTS
    mark = mark
    seal = seal
    Objects = {mark, seal}
    Cycling = {seal}
    MaxRuns <- MCMaxRuns
    MaxQueued = 2
    Losable = {seal}
    Nothing = Nothing
INVARIANTS
    OneLoop
    NoOrphan
    DrawsInView
    ShownOrComing
PROPERTY QueueSettles
