SPECIFICATION FairSpec
CONSTANTS
    w1 = w1  w2 = w2
    r1 = r1  r2 = r2  n1 = n1
    g1 = g1  g2 = g2  g3 = g3
    Writers = {w1, w2}
    NoWriter = NoWriter
    Rows = {r1, r2}
    NoRow = NoRow
    Notes = {}
    User = User
    GenIds = {g1, g2, g3}
    NoGen = NoGen
    MaxInputs = 1
    Purgeable = {}
    Droppable = {}
    MaxVersion = 1
    MaxEdits = 1
    MaxFaults = 1
    MaxSkips = 1
    SuspendedAt = {}
PROPERTIES RowsSettle RecoveryHappens
