SPECIFICATION Spec
CONSTANTS
    w1 = w1  w2 = w2
    r1 = r1  r2 = r2  n1 = n1
    g1 = g1  g2 = g2  g3 = g3
    Writers = {w1, w2}
    NoWriter = NoWriter
    Rows = {r1}
    NoRow = NoRow
    Notes = {n1}
    User = User
    GenIds = {g1, g2}
    NoGen = NoGen
    MaxInputs = 1
    Purgeable = {r1}
    Droppable = {n1}
    MaxVersion = 2
    MaxEdits = 0
    MaxFaults = 2
    MaxSkips = 0
    SuspendedAt = {"waiting"}
SYMMETRY Symmetry
INVARIANTS TypeOK OneWriter AllOldOrAllNew ConsumedIsWritten PurgedStaysGone
PROPERTIES ImplementsAtomic
