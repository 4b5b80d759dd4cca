SPECIFICATION Spec
CONSTANTS
    Procs = {p1, p2, p3}
    LockIds = {1}
    Faulty = {p1}
    MaxLockFaults = 1
    Hosts = {h1, h2}
    Mortal = {h1}
    MaxJobs = 2
    MaxActFaults = 1
    MaxSaid = 2
    MaxCloses = 2
    RetireMax = 2
    Runs = {r1, r2}
    Processes = {a, b}
    Notes = {n1}
    Remembers = {}
    Cooldown = 2
    Backoff = 1
    Nobody = Nobody
INVARIANTS LockExclusion PendingShowsInToken CleanEndKeepsAll NoHotLoop
PROPERTIES OrphanLockGoes EveryJobIsFound RetirementEnds NotesAreOffered
CHECK_DEADLOCK FALSE
