SPECIFICATION FairSpec
CONSTANTS
    j1 = j1  j2 = j2
    s1 = s1  p1 = p1
    w1 = w1  w2 = w2
    Jobs = {j1, j2}
    Sessions = {s1}
    Providers = {p1}
    Workers = {w1, w2}
    NoJob = NoJob
    NoRun = NoRun
    SessionOf <- MCSessionOf
    EventOf <- MCEventOf
    ProviderOf <- MCProviderOf
    WorkerProvider <- MCWorkerProvider
    Lease = 2
    RetryDelay = 1
    ReleaseDelay = 1
    MaxAttempts = 2
    MaxRunning = 1
    OrderWindow = 1
    MaxEnqueues = 2
    MaxDisturbances = 1
PROPERTIES EveryJobSettles
