\* One client name, two principals (uid credentials that differ), one
\* (session, uid) key, three worker objects, two file ids, two goroutines.
CONSTANTS
    i1 = i1  i2 = i2  k1 = k1  n1 = n1  v1 = v1  c1 = c1  c2 = c2
    s1 = s1  w1 = w1  w2 = w2  w3 = w3  f1 = f1  f2 = f2  h1 = h1  h2 = h2
    ClientIds <- MCClientIds
    CacheIds <- MCCacheIds
    Names <- MCNames
    Verifiers <- MCVerifiers
    Creds <- MCCreds
    Keys <- MCKeys
    WorkerIds <- MCWorkerIds
    FileIds <- MCFileIds
    Handlers <- MCHandlers
    NoWorker = NoWorker
    NoCreds = NoCreds
    MaxConfirm = 1
    SeqInputs = {1}
    MaxBusy = 2
    OpenSeqs = {1}
    IdleTimeouts = TRUE
SYMMETRY Symmetry
SPECIFICATION Spec
INVARIANT TypeOK
INVARIANT BusyCountsOpenFiles
INVARIANT NoCleanupWhileHeld
INVARIANT CleanupAtMostOnce
CHECK_DEADLOCK FALSE
