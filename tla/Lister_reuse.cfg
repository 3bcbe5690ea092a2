\* Two directories, one random verifier besides 0, three lister objects,
\* two READDIR goroutines.
CONSTANTS
    d1 = d1  d2 = d2  r1 = r1  o1 = o1  o2 = o2  o3 = o3  h1 = h1  h2 = h2
    Dirs <- MCDirs
    RandVerfs <- MCRandVerfs
    Objs <- MCObjs
    Handlers <- MCHandlers
    EOFLister = EOFLister
    NoObj = NoObj
    NoDir = NoDir
SPECIFICATION Spec
\* A discarded worker with every lister closed really stops.
CHECK_DEADLOCK FALSE
INVARIANT ContinuationListsItsDirectory
