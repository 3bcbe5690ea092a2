CONSTANTS
    x1 = x1
    x2 = x2
    a = a
    b = b
    e = e
    r = r
    f = f
    d1 = d1
    d2 = d2
    g1 = g1
    i1 = i1
    i2 = i2
    s1 = s1
    s2 = s2
    noObj = noObj
    noPath = noPath
    noFH = noFH
    Ctxs <- MCCtxs1
    Names <- MCNames
    Empty = e
    Root = r
    InitFile = f
    DirObjs <- MCDirObjs1
    FileObjs <- MCNoFileObjs
    FileIds <- MCFileIds1
    Seqs <- MCSeqs1
    NoObj = noObj
    NoPath = noPath
    NoFH = noFH
    MaxDepth = 2
    MaxOps = 2
SPECIFICATION Spec
\* A COMMIT or OPEN without a current filehandle panics and the server exits.
CHECK_DEADLOCK FALSE
SYMMETRY Symmetry
INVARIANT PutFHResolvesHandle
