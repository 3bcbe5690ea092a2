\* One client name, two boot verifiers, two principals, three client ids.
CONSTANTS
    i1 = i1  i2 = i2  i3 = i3  k1 = k1  k2 = k2
    n1 = n1  v1 = v1  v2 = v2  c1 = c1  c2 = c2
    ClientIds <- MCClientIds
    CacheIds <- MCCacheIds
    Names <- MCNames
    Verifiers <- MCVerifiers
    Creds <- MCCreds
    MaxConfirm = 2
    SeqInputs = {0, 1, 2}
    MaxBusy = 1
SYMMETRY IdSymmetry
SPECIFICATION Spec
INVARIANT TypeOK
INVARIANT ConfirmedNameCredsAgree
INVARIANT OneUnconfirmedPerName
PROPERTY BusyClientNeverRemoved
