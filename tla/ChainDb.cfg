SPECIFICATION FairSpec
CONSTANTS
    SonIds = {s1, s2}
    Nodes = {n1, n2}
    Parameters <- MCParameters
    ActiveWitnesses <- MCActiveWitnesses
    MaxUndo = 2
    MaxBlockNum = 3
INVARIANT TypeOK
INVARIANT ToBeDeregisteredIsValid
INVARIANT OneDeregistrationPending
INVARIANT NonUndoableAheadOnlyAtGenesis
PROPERTY DeregisteredWasSilent
PROPERTY SilentSonIsDeregistered
