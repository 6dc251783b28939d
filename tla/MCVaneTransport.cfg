\* A transaction from n1 to a2 over a transport where a dial may fail and an exchange
\* may be lost, with fair tasks and fair delivery otherwise, and no user retry
\* (expected violation).
CONSTANTS
    n1 = n1  n2 = n2  a1 = a1  a2 = a2  r = r  m = m  g1 = g1  g2 = g2
    None = None
    NoNode = NoNode
    Nodes = {n1, n2}
    Accounts = {a1, a2, r, m}
    Gids = {g1}
    Mallory = m
    Owner <- MCOwner
    Directory <- MCDirectory
    AddrForm <- MCAddrForm
    GenesisTxs <- MCGenesisOne
    SenderKeys <- MCSenderKeysHonest
    WalletBuilds = FALSE
    ClientStatuses = {}
    Faults <- MCTransportFaults
    ChanCap = 2
    SwarmCap = 2
    MaxTamper = 1
    MaxRetries = 0
    MaxRestarts = 0
    MaxRequests = 2

SPECIFICATION FairSpec

PROPERTY TransportFailureReported
