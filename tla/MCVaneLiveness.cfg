\* Progress of the receiver check with fair tasks and a fair transport, under the
\* intermediary, failed builds and chain errors, and no user retry.
CONSTANTS
    n1 = n1  n2 = n2  a1 = a1  a2 = a2  r = r  m = m  g1 = g1  g2 = g2
    None = None
    NoNode = NoNode
    Nodes = {n1, n2}
    Accounts = {a1, a2, r, m}
    Gids = {g1}
    Mallory = m
    Owner <- MCOwner
    Directory <- MCDirectory
    AddrForm <- MCAddrForm
    GenesisTxs <- MCGenesisTxs
    SenderKeys <- MCSenderKeys
    WalletBuilds = TRUE
    ClientStatuses = {}
    Faults <- MCLivenessFaults
    ChanCap = 2
    SwarmCap = 2
    MaxTamper = 1
    MaxRetries = 0
    MaxRestarts = 0
    MaxRequests = 2

SPECIFICATION FairSpec

PROPERTY GenesisGetsVerdict
PROPERTY TransactionSettles
