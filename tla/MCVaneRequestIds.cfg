\* Two transactions from n1 to n2's accounts; n2's process may be killed and started
\* once more, its request ids starting again from 1 (expected violation).
CONSTANTS
    n1 = n1  n2 = n2  a1 = a1  a2 = a2  r = r  m = m  g1 = g1  g2 = g2
    None = None
    NoNode = NoNode
    Nodes = {n1, n2}
    Accounts = {a1, a2, r, m}
    Gids = {g1, g2}
    Mallory = m
    Owner <- MCOwner
    Directory <- MCDirectory
    AddrForm <- MCAddrForm
    GenesisTxs <- MCGenesisTwoReceivers
    SenderKeys <- MCSenderKeysHonest
    WalletBuilds = FALSE
    ClientStatuses = {}
    Faults <- MCCrashFault
    ChanCap = 2
    SwarmCap = 2
    MaxTamper = 1
    MaxRetries = 0
    MaxRestarts = 1
    MaxRequests = 2

SPECIFICATION Spec

INVARIANT ResponseMatchesRequest
