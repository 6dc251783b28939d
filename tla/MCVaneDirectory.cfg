\* Peer lookup: a transaction to a2 or to an unknown address, on Ethereum or Polkadot,
\* with dial, directory and transport failures, one restart of each node process,
\* and user agents that send updates back as NetConfirmed or RecvAddrFailed.
CONSTANTS
    n1 = n1  n2 = n2  a1 = a1  a2 = a2  r = r  m = m  g1 = g1  g2 = g2
    None = None
    NoNode = NoNode
    Nodes = {n1, n2}
    Accounts = {a1, a2, r, m}
    Gids = {g1}
    Mallory = m
    Owner <- MCOwner
    Directory <- MCDirectory
    AddrForm <- MCAddrForm
    GenesisTxs <- MCGenesisUnknown
    SenderKeys <- MCSenderKeysHonest
    WalletBuilds = FALSE
    ClientStatuses = {"NetConfirmed", "RecvAddrFailed"}
    Faults <- MCDirectoryFaults
    ChanCap = 2
    SwarmCap = 2
    MaxTamper = 1
    MaxRetries = 1
    MaxRestarts = 1
    MaxRequests = 2

SPECIFICATION Spec

INVARIANT RemoteLookupOnce
