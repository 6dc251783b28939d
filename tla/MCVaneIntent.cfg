\* Refinement of TransferIntent: as the payload run, with the intermediary's address
\* in public-key form, so its self-signed rewrite passes the receiver check.
CONSTANTS
    n1 = n1  n2 = n2  a1 = a1  a2 = a2  r = r  m = m  g1 = g1  g2 = g2
    None = None
    NoNode = NoNode
    Nodes = {n1, n2}
    Accounts = {a1, a2, r, m}
    Gids = {g1}
    Mallory = m
    Owner <- MCOwner
    Directory <- MCDirectory
    AddrForm <- MCAddrFormKeyed
    GenesisTxs <- MCGenesisTxs
    SenderKeys <- MCSenderKeys
    WalletBuilds = TRUE
    ClientStatuses = {}
    Faults <- MCPayloadFaults
    ChanCap = 1
    SwarmCap = 2
    MaxTamper = 1
    MaxRetries = 1
    MaxRestarts = 0
    MaxRequests = 2

SPECIFICATION Spec

PROPERTY ImplementsTransferIntent
