\* Payload safety: one transaction whose user picks receiver a2 or r on Ethereum or Bnb,
\* with the intermediary, failed builds and chain errors.
CONSTANTS
    n1 = n1  n2 = n2  a1 = a1  a2 = a2  r = r  m = m  g1 = g1  g2 = g2
    None = None
    NoNode = NoNode
    Nodes = {n1, n2}
    Accounts = {a1, a2, r, m}
    Gids = {g1}
    Mallory = m
    Owner <- MCOwner
    Directory <- MCDirectory
    AddrForm <- MCAddrForm
    GenesisTxs <- MCGenesisTxs
    SenderKeys <- MCSenderKeys
    WalletBuilds = TRUE
    ClientStatuses = {}
    Faults <- MCPayloadFaults
    ChanCap = 1
    SwarmCap = 2
    MaxTamper = 1
    MaxRetries = 1
    MaxRestarts = 0
    MaxRequests = 2

SPECIFICATION Spec

INVARIANT TypeOK
INVARIANT PayloadPaysIntendedReceiver
INVARIANT FailureVerdictRecorded
INVARIANT ExchangeAnsweredOnce
