------------------------ MODULE MCVaneCoordination ------------------------
(***************************************************************************)
(* Model values and bounds for checking VaneCoordination with TLC.        *)
(*   n1, n2   two nodes;                                                   *)
(*   a1       the sender's account (key held by n1's user);                *)
(*   a2       a receiver account in public-key form (n2's user);           *)
(*   r        a receiver account of n2's user in 20-byte form;             *)
(*   m        the intermediary's account, in no directory entry.           *)
(***************************************************************************)
EXTENDS VaneCoordination, TLC

CONSTANTS n1, n2, a1, a2, r, m, g1, g2

MCOwner == (a1 :> n1) @@ (a2 :> n2) @@ (r :> n2) @@ (m :> NoNode)

MCDirectory == (a1 :> n1) @@ (a2 :> n2) @@ (r :> n2) @@ (m :> NoNode)

\* The intermediary's address is 20 bytes long (it passes create_tx).
MCAddrForm == (a1 :> "PubKey") @@ (a2 :> "PubKey") @@ (r :> "Raw20") @@ (m :> "Raw20")

\* ... or in public-key form (its own signature on it verifies).
MCAddrFormKeyed == (a1 :> "PubKey") @@ (a2 :> "PubKey") @@ (r :> "Raw20") @@ (m :> "PubKey")

\* n1's user sends from a1 either to a2 or to r, on Ethereum or Bnb.
MCGenesisTxs ==
    g1 :> [node |-> n1, sender |-> a1, receivers |-> {a2, r},
           networks |-> {"Ethereum", "Bnb"}]

\* The same, on any network (Solana and Polkadot are unimplemented).
MCGenesisAnyNet ==
    g1 :> [node |-> n1, sender |-> a1, receivers |-> {a2, r}, networks |-> Networks]

\* ... to a2 or to an address no directory knows, on Ethereum or Polkadot.
MCGenesisUnknown ==
    g1 :> [node |-> n1, sender |-> a1, receivers |-> {a2, m},
           networks |-> {"Ethereum", "Polkadot"}]

\* One transaction to the 20-byte address r on Ethereum.
MCGenesisRaw ==
    g1 :> [node |-> n1, sender |-> a1, receivers |-> {r}, networks |-> {"Ethereum"}]

\* One transaction to a2 on Ethereum (the end-to-end scenario S1).
MCGenesisOne ==
    g1 :> [node |-> n1, sender |-> a1, receivers |-> {a2}, networks |-> {"Ethereum"}]

\* Two transactions of n1's user, each to a2 on Ethereum.
MCGenesisPair ==
    (g1 :> [node |-> n1, sender |-> a1, receivers |-> {a2}, networks |-> {"Ethereum"}])
 @@ (g2 :> [node |-> n1, sender |-> a1, receivers |-> {a2}, networks |-> {"Ethereum"}])

\* Two transactions of n1's user, to n2's accounts a2 and r, on Ethereum.
MCGenesisTwoReceivers ==
    (g1 :> [node |-> n1, sender |-> a1, receivers |-> {a2}, networks |-> {"Ethereum"}])
 @@ (g2 :> [node |-> n1, sender |-> a1, receivers |-> {r}, networks |-> {"Ethereum"}])

\* Two transactions crossing: a1 at n1 pays a2 or r, a2 at n2 pays a1.
MCGenesisCross ==
    (g1 :> [node |-> n1, sender |-> a1, receivers |-> {a2, r}, networks |-> {"Ethereum", "Bnb"}])
 @@ (g2 :> [node |-> n2, sender |-> a2, receivers |-> {a1}, networks |-> {"Ethereum"}])

\* n1's signing agent holds the sender's key and, compromised, a2's key.
MCSenderKeys == (n1 :> {a1, a2}) @@ (n2 :> {a2})

\* An honest signing agent holds only its own key.
MCSenderKeysHonest == (n1 :> {a1}) @@ (n2 :> {a2})

MCPayloadFaults == {"tamper", "build", "chain", "db"}
MCLivenessFaults == {"tamper", "build", "chain"}
MCDbFault == {"db"}

MCDirectoryFaults == {"dial", "directory", "loss", "crash", "garble"}

MCDialFault == {"dial"}
MCCrashFault == {"crash"}
MCLossFault == {"loss"}

\* a dial fails, or an exchange is lost
MCTransportFaults == {"dial", "loss"}

\* the chain RPC errs (a resubmitted transfer is refused)
MCChainFault == {"chain"}

=============================================================================
