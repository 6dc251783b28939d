# TLA+ model of the vane_web3 node

This directory holds TLA+ models of the vane node (`src/node/src/lib.rs`,
`src/node/src/tx_processing.rs`) and the TLC configurations that check
them. `PROJECT.json` lists the components, the runs, the mutants, the map
from every definition to the lines it models, the findings and the hazards.

## The system

A vane node guards a token transfer. Before anything reaches a chain, the
receiver's node attests that it owns the receiving address. The parts:

| Part | Code | State | Operations |
|---|---|---|---|
| C1 transaction record | primitives crate (not in `src/`) | `TxStateMachine`: addresses, `multi_id`, network, `call_payload`, signatures, status, request ids | status setters |
| C2 orchestrator | `lib.rs` `handle_incoming_rpc_tx_updates` | the RPC update channel (cap. 10) | Genesis, RecvAddrConfirmed and SenderConfirmed handlers |
| C2 swarm loop | `lib.rs` `handle_swarm_event_messages` | the swarm event channel (cap. 256) | Request, Response and Err events |
| C3 p2p transport | p2p crate (not in `src/`) | exchanges in flight, inbound slots | send_request, send_response |
| C4 chain processing | `tx_processing.rs` | none | validate signature, validate multi-id, create_tx, submit_tx |
| C5 peer directory | `lib.rs` Genesis handler; db and Airtable | `saved_peers`, remote list | local lookup, then remote lookup, recorded before the dial |
| History | db crate | `tx_history` rows `{success}` | update_success_tx, update_failed_tx |
| Node process | `lib.rs` `new`, `run` | channels, listen port, `db/dev.db` | start (random port), exit when an essential task ends |
| RPC server and signing agents | rpc crate, external | what users have sent and received | submit, update, watch |

**How the parts interact.** A user starts a transaction (Genesis) over the
RPC. The sender's orchestrator resolves the receiver's peer and sends the
record as a p2p request. The receiver's swarm loop passes the record to its
user, who signs `receiver_address` and sends RecvAddrConfirmed. The
receiver's orchestrator answers the request. The sender's swarm loop checks
the receiver's signature, emits RecvAddrConfirmed or RecvAddrFailed, and
writes a failure row on failure.

The sender's user then sends SenderConfirmed:
- without a signature (Branch B): the node checks `multi_id` and builds the
  unsigned transfer;
- with a signature (Branch A): the node checks the sender's signature and
  broadcasts.

Each loop runs in an essential task (`run`). When a handler returns an
error (`?`) or panics, its loop ends, the `TaskManager` future fails, and
the whole node process exits.

**Hard behaviours.**
- The two loops and the user agents interleave on the shared channels.
- Messages can be lost, or rewritten by an intermediary (scenario S3).
- User agents retry and override.
- Any error or panic stops the node. A node process may also be killed and
  started again: the channels and pending requests are lost, the listen
  port is new, and `saved_peers` and `tx_history` survive in `db/dev.db`.
- A db write may fail after the user was already told of the outcome.
- Channels are bounded.

## Modules

- `TxStateMachine.tla` is C1: the record, `MultiId` and the status setters.
  It is modelled from the spec, since the primitives crate is not in `src/`.
  The data is abstracted:
  - an address is an account;
  - `multi_id` is the pair (sender, receiver), standing for a
    collision-free hash;
  - a signature is (key, message);
  - `call_payload` is its destination;
  - `gid` is a ghost name for the user's transaction.
- `ChainProcessing.tla` is C4. Each worker method is an operator that gives
  the outcome, or the set of possible outcomes: `ValidateReceiverSenderAddress`,
  `ValidateMultiId`, `CreateTx` and `SubmitTx`. A `todo!()` or a panicking
  conversion is the outcome `"panic"`. The constant `AddrForm` gives each
  address's textual form:
  - `"PubKey"` parses as a public key;
  - `"Raw20"` is 20 bytes, which is what `Address::from_slice` needs.

  `TxProcessingWorker::new` receives `(Bnb, Ethereum, Solana)` and binds the
  tuple as `(_solana, eth, bnb)`. So `bnb_client` is built on the Solana URL
  (`BnbClientReachesBnb` is FALSE), and `SubmitTx` on Bnb always errs. Every
  broadcast the model makes is on Ethereum.
- `VaneCoordination.tla` composes a set of `Nodes`. Each node has both
  loops (`alive` covers both, since one ending stops the process), its
  channels `rpcIn`, `rpcOut` and `swarmIn`, `savedPeers` and `history`. The
  composition adds the transport (`net`, `inbound`), the directory, the
  chain and the user agents. Each handler branch is one action, named after
  what it does: `GenesisLocalHit`, `GenesisRemoteHit`, `GenesisRemoteMiss`,
  `GenesisFails`, `RecvAddrConfirmedSend`, `RecvAddrConfirmedFails`,
  `SenderSignedRejected`, `SenderSignedSubmitted`, `SenderSignedSubmitFails`,
  `SenderUnsignedMultiIdFails`, `SenderUnsignedCreated`,
  `SenderConfirmedStops`, `SwarmRequest`, `SwarmResponse`,
  `SwarmDecodePanics`, `SwarmError`.
  - An action takes the whole handler in one step, with every send and db
    write it makes. The awaits inside a handler touch state that the other
    loop either does not use or only appends to.
  - A handler whose send would block on a full channel is not enabled.
  - Environment faults are enabled by the constant `Faults`: dial,
    directory, loss, tamper, build, chain, crash, db, garble. With
    `garble`, a message's bytes stop decoding (`Garble`, data `Malformed`).
    Its `expect` then panics in the swarm task (`SwarmDecodePanics`).
  - User agents may:
    - start a transaction to any receiver and network their
      `GenesisTxs` entry allows;
    - sign as receiver: with the key of the address when they hold it, else
      with any key they hold;
    - confirm, or build and sign in the wallet (`WalletBuilds`);
    - override a failed check;
    - resend their last update, at most `MaxRetries` times;
    - discard.
  - A node process may be killed (`Crash`, fault `crash`) and started again
    (`Restart`, at most `MaxRestarts` times). `epoch[n]` is the listen
    address of the current process. `savedPeers` holds the address that
    was registered when the peer was resolved. A dial fails on a dead peer
    or on a saved address that is no longer current.
  - Request ids. `nextReq` numbers the exchanges a sender opens. The node
    only checks that `outbound_req_id` is set, so one global counter is
    enough. `nextInbound[n]` is libp2p's InboundRequestId counter of n's
    swarm. `Deliver` gives each request the next value, and `Restart`
    sets the counter back to 1, as a new swarm does. The hash of an id
    (`DefaultHasher::default()`, fixed keys) is the same in every process,
    so the model uses the id itself. An inbound slot remembers the
    requester's id (`oid`), to which the response is addressed. It also
    records a ghost `about`, the transaction the exchange was opened for.
    `ResponseMatchesRequest` reads that ghost.
  - The `db` fault makes a history write fail, or the saved_peers write of
    a remote hit (`record_saved_user_peers`, before the dial), and the `?`
    ends the task.
  - A user agent may send an update back under a status taken from
    `ClientStatuses`. This feeds the NetConfirmed `todo!()` arm
    (`NetConfirmedPanics`) and the `_ => {}` arm (`OtherStatusIgnored`).
  - `emitted[n]` is a history variable: the `(gid, status, oid)` of every
    update node `n` has sent on its RPC channel, appended by `Emit`, where
    `oid` is the update's `outbound_req_id`. `StatusMonotonic`,
    `FailureVerdictRecorded` and `ExchangeAnsweredOnce` read it. `StatusEdges` in `TxStateMachine.tla` is the
    status DAG of spec 4.1, and `StatusReaches` is its reflexive-transitive
    closure, written as a recursive operator.
- `TransferIntent.tla` is the abstract specification of what the system
  promises its users. A transaction's receiver is named once (`Start`), and
  every transfer the chain accepts for it pays that receiver (`Pay`).
  `VaneCoordination` instantiates it with `intent <- intended` and
  `paid <- chain`. `ImplementsTransferIntent` is checked as a temporal
  property.
- `MCVaneCoordination.tla` gives TLC its model values and constant
  definitions:
  - two nodes `n1`, `n2`;
  - accounts:
    - `a1`, the sender;
    - `a2`, the receiver, in public-key form;
    - `r`, the receiver, in 20-byte form;
    - `m`, the intermediary, absent from the directory.

## Runs

Each pass run checks deadlock, and every action fires in some pass run.

| Run (cfg) | Expect | Properties | What it shows |
|---|---|---|---|
| payload_safety (`MCVaneSafety.cfg`) | pass, ~154k states | `TypeOK`, `PayloadPaysIntendedReceiver`, `FailureVerdictRecorded`, `ExchangeAnsweredOnce` | No transfer is built for, or broadcast to, anyone but the receiver the user picked. This holds with the intermediary, failed builds, chain errors, db errors, retries and overrides. Every RecvAddrFailed a node sent its user has its failure row in tx_history: the Response handler writes the row before it sends, so a db error stops the node before the user is told. No exchange gets two verdicts: a retried RecvAddrConfirmed finds its request already answered (and stops the receiver node instead). |
| peer_directory (`MCVaneDirectory.cfg`) | pass, ~146k states | `RemoteLookupOnce` | Spec 8.5: once resolved, an account is never resolved remotely again. This holds with dial, directory and transport failures, a retried Genesis, a restart of either node (`saved_peers` persists), and updates sent back as NetConfirmed or RecvAddrFailed. |
| receiver_verdict (`MCVaneLiveness.cfg`) | pass, fair, ~222 states | `GenesisGetsVerdict`, `TransactionSettles` | A started transaction to a known receiver always gets the receiver's verdict at the sender. It then settles: the sender node sends out a terminal status or writes a failure row, unless a node process stopped (a `todo!()`, a panicking conversion or a failed build). No transaction is left waiting while both nodes run. This holds with the intermediary, failed builds and chain errors, and without user retries. |
| sender_signature (`MCVaneSenderSig.cfg`) | violation | `SenderSignatureSound` | Branch A verifies the signature against `receiver_address`, so the sender's own signature is rejected (spec 8.2, S5). |
| happy_path (`MCVaneHappyPath.cfg`) | violation | `EventuallyBroadcast` | S1 never completes: the address the receiver check accepts makes `create_tx` panic. |
| multi_id_failure (`MCVaneMultiIdFailure.cfg`) | violation | `FailureRowIsTerminal` | After a multi-id mismatch, the transaction goes back to the user still SenderConfirmed (spec 4.2.3 B). |
| intent_refinement (`MCVaneIntent.cfg`) | pass, ~189k states | `ImplementsTransferIntent` | The two-node protocol implements `TransferIntent`. This holds with the intermediary's address in public-key form (so its self-signed rewrite passes the receiver check), wallet-built transfers, and failed builds, chain calls and db writes. |
| stale_saved_peer (`MCVaneRestart.cfg`) | violation | `StaleSavedPeerRefreshed` | The receiver's node restarts on a new random port. The sender's retried Genesis dials the saved, stale address, and the dial error ends the sender's node. `saved_peers` is never refreshed (spec 5). |
| db_write_failure (`MCVaneDbFailure.cfg`) | violation | `BroadcastRecorded` | TxSubmissionPassed is sent and the transfer is on the chain. Then `update_success_tx` fails, the node ends, and the broadcast has no history row (glossary, terminal status). |
| transport_unreported (`MCVaneTransport.cfg`) | violation | `TransportFailureReported` | A transport failure never reaches the sender's user (spec 7). A dial error is returned with `?` and ends the node (TLC's trace), and a lost exchange is only logged by the swarm task. |
| request_ids (`MCVaneRequestIds.cfg`) | violation | `ResponseMatchesRequest` | Two transactions from n1, to a2 (g1) and to r (g2). n2's user receives g1's request, then n2 restarts. g2's request gets inbound id 1 in the new process, the id g1's request had. The user's answer for g1 matches it, and g1 goes back as the response to g2's exchange. |
| status_monotonic (`MCVaneStatus.cfg`) | violation | `StatusMonotonic` | The orchestrator dispatches each update on the status it carries and keeps no per-transaction state (spec 4.1, 8.3). TLC's trace: the receiver check fails on `r`, the node emits RecvAddrFailed, and the user agent answers SenderConfirmed, so a transfer is built after a terminal status. The same holds for retries. A Genesis sent twice opens two requests, and the second response emits RecvAddrConfirmed after the first ended in SenderConfirmationFailed (F1). A SenderConfirmed resent after TxSubmissionPassed is rebroadcast, and the chain's refusal is emitted as TxSubmissionFailed. |

One divergence has no run. `Decode::decode(..).expect(..)` (lib.rs
156, 176) panics on a message that does not decode, so one malformed
message from any peer stops the receiving node. Spec 7 says such an event
is dropped with a log entry. The model has this step (`SwarmDecodePanics`,
fault `garble`), and peer_directory exercises it: `RemoteLookupOnce` holds
through it.

Each property of a pass run has a mutant in `PROJECT.json`: a variant
operator written just before the definition it replaces. Each mutant is
killed:
- `EmitUnbounded`: a send that does not wait for room;
- `SenderUnsignedCreatedNoMultiId`: Branch B without the multi-id check;
- `GenesisRemoteHitNoSave`: the remote hit is not recorded;
- `RecvAddrConfirmedSendToSelf`: the response is addressed to the node
  itself;
- `SenderSignedSubmittedUnchecked`: Branch A without the sender check. The
  refinement then fails: a tampered confirmation with the wallet's own
  build pays the intermediary. Today only the sender-check bug (F1) blocks
  that path, because Branch A never checks `multi_id`;
- `RestartForgetsPeers`: a new process that starts on an empty peer store.

## Bounds

- One user transaction per run, except request_ids. A second transaction
  multiplies the state space, and one already meets every handler branch.
  request_ids needs two, because a misrouted response is only visible
  between two transactions. It finds its trace after about 2.6k states.
- The user's choice of receiver and network is nondeterministic, so one
  transaction covers both address forms and several networks.
- `ChanCap = SwarmCap = 2`: channels do fill up, because a retry or a
  rewritten message queues a second update. The payload run uses
  `ChanCap = 1`, so a blocked send is a common case there.
- `MaxTamper = 1`: one rewrite is enough to put the wrong receiver in the
  flow.
- `MaxRetries = 1`: the user resends once. This gives a second Genesis (a
  local directory hit) and a second RecvAddrConfirmed (a missing slot).
- `MaxRequests = 2`: there are at most two request ids, one per Genesis
  sent.
- `MaxRestarts = 1`, in peer_directory, stale_saved_peer and request_ids: one restart per
  node is enough to make a saved address stale. Restarting again changes
  nothing new.
- The liveness run (receiver_verdict) has no user retries. A retried
  RecvAddrConfirmed already stops the receiver (RecvAddrConfirmedFails), and the
  sender's retried Genesis then fails its dial to the dead node. It also has
  one transaction. With two crossing transactions, the second one's
  `create_tx` panic (F2) stops a node while the first one's exchange with
  it is in flight; the spec lets a panic bring the process down.

## Fairness

The liveness runs use weak fairness on:
- each node's orchestrator step and swarm step, since tokio runs a ready
  task;
- delivery: libp2p delivers a request unless the exchange fails, and loss
  is a fault left out of these runs;
- the user agents' progress actions: start, receive, receiver sign, sender
  confirm, sender sign.

Retries, overrides, discards, crashes and restarts are never forced.

## Not modelled, and the plan

Not modelled:
- Collisions of the 64-bit id hash between two ids of one process. The
  ids are consecutive u64 values, and a collision among the few in flight
  is out of reach.
- libp2p's outbound request-id counter. The node never matches outbound
  ids, so the model keeps one global counter.
- The SCALE codec round trip (spec 8.4).
- `e2e_new` and `e2e_run`. They repeat `new` and `run` with a fixed port
  and db path, so a restarted e2e node keeps its address.
- `start_rpc_server` (jsonrpsee plumbing).
- Parse failures of a multiaddr or peer id read from saved_peers or the
  directory (lib.rs 256-257, 305-320). The records are taken to be well
  formed.
- The integration-test harness.
- The intermediary (`Tamper`) follows the spec's threat model (scenario
  S3): it cannot compute the `multi_id` of a new pair. The code's multi-id
  is an unkeyed Blake2 hash, which an intermediary could compute, so
  `PayloadPaysIntendedReceiver` holds against the spec's intermediary, not
  against that stronger one.
- The directory's record of a restarted node is taken to hold its new
  address. The Airtable client that writes it is outside the sources.

Next steps:
1. A codec module with a round-trip check over bounded records. It needs a
   run of its own, and the project keeps to twelve runs.
2. A liveness run with two transactions. With two transactions from n1 to
   n2's accounts, `GenesisGetsVerdict` fails. The SenderConfirmed handler
   of one transaction stops n1 (`SenderConfirmedStops`: a `create_tx` panic
   or a failed build) while the other transaction's exchange is in flight.
   This is the hazard at tx_processing.rs:211, already recorded.
