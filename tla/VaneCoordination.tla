-------------------------- MODULE VaneCoordination --------------------------
(***************************************************************************)
(* Two or more vane nodes (MainServiceWorker, node/src/lib.rs) running     *)
(* the transaction coordination protocol.  Each node has                   *)
(*   - the transaction-handling task (handle_incoming_rpc_tx_updates),     *)
(*     which takes user updates from the RPC channel and runs the handler  *)
(*     of their status;                                                    *)
(*   - the swarm task (handle_swarm_event_messages), which takes inbound   *)
(*     Request/Response events from the p2p swarm;                         *)
(*   - the local db (saved_peers, tx_history).                             *)
(* Around them: the p2p request/response transport (which may lose         *)
(* messages and which an intermediary may rewrite), the remote peer        *)
(* directory, the chain, and the user agents behind the RPC server, which  *)
(* sign and send updates back.                                             *)
(*                                                                         *)
(* A handler runs as one step.  Its awaits touch only state that the other *)
(* task of the node either does not use (peer cache, p2p service) or only  *)
(* appends to (rpc channel, tx_history), so no interleaving inside a       *)
(* handler is observable; a handler that would block on a full channel is  *)
(* a step that is not enabled.  A handler error (`?`) or a panic ends the  *)
(* task: the loop is left and nothing restarts it.                         *)
(***************************************************************************)
EXTENDS ChainProcessing, Sequences, FiniteSets

LOCAL INSTANCE SequencesExt

CONSTANTS
    Nodes,          \* the vane nodes
    NoNode,         \* "no node" (model value)
    Owner,          \* [Accounts -> Nodes \cup {NoNode}]: the node whose user holds the key
    Directory,      \* [Accounts -> Nodes \cup {NoNode}]: remote peer directory (Airtable)
    Mallory,        \* the account of the intermediary on the p2p path
    GenesisTxs,     \* [Gids -> [node, sender, receivers, networks]]: the node and sender
                    \* of each transaction users start, the receivers and networks
                    \* its user may pick
    SenderKeys,     \* [Nodes -> SUBSET Accounts]: keys the sender's signing agent may use
    WalletBuilds,   \* the sender's agent may build and sign the transfer itself
    ClientStatuses, \* statuses a user agent may put on an update it sends back
    Faults,         \* the environment faults enabled in this model, a subset of
                    \* {"dial", "directory", "loss", "tamper", "build", "chain", "crash",
                    \*  "db", "garble"}
    ChanCap,        \* capacity of the rpc channels (10 in the code)
    SwarmCap,       \* capacity of the swarm event channel (256 in the code)
    MaxTamper,      \* bound on messages the intermediary rewrites or garbles
    MaxRetries,     \* bound on updates a user agent sends again
    MaxRestarts     \* bound on the restarts of each node process

ASSUME
    /\ Mallory \in Accounts
    /\ ClientStatuses \subseteq Statuses
    /\ MaxRequests >= Cardinality(Gids) + MaxRetries

VARIABLES
    rpcIn,          \* [Nodes -> Seq(TxRecord)]: user_rpc_update channel into the node
    rpcOut,         \* [Nodes -> Seq(TxRecord)]: rpc_sender_channel out of the node
    swarmIn,        \* [Nodes -> Seq(Event)]: swarm events into handle_swarm_event_messages
    net,            \* requests and responses in transit
    inbound,        \* [Nodes -> set of [id, peer, oid, about]]: inbound requests awaiting
                    \* a response (oid: the requester's id; about: ghost, its gid)
    nextReq,        \* next outbound request id (only ever checked to be set)
    nextInbound,    \* [Nodes -> Nat]: the next InboundRequestId of the node's swarm;
                    \* a counter of the process, from 1 at every start
    alive,          \* [Nodes -> BOOLEAN]: the node process (both essential tasks) runs
    savedPeers,     \* [Nodes -> set of [acct, addr]]: local db saved_peers
    history,        \* [Nodes -> Seq([gid, success])]: local db tx_history
    chain,          \* broadcasts accepted by the chain: [gid, to, key]
    userBox,        \* [Nodes -> SUBSET TxRecord]: updates the user agent got, not yet handled
    lastSent,       \* [Nodes -> Option(TxRecord)]: the last update the user agent sent
    intended,       \* [Gids -> Option(Accounts)]: the receiver the user picked at Genesis
    retries,        \* [Nodes -> Nat]: updates sent again
    tampers,        \* messages rewritten by the intermediary
    epoch,          \* [Nodes -> Nat]: the listen address of the node's current process
                    \* (a fresh random port at every start: new(), lib.rs)
    remoteLookups,  \* ghost: [Nodes -> [Accounts -> Nat]], list_all_peers calls
                    \* that found the target
    emitted         \* ghost: [Nodes -> Seq([gid, status, oid])], every update the
                    \* node sent out on its rpc channel (oid: its outbound_req_id)

nodeVars  == <<rpcIn, rpcOut, swarmIn, alive, savedPeers, history>>
netVars   == <<net, inbound, nextReq, nextInbound, tampers>>
userVars  == <<userBox, lastSent, intended, retries>>
ghostVars == <<remoteLookups, emitted>>
vars == <<nodeVars, netVars, userVars, chain, ghostVars, epoch>>

\* Bytes on the wire that do not decode as a TxStateMachine (None stands for
\* them: no TxRecord is None).
Malformed == None

Event == [kind: {"Request", "Response"}, data: TxRecord \cup {Malformed}, id: ReqIds]
            \cup [kind: {"Error"}]

\* about (ghost): the transaction the exchange was opened for.
Message == [kind: {"Request", "Response"}, src: Nodes, dst: Nodes,
            id: ReqIds, data: TxRecord \cup {Malformed}, about: Gids]

OwnedKeys(n) == {a \in Accounts : Owner[a] = n}

Intended(g) == intended[g]

-----------------------------------------------------------------------------
(* Helpers shared by the handlers                                          *)

\* Variant for mutation checks: a send that does not wait for room.
EmitUnbounded(n, tx) ==
    /\ rpcOut' = [rpcOut EXCEPT ![n] = Append(@, tx)]
    /\ emitted' = [emitted EXCEPT ![n] = Append(@, [gid |-> tx.gid, status |-> tx.status,
                                                    oid |-> tx.outbound_req_id])]

\* self.rpc_sender_channel.lock().await.send(tx).await: blocks while full.
Emit(n, tx) ==
    /\ Len(rpcOut[n]) < ChanCap
    /\ rpcOut' = [rpcOut EXCEPT ![n] = Append(@, tx)]
    /\ emitted' = [emitted EXCEPT ![n] = Append(@, [gid |-> tx.gid, status |-> tx.status,
                                                    oid |-> tx.outbound_req_id])]

\* db_worker.update_success_tx / update_failed_tx
Record(n, tx, ok) ==
    history' = [history EXCEPT ![n] = Append(@, [gid |-> tx.gid, success |-> ok])]

\* The `?` or the panic leaves the loop of an essential task (run, lib.rs):
\* the TaskManager future fails and the process exits, both tasks and the
\* RPC server with it.
Stop(n) == alive' = [alive EXCEPT ![n] = FALSE]

\* The update at the head of the RPC channel, taken by the handling task.
Update(n) == Head(rpcIn[n])

TakeUpdate(n) ==
    /\ alive[n]
    /\ rpcIn[n] # <<>>
    /\ rpcIn' = [rpcIn EXCEPT ![n] = Tail(@)]

\* p2p_network_service.send_request: opens a request-response exchange.
SendRequest(n, peer, tx) ==
    /\ nextReq <= MaxRequests
    /\ net' = net \cup {[kind |-> "Request", src |-> n, dst |-> peer,
                         id |-> nextReq, data |-> tx, about |-> tx.gid]}
    /\ nextReq' = nextReq + 1

CountLookup(n, a) ==
    remoteLookups' = [remoteLookups EXCEPT ![n][a] = @ + 1]

\* saved_peers is keyed by account_id: at most one entry per account.
SavedAccounts(n) == {p.acct : p \in savedPeers[n]}

SavedAddr(n, a) == (CHOOSE p \in savedPeers[n] : p.acct = a).addr

\* dial_to_peer_id reaches a peer whose process runs and listens on addr.
Reachable(peer, addr) == alive[peer] /\ epoch[peer] = addr

\* record_saved_user_peers: the record list_all_peers returned, with the
\* address the receiver's node registered when its process started.
SavePeer(n, a) ==
    savedPeers' = [savedPeers EXCEPT ![n] = @ \cup {[acct |-> a, addr |-> epoch[Directory[a]]]}]

-----------------------------------------------------------------------------
(* Transaction-handling task: handle_incoming_rpc_tx_updates               *)

\* Genesis, receiver in saved_peers: dial the saved peer, send the request.
GenesisLocalHit(n) ==
    /\ TakeUpdate(n)
    /\ LET tx == Update(n) IN
       /\ tx.status = "Genesis"
       /\ tx.receiver_address \in SavedAccounts(n)
       /\ Reachable(Directory[tx.receiver_address], SavedAddr(n, tx.receiver_address))
       /\ SendRequest(n, Directory[tx.receiver_address], tx)
    /\ UNCHANGED <<epoch, rpcOut, swarmIn, alive, savedPeers, history,
                   inbound, nextInbound, tampers, userVars, chain, ghostVars>>

\* Variant for mutation checks: the remote hit is not recorded in saved_peers.
GenesisRemoteHitNoSave(n) ==
    /\ TakeUpdate(n)
    /\ LET tx == Update(n) IN
       /\ tx.status = "Genesis"
       /\ tx.receiver_address \notin SavedAccounts(n)
       /\ Directory[tx.receiver_address] # NoNode
       /\ alive[Directory[tx.receiver_address]]
       /\ CountLookup(n, tx.receiver_address)
       /\ SendRequest(n, Directory[tx.receiver_address], tx)
    /\ UNCHANGED <<epoch, emitted, rpcOut, swarmIn, alive, savedPeers, history,
                   inbound, nextInbound, tampers, userVars, chain>>

\* Genesis, not saved: list_all_peers finds the receiver; record it in
\* saved_peers, dial, wait, send the request.
GenesisRemoteHit(n) ==
    /\ TakeUpdate(n)
    /\ LET tx == Update(n) IN
       /\ tx.status = "Genesis"
       /\ tx.receiver_address \notin SavedAccounts(n)
       /\ Directory[tx.receiver_address] # NoNode
       /\ alive[Directory[tx.receiver_address]]
       /\ CountLookup(n, tx.receiver_address)
       /\ SavePeer(n, tx.receiver_address)
       /\ SendRequest(n, Directory[tx.receiver_address], tx)
    /\ UNCHANGED <<epoch, emitted, rpcOut, swarmIn, alive, history,
                   inbound, nextInbound, tampers, userVars, chain>>

\* Genesis, found nowhere: an error is logged and the update is dropped.
GenesisRemoteMiss(n) ==
    /\ TakeUpdate(n)
    /\ LET tx == Update(n) IN
       /\ tx.status = "Genesis"
       /\ tx.receiver_address \notin SavedAccounts(n)
       /\ Directory[tx.receiver_address] = NoNode
    /\ UNCHANGED <<epoch, rpcOut, swarmIn, alive, savedPeers, history,
                   netVars, userVars, chain, ghostVars>>

\* Genesis whose dial or send_request fails (after the peer was recorded on
\* the remote path), whose list_all_peers call fails, or whose
\* record_saved_user_peers write fails after the remote hit: the error ends
\* the task.  A dial fails on a dead peer or a stale saved address, or by the
\* "dial" fault on any peer.
GenesisFails(n) ==
    /\ TakeUpdate(n)
    /\ LET tx == Update(n)
           r  == tx.receiver_address
       IN
       /\ tx.status = "Genesis"
       /\ \/ /\ r \in SavedAccounts(n)
             /\ "dial" \in Faults \/ ~Reachable(Directory[r], SavedAddr(n, r))
             /\ UNCHANGED <<savedPeers, remoteLookups>>
          \/ /\ r \notin SavedAccounts(n)
             /\ Directory[r] # NoNode
             /\ "dial" \in Faults \/ ~alive[Directory[r]]
             /\ CountLookup(n, r)
             /\ SavePeer(n, r)
          \/ /\ "directory" \in Faults
             /\ r \notin SavedAccounts(n)
             /\ UNCHANGED <<savedPeers, remoteLookups>>
          \/ /\ "db" \in Faults
             /\ r \notin SavedAccounts(n)
             /\ Directory[r] # NoNode
             /\ CountLookup(n, r)
             /\ UNCHANGED savedPeers
    /\ Stop(n)
    /\ UNCHANGED <<epoch, emitted, rpcOut, swarmIn, history, netVars, userVars,
                   chain>>

\* Variant for mutation checks: the response is addressed to the node itself.
RecvAddrConfirmedSendToSelf(n) ==
    /\ TakeUpdate(n)
    /\ LET tx == Update(n) IN
       /\ tx.status = "RecvAddrConfirmed"
       /\ \E slot \in inbound[n] :
            /\ slot.id = tx.inbound_req_id
            /\ inbound' = [inbound EXCEPT ![n] = @ \ {slot}]
            /\ net' = net \cup {[kind |-> "Response", src |-> n, dst |-> n,
                                 id |-> slot.oid, data |-> tx, about |-> slot.about]}
    /\ UNCHANGED <<epoch, rpcOut, swarmIn, alive, savedPeers, history,
                   nextReq, nextInbound, tampers, userVars, chain, ghostVars>>

\* Variant for mutation checks: the pending request stays after it is answered.
RecvAddrConfirmedSendKeepsSlot(n) ==
    /\ TakeUpdate(n)
    /\ LET tx == Update(n) IN
       /\ tx.status = "RecvAddrConfirmed"
       /\ \E slot \in inbound[n] :
            /\ slot.id = tx.inbound_req_id
            /\ net' = net \cup {[kind |-> "Response", src |-> n, dst |-> slot.peer,
                                 id |-> slot.oid, data |-> tx, about |-> slot.about]}
    /\ UNCHANGED <<epoch, rpcOut, swarmIn, alive, savedPeers, history, inbound,
                   nextReq, nextInbound, tampers, userVars, chain, ghostVars>>

\* RecvAddrConfirmed: send_response on the inbound request the id names.
RecvAddrConfirmedSend(n) ==
    /\ TakeUpdate(n)
    /\ LET tx == Update(n) IN
       /\ tx.status = "RecvAddrConfirmed"
       /\ \E slot \in inbound[n] :
            /\ slot.id = tx.inbound_req_id
            /\ inbound' = [inbound EXCEPT ![n] = @ \ {slot}]
            /\ net' = net \cup {[kind |-> "Response", src |-> n, dst |-> slot.peer,
                                 id |-> slot.oid, data |-> tx, about |-> slot.about]}
    /\ UNCHANGED <<epoch, rpcOut, swarmIn, alive, savedPeers, history,
                   nextReq, nextInbound, tampers, userVars, chain, ghostVars>>

\* RecvAddrConfirmed without an inbound id (expect panics) or whose request
\* is no longer pending (send_response fails): the task ends.
RecvAddrConfirmedFails(n) ==
    /\ TakeUpdate(n)
    /\ LET tx == Update(n) IN
       /\ tx.status = "RecvAddrConfirmed"
       /\ \A slot \in inbound[n] : slot.id # tx.inbound_req_id
    /\ Stop(n)
    /\ UNCHANGED <<epoch, rpcOut, swarmIn, savedPeers, history, netVars,
                   userVars, chain, ghostVars>>

\* SenderConfirmed with signed_call_payload, the sender check rejects it:
\* sender_confirmation_failed, sent to the RPC.
SenderSignedRejected(n) ==
    /\ TakeUpdate(n)
    /\ LET tx == Update(n) IN
       /\ tx.status = "SenderConfirmed"
       /\ tx.signed_call_payload # None
       /\ ValidateReceiverSenderAddress(tx, "Sender") = "err"
       /\ Emit(n, sender_confirmation_failed(tx))
    /\ UNCHANGED <<epoch, swarmIn, alive, savedPeers, history,
                   netVars, userVars, chain, remoteLookups>>

\* Variant for mutation checks: Branch A submits without the sender check.
SenderSignedSubmittedUnchecked(n) ==
    /\ TakeUpdate(n)
    /\ LET tx == Update(n) IN
       /\ tx.status = "SenderConfirmed"
       /\ tx.signed_call_payload # None
       /\ "ok" \in SubmitTx(tx)
       /\ chain' = chain \cup {[gid |-> tx.gid, to |-> tx.call_payload.to,
                                key |-> tx.signed_call_payload.key]}
       /\ Emit(n, tx_submission_passed(tx))
       /\ Record(n, tx, TRUE)
    /\ UNCHANGED <<epoch, swarmIn, alive, savedPeers, netVars,
                   userVars, remoteLookups>>

\* SenderConfirmed with signed_call_payload, the sender check passes and
\* submit_tx returns the hash: tx_submission_passed is sent to the RPC, then
\* the success is recorded in tx_history; if that db write fails, its `?`
\* ends the task after the user was told.
SenderSignedSubmitted(n) ==
    /\ TakeUpdate(n)
    /\ LET tx == Update(n) IN
       /\ tx.status = "SenderConfirmed"
       /\ tx.signed_call_payload # None
       /\ ValidateReceiverSenderAddress(tx, "Sender") = "ok"
       /\ "ok" \in SubmitTx(tx)
       /\ chain' = chain \cup {[gid |-> tx.gid, to |-> tx.call_payload.to,
                                key |-> tx.signed_call_payload.key]}
       /\ Emit(n, tx_submission_passed(tx))
       /\ \/ Record(n, tx, TRUE) /\ UNCHANGED alive
          \/ "db" \in Faults /\ Stop(n) /\ UNCHANGED history
    /\ UNCHANGED <<epoch, swarmIn, savedPeers, netVars,
                   userVars, remoteLookups>>

\* Variant for mutation checks: a failed submission is only logged.
SenderSignedSubmitFailsSilently(n) ==
    /\ TakeUpdate(n)
    /\ LET tx == Update(n) IN
       /\ tx.status = "SenderConfirmed"
       /\ tx.signed_call_payload # None
       /\ ValidateReceiverSenderAddress(tx, "Sender") = "ok"
       /\ \/ "err" \in SubmitTx(tx)
          \/ "rpc_err" \in SubmitTx(tx) /\ "chain" \in Faults
    /\ UNCHANGED <<epoch, rpcOut, swarmIn, alive, savedPeers, history,
                   netVars, userVars, chain, ghostVars>>

\* SenderConfirmed with signed_call_payload, the sender check passes and
\* submit_tx fails (no call_payload, or the chain RPC errs):
\* tx_submission_failed is sent to the RPC; nothing is recorded.
SenderSignedSubmitFails(n) ==
    /\ TakeUpdate(n)
    /\ LET tx == Update(n) IN
       /\ tx.status = "SenderConfirmed"
       /\ tx.signed_call_payload # None
       /\ ValidateReceiverSenderAddress(tx, "Sender") = "ok"
       /\ \/ "err" \in SubmitTx(tx)
          \/ "rpc_err" \in SubmitTx(tx) /\ "chain" \in Faults
       /\ Emit(n, tx_submission_failed(tx))
    /\ UNCHANGED <<epoch, swarmIn, alive, savedPeers, history,
                   netVars, userVars, chain, remoteLookups>>

\* SenderConfirmed without signature, the multi-id does not match: a failed
\* tx is recorded and the update is sent back to the RPC as it came.  A
\* failed db write ends the task before anything is sent.
SenderUnsignedMultiIdFails(n) ==
    /\ TakeUpdate(n)
    /\ LET tx == Update(n) IN
       /\ tx.status = "SenderConfirmed"
       /\ tx.signed_call_payload = None
       /\ ~ValidateMultiId(tx)
       /\ \/ Record(n, tx, FALSE) /\ Emit(n, tx) /\ UNCHANGED alive
          \/ "db" \in Faults /\ Stop(n) /\ UNCHANGED <<history, rpcOut, emitted>>
    /\ UNCHANGED <<epoch, swarmIn, savedPeers, netVars,
                   userVars, chain, remoteLookups>>

\* Variant for mutation checks: create_tx without the multi-id check.
SenderUnsignedCreatedNoMultiId(n) ==
    /\ TakeUpdate(n)
    /\ LET tx == Update(n) IN
       /\ tx.status = "SenderConfirmed"
       /\ tx.signed_call_payload = None
       /\ \E out \in CreateTx(tx) :
            /\ out.res = "ok"
            /\ Emit(n, out.tx)
    /\ UNCHANGED <<epoch, swarmIn, alive, savedPeers, history,
                   netVars, userVars, chain, remoteLookups>>

\* SenderConfirmed without signature, the multi-id matches: create_tx fills
\* call_payload and the update is sent to the RPC to be signed.
SenderUnsignedCreated(n) ==
    /\ TakeUpdate(n)
    /\ LET tx == Update(n) IN
       /\ tx.status = "SenderConfirmed"
       /\ tx.signed_call_payload = None
       /\ ValidateMultiId(tx)
       /\ \E out \in CreateTx(tx) :
            /\ out.res = "ok"
            /\ Emit(n, out.tx)
    /\ UNCHANGED <<epoch, swarmIn, alive, savedPeers, history,
                   netVars, userVars, chain, remoteLookups>>

\* A SenderConfirmed update that ends the task: a todo!() or a panicking
\* conversion (validate on Polkadot, submit_tx on Solana/Polkadot, create_tx
\* on Solana/Polkadot or on a receiver that is not 20 bytes), or an error
\* returned by create_tx.
SenderConfirmedStops(n) ==
    /\ TakeUpdate(n)
    /\ LET tx == Update(n)
           v  == ValidateReceiverSenderAddress(tx, "Sender")
       IN
       /\ tx.status = "SenderConfirmed"
       /\ IF tx.signed_call_payload # None
          THEN v = "panic" \/ (v = "ok" /\ "panic" \in SubmitTx(tx))
          ELSE /\ ValidateMultiId(tx)
               /\ \E out \in CreateTx(tx) :
                    out.res = "panic" \/ (out.res = "err" /\ "build" \in Faults)
    /\ Stop(n)
    /\ UNCHANGED <<epoch, rpcOut, swarmIn, savedPeers, history, netVars,
                   userVars, chain, ghostVars>>

\* NetConfirmed: the match arm is todo!(), which panics and ends the task.
NetConfirmedPanics(n) ==
    /\ TakeUpdate(n)
    /\ Update(n).status = "NetConfirmed"
    /\ Stop(n)
    /\ UNCHANGED <<epoch, rpcOut, swarmIn, savedPeers, history, netVars,
                   userVars, chain, ghostVars>>

\* Any other status (`_ => {}`): the update is dropped without a word.
OtherStatusIgnored(n) ==
    /\ TakeUpdate(n)
    /\ Update(n).status \notin {"Genesis", "RecvAddrConfirmed", "NetConfirmed",
                                 "SenderConfirmed"}
    /\ UNCHANGED <<epoch, rpcOut, swarmIn, alive, savedPeers, history, netVars,
                   userVars, chain, ghostVars>>

-----------------------------------------------------------------------------
(* Swarm task: handle_swarm_event_messages                                 *)

\* Request: set inbound_req_id and pass the tx to the RPC for the receiver.
SwarmRequest(n) ==
    /\ alive[n]
    /\ swarmIn[n] # <<>>
    /\ Head(swarmIn[n]).kind = "Request"
    /\ Head(swarmIn[n]).data # Malformed
    /\ LET ev == Head(swarmIn[n]) IN
       Emit(n, [ev.data EXCEPT !.inbound_req_id = ev.id])
    /\ swarmIn' = [swarmIn EXCEPT ![n] = Tail(@)]
    /\ UNCHANGED <<epoch, rpcIn, alive, savedPeers, history, netVars,
                   userVars, chain, remoteLookups>>

\* Variant for mutation checks: the verdict is sent before the failure row is
\* written, so a failed db write ends the task after the user was told.
SwarmResponseReportsFirst(n) ==
    /\ alive[n]
    /\ swarmIn[n] # <<>>
    /\ Head(swarmIn[n]).kind = "Response"
    /\ Head(swarmIn[n]).data # Malformed
    /\ LET ev == Head(swarmIn[n])
           tx == [ev.data EXCEPT !.outbound_req_id = ev.id]
           v  == ValidateReceiverSenderAddress(tx, "Receiver")
       IN
       \/ v = "ok" /\ Emit(n, recv_confirmation_passed(tx)) /\ UNCHANGED <<history, alive>>
       \/ /\ v = "err"
          /\ Emit(n, recv_confirmation_failed(tx))
          /\ \/ Record(n, tx, FALSE) /\ UNCHANGED alive
             \/ "db" \in Faults /\ Stop(n) /\ UNCHANGED history
       \/ v = "panic" /\ Stop(n) /\ UNCHANGED <<rpcOut, history, emitted>>
    /\ swarmIn' = [swarmIn EXCEPT ![n] = Tail(@)]
    /\ UNCHANGED <<epoch, rpcIn, savedPeers, netVars, userVars, chain,
                   remoteLookups>>

\* Response: set outbound_req_id, check the receiver's signature; on success
\* recv_confirmation_passed, on failure recv_confirmation_failed and a failed
\* tx in tx_history; pass the tx to the RPC for the sender.  Polkadot panics;
\* a failed db write ends the task before the verdict is sent.
SwarmResponse(n) ==
    /\ alive[n]
    /\ swarmIn[n] # <<>>
    /\ Head(swarmIn[n]).kind = "Response"
    /\ Head(swarmIn[n]).data # Malformed
    /\ LET ev == Head(swarmIn[n])
           tx == [ev.data EXCEPT !.outbound_req_id = ev.id]
           v  == ValidateReceiverSenderAddress(tx, "Receiver")
       IN
       \/ /\ v = "ok"
          /\ Emit(n, recv_confirmation_passed(tx))
          /\ UNCHANGED <<history, alive>>
       \/ /\ v = "err"
          /\ \/ /\ Record(n, tx, FALSE)
                /\ Emit(n, recv_confirmation_failed(tx))
                /\ UNCHANGED alive
             \/ "db" \in Faults /\ Stop(n) /\ UNCHANGED <<history, rpcOut, emitted>>
       \/ /\ v = "panic"
          /\ Stop(n)
          /\ UNCHANGED <<rpcOut, history, emitted>>
    /\ swarmIn' = [swarmIn EXCEPT ![n] = Tail(@)]
    /\ UNCHANGED <<epoch, rpcIn, savedPeers, netVars, userVars, chain,
                   remoteLookups>>

\* Request or Response whose data does not decode: the
\* `.expect("failed to decode request body")` panics in the swarm task, an
\* essential task, and the process exits.
SwarmDecodePanics(n) ==
    /\ alive[n]
    /\ swarmIn[n] # <<>>
    /\ Head(swarmIn[n]).kind \in {"Request", "Response"}
    /\ Head(swarmIn[n]).data = Malformed
    /\ Stop(n)
    /\ swarmIn' = [swarmIn EXCEPT ![n] = Tail(@)]
    /\ UNCHANGED <<epoch, rpcIn, rpcOut, savedPeers, history, netVars,
                   userVars, chain, ghostVars>>

\* A failed exchange reported by the swarm: logged, the loop continues.
SwarmError(n) ==
    /\ alive[n]
    /\ swarmIn[n] # <<>>
    /\ Head(swarmIn[n]).kind = "Error"
    /\ swarmIn' = [swarmIn EXCEPT ![n] = Tail(@)]
    /\ UNCHANGED <<epoch, rpcIn, rpcOut, alive, savedPeers, history,
                   netVars, userVars, chain, ghostVars>>

-----------------------------------------------------------------------------
(* The p2p transport and the intermediary                                  *)

\* The swarm of the destination receives a message and queues its event; an
\* inbound request stays pending until it is answered.
Deliver(m) ==
    /\ m \in net
    /\ alive[m.dst]
    /\ Len(swarmIn[m.dst]) < SwarmCap
    /\ net' = net \ {m}
    /\ \/ /\ m.kind = "Request"
          /\ LET id == nextInbound[m.dst] IN
             /\ swarmIn' = [swarmIn EXCEPT ![m.dst] =
                              Append(@, [kind |-> "Request", data |-> m.data, id |-> id])]
             /\ inbound' = [inbound EXCEPT ![m.dst] =
                              @ \cup {[id |-> id, peer |-> m.src, oid |-> m.id, about |-> m.about]}]
             /\ nextInbound' = [nextInbound EXCEPT ![m.dst] = @ + 1]
       \/ /\ m.kind = "Response"
          /\ swarmIn' = [swarmIn EXCEPT ![m.dst] =
                           Append(@, [kind |-> "Response", data |-> m.data, id |-> m.id])]
          /\ UNCHANGED <<inbound, nextInbound>>
    /\ UNCHANGED <<epoch, rpcIn, rpcOut, alive, savedPeers, history,
                   nextReq, tampers, userVars, chain, ghostVars>>

\* The exchange fails (timeout, connection lost, or the process at either
\* end is gone); the requesting node's swarm reports an error event.
Lose(m) ==
    /\ "loss" \in Faults \/ ~alive[m.dst] \/ ~alive[m.src]
    /\ m \in net
    /\ LET requester == IF m.kind = "Request" THEN m.src ELSE m.dst IN
       /\ Len(swarmIn[requester]) < SwarmCap
       /\ swarmIn' = [swarmIn EXCEPT ![requester] = Append(@, [kind |-> "Error"])]
    /\ net' = net \ {m}
    /\ UNCHANGED <<epoch, rpcIn, rpcOut, alive, savedPeers, history,
                   inbound, nextReq, nextInbound, tampers, userVars, chain, ghostVars>>

\* The intermediary rewrites receiver_address to its own account; on a
\* response it also signs its own address.  It cannot produce the multi-id
\* of the new pair (spec, scenario S3).
Tamper(m) ==
    /\ "tamper" \in Faults
    /\ tampers < MaxTamper
    /\ m \in net
    /\ m.data # Malformed
    /\ m.data.receiver_address # Mallory
    /\ net' = (net \ {m}) \cup
              {[m EXCEPT !.data.receiver_address = Mallory,
                         !.data.recv_signature =
                            IF m.kind = "Response" THEN [key |-> Mallory, msg |-> Mallory]
                                                   ELSE @]}
    /\ tampers' = tampers + 1
    /\ UNCHANGED <<epoch, nodeVars, inbound, nextReq, nextInbound, userVars, chain,
                   ghostVars>>

\* A peer, or the intermediary, sends bytes that do not decode (a peer on
\* another version of the record, or a corrupted payload).
Garble(m) ==
    /\ "garble" \in Faults
    /\ tampers < MaxTamper
    /\ m \in net
    /\ m.data # Malformed
    /\ net' = (net \ {m}) \cup {[m EXCEPT !.data = Malformed]}
    /\ tampers' = tampers + 1
    /\ UNCHANGED <<epoch, nodeVars, inbound, nextReq, nextInbound, userVars, chain,
                   ghostVars>>

-----------------------------------------------------------------------------
(* The node process, killed and started again (run, new: lib.rs)           *)

\* The process is killed from outside (operator, host, out of memory).
Crash(n) ==
    /\ "crash" \in Faults
    /\ alive[n]
    /\ Stop(n)
    /\ UNCHANGED <<epoch, rpcIn, rpcOut, swarmIn, savedPeers, history,
                   netVars, userVars, chain, ghostVars>>

\* The old process is gone with its connections: nothing it sent or is owed
\* is in flight, and no node still holds a request from it.
Disconnected(n) ==
    /\ \A m \in net : n \notin {m.src, m.dst}
    /\ \A k \in Nodes : \A slot \in inbound[k] : slot.peer # n

\* Variant for mutation checks: the new process starts on an empty peer store.
RestartForgetsPeers(n) ==
    /\ ~alive[n]
    /\ epoch[n] < MaxRestarts
    /\ Disconnected(n)
    /\ alive' = [alive EXCEPT ![n] = TRUE]
    /\ epoch' = [epoch EXCEPT ![n] = @ + 1]
    /\ rpcIn' = [rpcIn EXCEPT ![n] = <<>>]
    /\ rpcOut' = [rpcOut EXCEPT ![n] = <<>>]
    /\ swarmIn' = [swarmIn EXCEPT ![n] = <<>>]
    /\ inbound' = [inbound EXCEPT ![n] = {}]
    /\ nextInbound' = [nextInbound EXCEPT ![n] = 1]
    /\ savedPeers' = [savedPeers EXCEPT ![n] = {}]
    /\ UNCHANGED <<history, net, nextReq, tampers, userVars, chain, ghostVars>>

\* run() starts a new process: new() makes fresh channels and a p2p worker
\* listening on a new random port, and reopens db/dev.db, so saved_peers and
\* tx_history survive while the channels, the swarm's pending inbound
\* requests and the old listen address do not.
Restart(n) ==
    /\ ~alive[n]
    /\ epoch[n] < MaxRestarts
    /\ Disconnected(n)
    /\ alive' = [alive EXCEPT ![n] = TRUE]
    /\ epoch' = [epoch EXCEPT ![n] = @ + 1]
    /\ rpcIn' = [rpcIn EXCEPT ![n] = <<>>]
    /\ rpcOut' = [rpcOut EXCEPT ![n] = <<>>]
    /\ swarmIn' = [swarmIn EXCEPT ![n] = <<>>]
    /\ inbound' = [inbound EXCEPT ![n] = {}]
    /\ nextInbound' = [nextInbound EXCEPT ![n] = 1]
    /\ UNCHANGED <<savedPeers, history, net, nextReq, tampers, userVars,
                   chain, ghostVars>>

-----------------------------------------------------------------------------
(* User agents behind the RPC server (environment).  Each receives what    *)
(* its node sends out (the watch subscription) and answers with updates;   *)
(* the RPC server accepts any update, in any status.                       *)

\* update_transaction / submit_transaction: blocks while the channel is full.
UserPush(n, tx) ==
    /\ alive[n]
    /\ Len(rpcIn[n]) < ChanCap
    /\ rpcIn' = [rpcIn EXCEPT ![n] = Append(@, tx)]
    /\ lastSent' = [lastSent EXCEPT ![n] = tx]

\* The user starts a transaction to a receiver and network of its choice:
\* a Genesis update.
SubmitGenesis(n) ==
    /\ \E g \in Gids, to \in Accounts, nw \in Networks :
         /\ intended[g] = None
         /\ GenesisTxs[g].node = n
         /\ to \in GenesisTxs[g].receivers
         /\ nw \in GenesisTxs[g].networks
         /\ UserPush(n, NewTx(g, GenesisTxs[g].sender, to, nw))
         /\ intended' = [intended EXCEPT ![g] = to]
    /\ UNCHANGED <<epoch, rpcOut, swarmIn, alive, savedPeers, history,
                   netVars, userBox, retries, chain, ghostVars>>

\* The subscription hands the next update of the node to its user agent.
UserReceive(n) ==
    /\ alive[n]
    /\ rpcOut[n] # <<>>
    /\ userBox' = [userBox EXCEPT ![n] = @ \cup {Head(rpcOut[n])}]
    /\ rpcOut' = [rpcOut EXCEPT ![n] = Tail(@)]
    /\ UNCHANGED <<epoch, rpcIn, swarmIn, alive, savedPeers, history,
                   netVars, lastSent, intended, retries, chain, ghostVars>>

\* Handle an update in the box: remove it and push the answer.
Answer(n, tx, answer) ==
    /\ userBox' = [userBox EXCEPT ![n] = @ \ {tx}]
    /\ UserPush(n, answer)
    /\ UNCHANGED <<epoch, rpcOut, swarmIn, alive, savedPeers, history,
                   netVars, intended, retries, chain, ghostVars>>

\* The receiver's agent signs receiver_address and confirms it: with the
\* key of that address when it holds it, else (the address is not its own)
\* with any key it holds.
SigningKeys(n, a) == IF a \in OwnedKeys(n) THEN {a} ELSE OwnedKeys(n)

ReceiverSigns(n) ==
    \E tx \in userBox[n] :
      \E k \in SigningKeys(n, tx.receiver_address) :
        /\ tx.status = "Genesis"
        /\ tx.inbound_req_id # None
        /\ Answer(n, tx, [tx EXCEPT !.recv_signature = [key |-> k, msg |-> tx.receiver_address],
                                    !.status = "RecvAddrConfirmed"])

\* The sender's agent confirms a receiver-confirmed transaction: either it
\* asks the node to build the transfer, or its wallet builds and signs it.
SenderConfirms(n) ==
    \E tx \in userBox[n] :
        /\ tx.status = "RecvAddrConfirmed"
        /\ tx.outbound_req_id # None
        /\ \/ Answer(n, tx, [tx EXCEPT !.status = "SenderConfirmed"])
           \/ /\ WalletBuilds
              /\ \E k \in SenderKeys[n] :
                   Answer(n, tx, [tx EXCEPT !.status = "SenderConfirmed",
                                  !.call_payload = [to |-> tx.receiver_address],
                                  !.signed_call_payload = [key |-> k, msg |-> tx.sender_address]])

\* The sender's agent goes on although the receiver check failed.
SenderOverrides(n) ==
    \E tx \in userBox[n] :
        /\ tx.status = "RecvAddrFailed"
        /\ Answer(n, tx, [tx EXCEPT !.status = "SenderConfirmed"])

\* The sender's signing agent signs sender_address for a built transfer.
SenderSigns(n) ==
    \E tx \in userBox[n], k \in SenderKeys[n] :
        /\ tx.status = "SenderConfirmed"
        /\ tx.call_payload # None
        /\ tx.signed_call_payload = None
        /\ Answer(n, tx, [tx EXCEPT !.signed_call_payload = [key |-> k, msg |-> tx.sender_address]])

\* A user agent sends back an update it received under a status of its
\* choosing (the RPC server does not check the status it is given).
UserSetsStatus(n) ==
    \E tx \in userBox[n], st \in ClientStatuses :
        Answer(n, tx, [tx EXCEPT !.status = st])

\* A user agent sends its last update again (a retry after a timeout or a
\* failure).
UserResends(n) ==
    /\ retries[n] < MaxRetries
    /\ lastSent[n] # None
    /\ UserPush(n, lastSent[n])
    /\ retries' = [retries EXCEPT ![n] = @ + 1]
    /\ UNCHANGED <<epoch, rpcOut, swarmIn, alive, savedPeers, history,
                   netVars, userBox, intended, chain, ghostVars>>

\* A user agent drops an update it has nothing to do with.
UserDiscards(n) ==
    /\ \E tx \in userBox[n] :
         /\ \/ tx.status \in TerminalStatuses
            \/ tx.status = "SenderConfirmed" /\ tx.call_payload = None
         /\ userBox' = [userBox EXCEPT ![n] = @ \ {tx}]
    /\ UNCHANGED <<epoch, nodeVars, netVars, lastSent, intended, retries, chain, ghostVars>>

-----------------------------------------------------------------------------

\* Nothing is left to do: every channel and box is empty and every
\* transaction was started, or a task of some node has ended.
Halted == \E n \in Nodes : ~alive[n]

Quiescent ==
    /\ \A g \in Gids : intended[g] # None
    /\ net = {}
    /\ \A n \in Nodes : rpcIn[n] = <<>> /\ rpcOut[n] = <<>>
                        /\ swarmIn[n] = <<>> /\ userBox[n] = {}

Idle == (Halted \/ Quiescent) /\ UNCHANGED vars

Init ==
    /\ rpcIn = [n \in Nodes |-> <<>>]
    /\ rpcOut = [n \in Nodes |-> <<>>]
    /\ swarmIn = [n \in Nodes |-> <<>>]
    /\ net = {}
    /\ inbound = [n \in Nodes |-> {}]
    /\ nextReq = 1
    /\ nextInbound = [n \in Nodes |-> 1]
    /\ alive = [n \in Nodes |-> TRUE]
    /\ savedPeers = [n \in Nodes |-> {}]
    /\ history = [n \in Nodes |-> <<>>]
    /\ chain = {}
    /\ userBox = [n \in Nodes |-> {}]
    /\ lastSent = [n \in Nodes |-> None]
    /\ intended = [g \in Gids |-> None]
    /\ retries = [n \in Nodes |-> 0]
    /\ tampers = 0
    /\ remoteLookups = [n \in Nodes |-> [a \in Accounts |-> 0]]
    /\ epoch = [n \in Nodes |-> 0]
    /\ emitted = [n \in Nodes |-> <<>>]

OrchestratorStep(n) ==
    \/ GenesisLocalHit(n) \/ GenesisRemoteHit(n) \/ GenesisRemoteMiss(n)
    \/ GenesisFails(n)
    \/ RecvAddrConfirmedSend(n) \/ RecvAddrConfirmedFails(n)
    \/ SenderSignedRejected(n) \/ SenderSignedSubmitted(n)
    \/ SenderSignedSubmitFails(n)
    \/ SenderUnsignedMultiIdFails(n) \/ SenderUnsignedCreated(n)
    \/ SenderConfirmedStops(n)
    \/ NetConfirmedPanics(n) \/ OtherStatusIgnored(n)

SwarmStep(n) ==
    SwarmRequest(n) \/ SwarmResponse(n) \/ SwarmDecodePanics(n) \/ SwarmError(n)

Transport == \E m \in net : Deliver(m) \/ Lose(m) \/ Tamper(m) \/ Garble(m)

Process(n) == Crash(n) \/ Restart(n)

UserStep(n) ==
    \/ SubmitGenesis(n) \/ UserReceive(n) \/ ReceiverSigns(n)
    \/ SenderConfirms(n) \/ SenderOverrides(n) \/ SenderSigns(n)
    \/ UserSetsStatus(n) \/ UserResends(n) \/ UserDiscards(n)

Next ==
    \/ \E n \in Nodes : OrchestratorStep(n) \/ SwarmStep(n) \/ UserStep(n)
                        \/ Process(n)
    \/ Transport
    \/ Idle

Spec == Init /\ [][Next]_vars

\* The tokio tasks are scheduled fairly, the transport delivers what it is
\* not made to lose, and users keep answering what their node sends them.
Fairness ==
    /\ \A n \in Nodes :
         /\ WF_vars(OrchestratorStep(n))
         /\ WF_vars(SwarmStep(n))
         /\ WF_vars(SubmitGenesis(n))
         /\ WF_vars(UserReceive(n))
         /\ WF_vars(ReceiverSigns(n))
         /\ WF_vars(SenderConfirms(n))
         /\ WF_vars(SenderSigns(n))
    /\ WF_vars(\E m \in net : Deliver(m))

FairSpec == Spec /\ Fairness

-----------------------------------------------------------------------------
(* Properties                                                              *)

\* Every variable has its type, and no bounded channel holds more than its
\* capacity (tokio mpsc send waits for room).
TypeOK ==
    /\ rpcIn \in [Nodes -> Seq(TxRecord)]
    /\ rpcOut \in [Nodes -> Seq(TxRecord)]
    /\ swarmIn \in [Nodes -> Seq(Event)]
    /\ net \subseteq Message
    /\ inbound \in [Nodes -> SUBSET [id: ReqIds, peer: Nodes, oid: ReqIds, about: Gids]]
    /\ nextInbound \in [Nodes -> 1..(MaxRequests + 1)]
    /\ nextReq \in 1..(MaxRequests + 1)
    /\ alive \in [Nodes -> BOOLEAN]
    /\ savedPeers \in [Nodes -> SUBSET [acct: Accounts, addr: 0..MaxRestarts]]
    /\ \A n \in Nodes : \A p, q \in savedPeers[n] : p.acct = q.acct => p = q
    /\ epoch \in [Nodes -> 0..MaxRestarts]
    /\ history \in [Nodes -> Seq([gid: Gids, success: BOOLEAN])]
    /\ chain \subseteq [gid: Gids, to: Accounts, key: Accounts]
    /\ userBox \in [Nodes -> SUBSET TxRecord]
    /\ lastSent \in [Nodes -> Option(TxRecord)]
    /\ intended \in [Gids -> Option(Accounts)]
    /\ retries \in [Nodes -> 0..MaxRetries]
    /\ tampers \in 0..MaxTamper
    /\ \A n \in Nodes : /\ Len(rpcIn[n]) <= ChanCap /\ Len(rpcOut[n]) <= ChanCap
                      /\ Len(swarmIn[n]) <= SwarmCap

\* Every transfer a node builds (create_tx, after the multi-id check of the
\* SenderConfirmed handler, seen on the node's rpc channel) and every broadcast the chain accepts pays the
\* receiver the sender's user chose at Genesis, whatever the intermediary
\* rewrote on the way and whatever the user agents answered.
PayloadPaysIntendedReceiver ==
    /\ \A n \in Nodes : \A tx \in Range(rpcOut[n]) :
         (tx.status = "SenderConfirmed" /\ tx.call_payload # None)
            => tx.call_payload.to = Intended(tx.gid)
    /\ \A b \in chain : b.to = Intended(b.gid)

\* Peer-directory idempotence (spec 8.5): once the remote directory has
\* resolved an account for a node, the Genesis handler of that node never
\* resolves it remotely again, across dial failures, retried Genesis
\* updates and restarts of either node (saved_peers is in db/dev.db).
RemoteLookupOnce ==
    \A n \in Nodes, a \in Accounts :
        Directory[a] # NoNode => remoteLookups[n][a] <= 1

\* Every started transaction whose receiver is in the directory eventually
\* gets the receiver's verdict at its sender node: the Genesis handler, the
\* receiver's swarm and orchestrator and the sender's swarm all do their
\* part (spec 4.2, 4.2.1, 4.2.2).
Verdict(g) ==
    \E tx \in Range(rpcOut[GenesisTxs[g].node]) :
        tx.gid = g /\ tx.status \in {"RecvAddrConfirmed", "RecvAddrFailed"}

GenesisGetsVerdict ==
    \A g \in Gids :
        <>(intended[g] # None /\ Directory[intended[g]] # NoNode) => <>Verdict(g)

\* Spec section 2: "the loop terminates when the transaction reaches a
\* terminal status (successful broadcast, or any failure recorded to the
\* local store)".  So with fair tasks, a fair transport and user agents that
\* keep answering, every started transaction to a known receiver settles: its
\* sender node sends out a terminal status for it or records a failure row
\* for it, unless a node process has stopped.  It is about the hand-offs of
\* both tasks of both nodes and both user agents through the whole flow.
Settled(g) ==
    LET n == GenesisTxs[g].node IN
    \/ \E i \in DOMAIN emitted[n] :
         emitted[n][i].gid = g /\ emitted[n][i].status \in TerminalStatuses
    \/ [gid |-> g, success |-> FALSE] \in Range(history[n])
    \/ Halted

TransactionSettles ==
    \A g \in Gids :
        <>(intended[g] # None /\ Directory[intended[g]] # NoNode) => <>Settled(g)

\* Section 7: a transport failure, a failed dial or a connection lost
\* mid-exchange, "is propagated to the handler, which reports to the user".  So the sender's
\* user eventually hears back about every started transaction to a known
\* receiver: a verdict, or a report that the exchange failed.
Answered(g) ==
    \E tx \in Range(rpcOut[GenesisTxs[g].node]) : tx.gid = g

TransportFailureReported ==
    \A g \in Gids :
        <>(intended[g] # None /\ Directory[intended[g]] # NoNode) => <>Answered(g)

\* Signature soundness (spec 8.2, scenario S5): the SenderConfirmed handler
\* (Branch A) submits a signed transfer exactly when the signature was made
\* with the sender's own key over sender_address, and rejects it otherwise.
SenderSignatureSound ==
    \A n \in Nodes : \A tx \in Range(rpcOut[n]) :
        LET bySender == tx.signed_call_payload # None
                        /\ tx.signed_call_payload.key = tx.sender_address
        IN  /\ tx.status \in {"TxSubmissionPassed", "TxSubmissionFailed"} => bySender
            /\ tx.status = "SenderConfirmationFailed" => ~bySender

\* Scenario S1: with honest user agents and no fault, every started
\* transaction is eventually broadcast to the chain.
EventuallyBroadcast ==
    \A g \in Gids : intended[g] # None ~> \E b \in chain : b.gid = g

\* Spec 4.2.3 Branch B and section 7: a step of a handler that appends a
\* failure row to tx_history sends the transaction out on the rpc channel
\* in a terminal status.
FailureRowIsTerminal ==
    [][\A n \in Nodes :
         (Len(history'[n]) > Len(history[n]) /\ ~Last(history'[n]).success)
            => /\ Len(rpcOut'[n]) > Len(rpcOut[n])
               /\ Last(rpcOut'[n]).status \in TerminalStatuses]_vars

\* Spec section 5: a stale multiaddress in saved_peers "is detected as a dial
\* failure at C3 and triggers an out-of-band remote-directory refresh".  So
\* a step of the Genesis handler that meets its receiver saved under an
\* address the receiver's node no longer listens on (the node restarted on
\* a new port) leaves the saved entry at the address that node registered.
SavedCurrent(peers, ep, a) == \E p \in peers : p.acct = a /\ p.addr = ep[Directory[a]]

StaleSavedPeerRefreshed ==
    [][\A n \in Nodes :
         LET a == Update(n).receiver_address IN
         (/\ alive[n] /\ rpcIn[n] # <<>> /\ rpcIn'[n] = Tail(rpcIn[n])
          /\ Update(n).status = "Genesis"
          /\ a \in SavedAccounts(n)
          /\ ~SavedCurrent(savedPeers[n], epoch, a))
            => SavedCurrent(savedPeers'[n], epoch', a)]_vars


\* Glossary, terminal status: a terminal status reached on the broadcast path
\* is always accompanied by a persisted history row.  So every transfer the
\* chain accepted has a success row in the tx_history of its sender's node.
BroadcastRecorded ==
    \A b \in chain :
        \E i \in DOMAIN history[GenesisTxs[b.gid].node] :
            history[GenesisTxs[b.gid].node][i] = [gid |-> b.gid, success |-> TRUE]

\* Section 3: inbound_req_id is set "so the orchestrator can later target the
\* correct in-flight request/response slot".  So the response send_response
\* puts on an exchange carries the transaction that exchange was opened for.
\* It is about the hashed InboundRequestId (swarm task) matched against
\* pending requests by the RecvAddrConfirmed handler.
ResponseMatchesRequest ==
    \A m \in net : m.kind = "Response" /\ m.data # Malformed => m.data.gid = m.about

\* Section 4.2 (Response) and the glossary: a failed receiver check is
\* appended to the persisted history and the transaction forwarded to the
\* sender's user.  So whenever a node has told its user that the receiver
\* check of a transaction failed (the Response handler of the swarm task), its
\* tx_history holds a failure row for that transaction, although the db write
\* may fail and end the node between the two steps.
FailureVerdictRecorded ==
    \A n \in Nodes : \A i \in DOMAIN emitted[n] :
        emitted[n][i].status = "RecvAddrFailed"
            => [gid |-> emitted[n][i].gid, success |-> FALSE] \in Range(history[n])

\* The swarm answers an inbound request at most once (send_response consumes
\* its response channel).  So a sender node forwards at most one receiver
\* verdict per exchange (outbound_req_id), whatever the receiver's user agent
\* sends again: a RecvAddrConfirmed retried after its response went out finds
\* no pending request in the RecvAddrConfirmed handler.
Verdicts == {"RecvAddrConfirmed", "RecvAddrFailed"}

ExchangeAnsweredOnce ==
    \A n \in Nodes : \A i, j \in DOMAIN emitted[n] :
        (/\ i < j
         /\ emitted[n][i].status \in Verdicts
         /\ emitted[n][j].status \in Verdicts)
            => emitted[n][i].oid # emitted[n][j].oid

\* Spec 8.3, status monotonicity, and section 4.1: the statuses a node emits
\* on its RPC channel for one transaction follow a path of the status DAG,
\* and a terminal status is never followed by another ("the orchestrator is
\* the sole authority that advances status").  It is about the dispatch of
\* handle_genesis_tx / handle_sender_confirmed_tx / the swarm handlers on
\* whatever status an update arrives with.
StatusMonotonic ==
    \A n \in Nodes : \A i, j \in DOMAIN emitted[n] :
        (i < j /\ emitted[n][i].gid = emitted[n][j].gid)
            => StatusReaches(emitted[n][i].status, emitted[n][j].status)

\* Refinement of the user-level promise (TransferIntent): the receiver of a
\* transaction is fixed once, when the user submits its Genesis, and every
\* broadcast SenderSignedSubmitted makes pays that receiver, through
\* receiver attestation, Branch B, the wallet's own build and the
\* intermediary's rewrites.
Intent == INSTANCE TransferIntent WITH intent <- intended, paid <- chain

ImplementsTransferIntent == Intent!Spec

=============================================================================
