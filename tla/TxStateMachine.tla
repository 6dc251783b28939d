--------------------------- MODULE TxStateMachine ---------------------------
(***************************************************************************)
(* The TxStateMachine record exchanged between the RPC layer, the          *)
(* orchestrator, the p2p swarm and the peer node, and the status setters   *)
(* the node calls on it.  The record and its setters live in the           *)
(* primitives crate, which is not among the sources: they are modelled     *)
(* from the spec (section 3 and 4.1).                                      *)
(*                                                                         *)
(* Data abstraction:                                                       *)
(*   - an address is an account (model value); its textual form is given   *)
(*     by AddrForm in ChainProcessing;                                     *)
(*   - multi_id = Blake2_256(sender ++ receiver) is the pair of the two    *)
(*     accounts (a collision-free hash of an unambiguous concatenation);   *)
(*   - a signature is the pair (key that made it, account it signs);       *)
(*   - call_payload is the unsigned transfer, kept as its destination;     *)
(*   - amount and tx_hash are left out: no property tells them apart;      *)
(*   - gid is a ghost field naming the user's transaction across copies.   *)
(***************************************************************************)
EXTENDS Naturals

CONSTANTS
    Accounts,       \* account addresses (model values)
    Gids,           \* ghost identities of the transactions users start
    None,           \* the None of an Option field (model value)
    MaxRequests     \* bound on request-response exchanges opened by the swarms

Networks == {"Ethereum", "Bnb", "Solana", "Polkadot"}

Statuses == {"Genesis", "ReceiverConfirmation", "RecvAddrConfirmed",
             "RecvAddrFailed", "NetConfirmed", "SenderConfirmed",
             "SenderConfirmationFailed", "TxSubmissionPassed",
             "TxSubmissionFailed"}

TerminalStatuses == {"RecvAddrFailed", "SenderConfirmationFailed",
                     "TxSubmissionPassed", "TxSubmissionFailed"}

\* The status DAG of spec 4.1, with SenderConfirmed -> SenderConfirmationFailed,
\* the failed sender check of 4.2.3 Branch A.
StatusEdges ==
    {<<"Genesis", "ReceiverConfirmation">>,
     <<"ReceiverConfirmation", "RecvAddrConfirmed">>,
     <<"ReceiverConfirmation", "RecvAddrFailed">>,
     <<"RecvAddrConfirmed", "NetConfirmed">>,
     <<"NetConfirmed", "SenderConfirmed">>,
     <<"NetConfirmed", "SenderConfirmationFailed">>,
     <<"SenderConfirmed", "SenderConfirmationFailed">>,
     <<"SenderConfirmed", "TxSubmissionPassed">>,
     <<"SenderConfirmed", "TxSubmissionFailed">>}

\* t is s, or lies on a path of the DAG from s (statuses may be skipped: not
\* all are produced).
RECURSIVE StatusReaches(_, _)
StatusReaches(s, t) ==
    s = t \/ \E e \in StatusEdges : e[1] = s /\ StatusReaches(e[2], t)

\* libp2p request ids, hashed to u64 by the node (the hash is taken injective)
ReqIds == 1..MaxRequests

Option(S) == S \cup {None}

Sig == [key: Accounts, msg: Accounts]

Payload == [to: Accounts]

TxRecord ==
    [gid: Gids, sender_address: Accounts, receiver_address: Accounts,
     multi_id: Accounts \X Accounts, network: Networks,
     call_payload: Option(Payload), signed_call_payload: Option(Sig),
     recv_signature: Option(Sig), status: Statuses,
     inbound_req_id: Option(ReqIds), outbound_req_id: Option(ReqIds)]

\* Blake2_256(sender_address bytes ++ receiver_address bytes)
MultiId(sender, receiver) == <<sender, receiver>>

\* The Genesis object the RPC layer builds for submit_transaction.
NewTx(g, sender, receiver, network) ==
    [gid |-> g, sender_address |-> sender, receiver_address |-> receiver,
     multi_id |-> MultiId(sender, receiver), network |-> network,
     call_payload |-> None, signed_call_payload |-> None,
     recv_signature |-> None, status |-> "Genesis",
     inbound_req_id |-> None, outbound_req_id |-> None]

recv_confirmation_passed(tx) == [tx EXCEPT !.status = "RecvAddrConfirmed"]

recv_confirmation_failed(tx) == [tx EXCEPT !.status = "RecvAddrFailed"]

sender_confirmation_failed(tx) ==
    [tx EXCEPT !.status = "SenderConfirmationFailed"]

tx_submission_passed(tx) == [tx EXCEPT !.status = "TxSubmissionPassed"]

tx_submission_failed(tx) == [tx EXCEPT !.status = "TxSubmissionFailed"]

=============================================================================
