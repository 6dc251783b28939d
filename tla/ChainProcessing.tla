--------------------------- MODULE ChainProcessing ---------------------------
(***************************************************************************)
(* TxProcessingWorker (node/src/tx_processing.rs): signature verification, *)
(* the multi-id check, construction of the unsigned transfer and its       *)
(* broadcast.  Each operation is a pure operator; an operation that may    *)
(* end in more than one way, depending on a library or the chain, gives    *)
(* the set of its possible outcomes.  An outcome "panic" is a todo!() or a *)
(* panicking conversion: it ends the task that called the operation.       *)
(***************************************************************************)
EXTENDS TxStateMachine

CONSTANTS
    \* The textual form of each address: "PubKey" when the string parses as
    \* an SS58/hex public key (ecdsa/ed25519 Public::from_str accepts it),
    \* "Raw20" when its UTF-8 bytes are exactly 20 long (what
    \* Address::from_slice accepts).  A public-key string is 45 bytes or
    \* more, so no address is both.
    AddrForm

\* validate_receiver_sender_address(tx, who): who = "Receiver" checks
\* recv_signature over receiver_address, who = "Sender" checks
\* signed_call_payload over sender_address.  For every network the public
\* key is parsed from tx.receiver_address (lines 126 and 147), whoever signs.
\* ECDSA verify-then-recover and Ed25519 verify both succeed exactly when the
\* signature was made with that key over that message.
ValidateReceiverSenderAddress(tx, who) ==
    LET signature == IF who = "Receiver" THEN tx.recv_signature
                                         ELSE tx.signed_call_payload
        msg       == IF who = "Receiver" THEN tx.receiver_address
                                         ELSE tx.sender_address
    IN  CASE signature = None                      -> "err"
          [] tx.network = "Polkadot"               -> "panic"
          [] AddrForm[tx.receiver_address] # "PubKey" -> "err"
          [] signature.key = tx.receiver_address
             /\ signature.msg = msg                -> "ok"
          [] OTHER                                 -> "err"

\* validate_multi_id: recompute Blake2(sender ++ receiver) and compare.
ValidateMultiId(tx) == MultiId(tx.sender_address, tx.receiver_address) = tx.multi_id

\* create_tx: Polkadot and Solana are todo!(); for Ethereum and Bnb
\* Address::from_slice(receiver_address.as_bytes()) panics unless the string
\* is 20 bytes; then build_unsigned / eip7702() may return an error.
CreateTx(tx) ==
    IF tx.network \in {"Polkadot", "Solana"} \/ AddrForm[tx.receiver_address] # "Raw20"
    THEN {[res |-> "panic", tx |-> tx]}
    ELSE {[res |-> "ok", tx |-> [tx EXCEPT !.call_payload = [to |-> tx.receiver_address]]],
          [res |-> "err", tx |-> tx]}

\* TxProcessingWorker::new is given (Bnb, Ethereum, Solana) by new() and
\* binds the tuple as (_solana, eth, bnb), so bnb_client is built on the
\* Solana URL: a Bnb sendRawTransaction reaches a non-EVM endpoint and errs.
BnbClientReachesBnb == FALSE

\* submit_tx: Polkadot and Solana are todo!(); a missing signature or
\* call_payload is an error; on Bnb the client errs; otherwise
\* sendRawTransaction either returns the hash or an RPC error ("rpc_err").
SubmitTx(tx) ==
    CASE tx.network \in {"Polkadot", "Solana"}           -> {"panic"}
      [] tx.signed_call_payload = None                   -> {"err"}
      [] tx.call_payload = None                          -> {"err"}
      [] tx.network = "Bnb" /\ ~BnbClientReachesBnb      -> {"err"}
      [] OTHER                                           -> {"ok", "rpc_err"}

=============================================================================
