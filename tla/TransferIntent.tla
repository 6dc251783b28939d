--------------------------- MODULE TransferIntent ---------------------------
(***************************************************************************)
(* What the safety layer promises its users, with no nodes, messages or    *)
(* signatures: a user names the receiver of a transaction once, and every  *)
(* transfer the chain accepts for that transaction pays the receiver the   *)
(* user named.  Broadcasts are never undone.  VaneCoordination is checked  *)
(* to implement this specification (spec sections 1 and 8.1).              *)
(***************************************************************************)
CONSTANTS
    Gids,           \* the users' transactions
    Accounts,       \* account addresses
    None            \* "not started"

VARIABLES
    intent,         \* [Gids -> Accounts \cup {None}]: the receiver the user named
    paid            \* set of [gid, to, key]: transfers the chain accepted

vars == <<intent, paid>>

Init ==
    /\ intent = [g \in Gids |-> None]
    /\ paid = {}

\* The user starts transaction g to receiver a.
Start(g, a) ==
    /\ intent[g] = None
    /\ intent' = [intent EXCEPT ![g] = a]
    /\ UNCHANGED paid

\* The chain accepts a transfer of a started transaction, signed with key k,
\* to the receiver its user named.
Pay(g, k) ==
    /\ intent[g] # None
    /\ paid' = paid \cup {[gid |-> g, to |-> intent[g], key |-> k]}
    /\ UNCHANGED intent

Next == \E g \in Gids, a \in Accounts : Start(g, a) \/ Pay(g, a)

Spec == Init /\ [][Next]_vars

=============================================================================
