--------------------------- MODULE ReadThenWrite ---------------------------
(***************************************************************************)
(* What requests of agent-billing.ts and of agent-payout-statements.ts     *)
(* have in common: a handler reads rows, decides, and writes what it       *)
(* decided in a transaction that looks at nothing again.                   *)
(*                                                                         *)
(* A slot holds what will be written and whether what was read is still so.*)
(***************************************************************************)
CONSTANTS
  Slots,  \* requests served at the same time
  None

VARIABLES
  slot,   \* requests under way
  stale   \* history: some request wrote over what it had not seen

Idle == [op |-> "idle", put |-> None, fresh |-> TRUE]

\* those of this kind under way no longer know how things are
Outdated(busy, kind) == [s \in Slots |-> IF busy[s].op \in kind
                                         THEN [busy[s] EXCEPT !.fresh = FALSE] ELSE busy[s]]

\* a request has written, over what others of this kind have read
Commit(s, kind) ==
  /\ stale' = (stale \/ ~slot[s].fresh)
  /\ slot' = Outdated([slot EXCEPT ![s] = Idle], kind)
============================================================================
