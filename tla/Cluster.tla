------------------------------- MODULE Cluster -------------------------------
(***************************************************************************)
(* The cluster as the TypeScript programs of the repository use it:        *)
(* signed messages are handed over, each lands at most once and only while *)
(* its blockhash is recent, perhaps late, perhaps never.  External: the    *)
(* RPC node, the leader, the status cache and the blockhash queue.  What a *)
(* message does is left to the module that EXTENDS this one.               *)
(***************************************************************************)
EXTENDS Integers, Sequences, FiniteSets

CONSTANTS
  MAX_PROCESSING_AGE,    \* Slots a blockhash stays acceptable
  MaxSlot                \* Bound: the last slot

ASSUME ClusterAssumption ==
  /\ MAX_PROCESSING_AGE \in Nat \ {0}
  /\ MaxSlot \in Nat

VARIABLES
  slot,        \* The latest slot; its blockhash is the latest one
  inflight,    \* Messages handed to the cluster
  landed       \* Messages executed, with their results and slots

cluster == <<slot, inflight, landed>>

\* How a transaction ended: at which instruction, with which custom code.
Ok == [ix |-> "none", code |-> 0]
ClaimError(code) == [ix |-> "claim", code |-> code]
BusinessError(code) == [ix |-> "business", code |-> code]
\* A failure that says nothing about the transaction.
Ambiguous == [ix |-> "none", code |-> -1]

AlreadyCommitted == 6000
IdempotencyConflict == 6001

ClusterInit ==
  /\ slot = 0
  /\ inflight = {}
  /\ landed = {}

Valid(m) == slot <= m.recent + MAX_PROCESSING_AGE
Processed(m) == \E l \in landed : l.msg = m

\* A message lands once, in a slot after its blockhash, while that is recent.
Executes(m, result) ==
  /\ m \in inflight /\ ~Processed(m)
  /\ slot > m.recent /\ Valid(m)
  /\ landed' = landed \cup {[msg |-> m, result |-> result, slot |-> slot]}
  /\ UNCHANGED <<slot, inflight>>

Forwards(m) ==
  /\ inflight' = inflight \cup {m}
  /\ UNCHANGED <<slot, landed>>

SlotAdvances ==
  /\ slot < MaxSlot
  /\ slot' = slot + 1
  /\ UNCHANGED <<inflight, landed>>
=============================================================================
