----------------------------- MODULE NoncePolicy -----------------------------
(***************************************************************************)
(* apps/demo/nonce-policy.ts: create a durable nonce account, and simulate *)
(* the guard on it with a finite and with a permanent retention.           *)
(* External: the system program's nonce, the simulating node, which may    *)
(* lag behind the node that answered before.                               *)
(***************************************************************************)
EXTENDS Cluster

CONSTANTS
  MAX_READS,     \* Polls for the nonce account (20)
  None

VARIABLES
  nonce,         \* The slot that the nonce account was created in, or None
  pc, exit, polls,
  answers        \* What each simulation answered

script == <<pc, exit, polls, answers>>
vars == <<cluster, nonce, script>>

Running == -1
DurableNonceUnsupported == 6002
Unasked == [ix |-> "unasked", code |-> 0]

Init ==
  /\ ClusterInit
  /\ nonce = None
  /\ pc = "create" /\ exit = Running /\ polls = 0
  /\ answers = [finite |-> Unasked, permanent |-> Unasked]

NextSlot == SlotAdvances /\ UNCHANGED <<nonce, script>>

LandCreate(m) ==
  /\ Executes(m, Ok)
  /\ nonce' = slot
  /\ UNCHANGED script

-----------------------------------------------------------------------------
(* The simulation *)

\* The instructions that the script simulates; the nonce is also their blockhash.
Instructions == <<"advance_nonce", "claim">>

\* transaction_uses_durable_nonce; so short a message ends before the bound of the scan.
NonceSeen(ixs) == \E i \in DOMAIN ixs : ixs[i] = "advance_nonce"

\* claim of a key that no transaction of this script ever commits.
ClaimAnswer(retention, ixs) ==
  IF retention # "permanent" /\ NonceSeen(ixs) THEN ClaimError(DurableNonceUnsupported) ELSE Ok

\* A node at slot v: the nonce must be there, and cannot be advanced in its own slot.
SimulationAnswer(retention, v) ==
  IF nonce = None \/ v <= nonce THEN Ambiguous ELSE ClaimAnswer(retention, Instructions)

-----------------------------------------------------------------------------
(* The script *)

Ends(code) == pc' = "done" /\ exit' = code

\* Too little in the payer, a failed request: this script has no retrying transport.
RequestFails ==
  /\ pc # "done"
  /\ Ends(1)
  /\ UNCHANGED <<cluster, nonce, polls, answers>>

Create ==
  /\ pc = "create"
  /\ Forwards([kind |-> "create", recent |-> slot])
  /\ pc' = "poll"
  /\ UNCHANGED <<nonce, exit, polls, answers>>

\* fetchNonce until a node shows the account; every error is "not landed yet".
PollNonce ==
  /\ pc = "poll"
  /\ \/ /\ nonce # None
        /\ pc' = "finite" /\ UNCHANGED <<exit, polls>>
     \/ /\ polls < MAX_READS
        /\ polls' = polls + 1 /\ UNCHANGED <<pc, exit>>
     \/ /\ polls = MAX_READS
        /\ Ends(1) /\ UNCHANGED polls
  /\ UNCHANGED <<cluster, nonce, answers>>

Simulate ==
  /\ pc \in {"finite", "permanent"}
  /\ \E v \in 0 .. slot : answers' = [answers EXCEPT ![pc] = SimulationAnswer(pc, v)]
  /\ pc' = IF pc = "finite" THEN "permanent" ELSE "report"
  /\ UNCHANGED <<cluster, nonce, exit, polls>>

\* The conclusions are printed whatever the simulations answered.
Report ==
  /\ pc = "report"
  /\ Ends(0)
  /\ UNCHANGED <<cluster, nonce, polls, answers>>

Main == Create \/ PollNonce \/ Simulate \/ Report

Next ==
  \/ NextSlot
  \/ \E m \in inflight : LandCreate(m)
  \/ Main \/ RequestFails

Spec == Init /\ [][Next]_vars
=============================================================================
