---------------------------- MODULE SolTransfer ----------------------------
(***************************************************************************)
(* examples/sol-transfer: a guarded SOL transfer.  The message carries the *)
(* compute unit price, the guard and the transfer, in this order.          *)
(***************************************************************************)
EXTENDS GuardedRetry

CONSTANT BusinessCodes   \* Custom codes the business instruction may fail with

ASSUME BusinessAssumption == BusinessCodes \subseteq Nat

vars == <<cluster, chain, client>>

Init == RetryInit

Payloads == {IntentOf[c] : c \in Clients}

\* The recipient's balance, in transfers received.
Balance == Cardinality(performed)

Business == {Ok} \cup {BusinessError(k) : k \in BusinessCodes}
Results(m) == GuardedResults(m, Business)

Begin(c) == Begins(c, Balance)

\* getLatestBlockhash, prepare and sign: everything but the intent is rebuilt.
Build(c) ==
  Builds(c, [key |-> KeyOf[c], payload |-> IntentOf[c], recent |-> slot, fee |-> fee[c]], "send")

Attempt(c) == SendAndConfirm(c, Results(msg[c]))

Report(c) == Reports(c, Balance)

Progress(c) == Begin(c) \/ Build(c) \/ ReadFails(c) \/ Attempt(c) \/ Report(c)

Next ==
  \/ NextSlot
  \/ \E m \in inflight : \E r \in Results(m) : Land(m, r)
  \/ \E c \in Clients : Progress(c) \/ ConnectionLost(c)

Spec == Init /\ [][Next]_vars

\* Slots keep coming and a client is never stopped for good; no fairness for the
\* delivery of a message or for the arrival of an answer.
FairSpec == Spec /\ WF_vars(NextSlot) /\ \A c \in Clients : WF_vars(Progress(c))

-----------------------------------------------------------------------------
(* Properties *)

\* Every run ends, with an answer or with an error, although nothing is ever
\* guaranteed to arrive.
EveryCallEnds == <>(\A c \in Clients : pc[c] = "done")

-----------------------------------------------------------------------------
(* The keys as intents of the ledger: performed once, for good.            *)

GrantOf(payload, at) == [payload |-> payload, retention |-> 0, slot |-> at, unix |-> 0]

Ledger == INSTANCE IntentLedger WITH
  Intents <- Keys,
  Free <- NoReceipt,
  SLOTS_PER_SECOND <- 1,
  unix <- 0,
  live <- [k \in Keys |->
    IF receipt[k] = NoReceipt THEN NoReceipt ELSE GrantOf(receipt[k].payload, receipt[k].slot)],
  performed <- [k \in Keys |-> {GrantOf(e.msg.payload, e.slot) : e \in PerformedFor(k)}]

\* The retries of all clients together perform the intents as the ledger allows.
ImplementsLedger == Ledger!Spec
=============================================================================
