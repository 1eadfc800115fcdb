---------------------------- MODULE ReceiptReads ----------------------------
(***************************************************************************)
(* The read side of the SDK, packages/sdk/src/client.ts and accounts.ts:   *)
(* fetchClock and inspect are several requests, each answered by a node    *)
(* that may lag, while the intent is claimed, cleaned up and claimed again.*)
(***************************************************************************)
EXTENDS Integers, Sequences

CONSTANTS
  Payloads,
  Retentions,     \* Of the claims; Permanent or seconds
  None,           \* No account, no answer, no clock
  Prefunded,      \* An account that is not the program's: lamports sent to the address
  Lag,            \* Bound: how many slots a node may be behind
  MaxSlot         \* Bound: the last slot

ASSUME ReadsAssumption ==
  /\ Retentions \subseteq Nat
  /\ Lag \in Nat /\ MaxSlot \in Nat \ {0}
  /\ None \notin BOOLEAN
  /\ \A none \in {None, Prefunded} :
       none \notin [payload : Payloads, created : Nat, expires : [slot : Nat, unix : Nat]]

SLOTS_PER_SECOND == 4
Permanent == 0       \* PERMANENT_RETENTION

VARIABLES
  chain,        \* The state after each slot: the time and the receipt
  request,      \* The request the reader sends next
  slotRead,     \* What getSlot answered
  clock,        \* The caller's clock, or None
  answer        \* What inspect returned, or how it threw

reader == <<request, slotRead, clock, answer>>
readsVars == <<chain, reader>>

Slot == Len(chain)
Latest == chain[Slot]

-----------------------------------------------------------------------------
(* The program, as CommitOnce has it *)

Expires(retention, atSlot, atUnix) ==
  IF retention = Permanent THEN [slot |-> 0, unix |-> 0]
  ELSE [slot |-> atSlot + retention * SLOTS_PER_SECOND, unix |-> atUnix + retention]

NewReceipt(p, retention) ==
  [ payload |-> p, created |-> Slot + 1,
    expires |-> Expires(retention, Slot + 1, Latest.unix) ]

\* claim finds no data at the address, which may have been sent lamports.
DataIsEmpty(r) == r \in {None, Prefunded}

\* Mutant: the wall clock is not looked at.
ClosesBySlot(r, atSlot, atUnix) == r.expires.slot # 0 /\ atSlot >= r.expires.slot
\* close_receipt accepts.
Closes(r, atSlot, atUnix) ==
  r.expires.slot # 0 /\ atSlot >= r.expires.slot /\ atUnix >= r.expires.unix

\* claim of payload p in the next slot.
ClaimAnswer(r, p) ==
  IF DataIsEmpty(r) THEN "ok"
  ELSE IF r.payload = p THEN "AlreadyCommitted" ELSE "IdempotencyConflict"

Produces(time, r) == chain' = Append(chain, [unix |-> time, receipt |-> r])

\* A slot passes; its transaction, if any, claims, cleans up or sends lamports.
NextSlot ==
  /\ Slot < MaxSlot
  /\ \E time \in Latest.unix .. Latest.unix + 1 :
       \/ Produces(time, Latest.receipt)
       \/ /\ DataIsEmpty(Latest.receipt)
          /\ \/ Produces(time, Prefunded)
             \/ \E p \in Payloads, s \in Retentions : Produces(time, NewReceipt(p, s))
       \/ /\ ~DataIsEmpty(Latest.receipt) /\ Closes(Latest.receipt, Slot + 1, time)
          /\ Produces(time, None)
  /\ UNCHANGED reader

-----------------------------------------------------------------------------
(* accounts.ts *)

isPermanentReceipt(r) == r.expires.slot = 0

\* Mutant: one gate is enough.
isClosableByTime(r, c) == ~isPermanentReceipt(r) /\ c.unix >= r.expires.unix
isClosable(r, c) ==
  ~isPermanentReceipt(r) /\ c.slot >= r.expires.slot /\ c.unix >= r.expires.unix

-----------------------------------------------------------------------------
(* client.ts *)

Views == (IF Slot > Lag THEN Slot - Lag ELSE 1) .. Slot

GetSlot ==
  /\ request = "getSlot"
  /\ \E v \in Views : slotRead' = v
  /\ request' = "getBlockTime"
  /\ UNCHANGED <<chain, clock, answer>>

\* The cluster may have no time for that slot: fetchClock throws rather than guess.
GetBlockTime ==
  /\ request = "getBlockTime"
  /\ \/ /\ clock' = [slot |-> slotRead, unix |-> chain[slotRead].unix]
        /\ request' = "inspect" /\ UNCHANGED answer
     \/ request' = "done" /\ answer' = [status |-> "threw"] /\ UNCHANGED clock
  /\ UNCHANGED <<chain, slotRead>>

\* inspect may be called without a clock.
WithoutClock ==
  /\ request = "getSlot"
  /\ request' = "inspect"
  /\ UNCHANGED <<chain, slotRead, clock, answer>>

Summary(r, intent) ==
  LET closable == IF clock = None THEN None ELSE isClosable(r, clock)
  IN  [ status |-> IF closable = TRUE THEN "expired" ELSE "committed",
        receipt |-> r, permanent |-> isPermanentReceipt(r),
        intent |-> intent, matchesIntent |-> r.payload = intent ]

\* fetchReceipt throws if the account is not the program's; the program's own decodes.
Shown(r, intent) ==
  IF r = None THEN [status |-> "unclaimed"]
  ELSE IF r = Prefunded THEN [status |-> "threw"]
  ELSE Summary(r, intent)

Inspect ==
  /\ request = "inspect"
  /\ \E v \in Views, intent \in Payloads : answer' = Shown(chain[v].receipt, intent)
  /\ request' = "done"
  /\ UNCHANGED <<chain, slotRead, clock>>

ReadsInit ==
  /\ chain = <<[unix |-> 0, receipt |-> None]>>
  /\ request = "getSlot" /\ slotRead = 0 /\ clock = None /\ answer = None

ReadsNext == NextSlot \/ GetSlot \/ GetBlockTime \/ WithoutClock \/ Inspect

ReadsSpec == ReadsInit /\ [][ReadsNext]_readsVars

-----------------------------------------------------------------------------
(* Properties *)

Summarised == request = "done" /\ answer.status \in {"expired", "committed"}

\* client.ts:243-255, accounts.ts:124-142. An "expired" is never premature: however old the
\* clock, the node that gave it and the node that gave the receipt, as long as that receipt
\* stands the next slot's close_receipt accepts it. A permanent one is never called expired.
ExpiredCanBeClosed ==
  Summarised /\ answer.status = "expired" =>
    /\ ~answer.permanent
    /\ Latest.receipt = answer.receipt => Closes(Latest.receipt, Slot + 1, Latest.unix)

\* client.ts:62, 70-76. What inspect said of a receipt, "can never be closed", "a retry is a
\* duplicate and will be blocked" or a conflict, holds of every later claim of that intent, not
\* only when it was read: from however old a node, and whoever cleans up meanwhile, until both
\* deadlines of the receipt that was read have passed, and for good if that was permanent.
MatchHoldsWhileRetained ==
  Summarised /\ ( \/ answer.permanent
                  \/ Slot < answer.receipt.expires.slot
                  \/ Latest.unix < answer.receipt.expires.unix )
  => ClaimAnswer(Latest.receipt, answer.intent) =
       IF answer.matchesIntent THEN "AlreadyCommitted" ELSE "IdempotencyConflict"
=============================================================================
