---------------------------- MODULE GuardedRetry ----------------------------
(***************************************************************************)
(* The retry loop that the four examples run around a guarded transaction, *)
(* as several processes over a network that loses answers and delivers     *)
(* late.  A process reads the state it reports on (Begin), submits its     *)
(* intent, submits the same intent again, and reports (Report).  What the  *)
(* business instructions may answer is an argument: each example EXTENDS   *)
(* this module with its own message, its own reads and its own business.   *)
(*                                                                         *)
(* The retention (24 hours) outlasts a run, so a receipt stays.            *)
(***************************************************************************)
EXTENDS Cluster

CONSTANTS
  Clients,               \* Processes that submit under one authority
  KeyOf,                 \* The idempotency key (ORDER_ID) of each
  IntentOf,              \* The payload fingerprint each of them computes
  NoReceipt, NoMsg,
  MAX_ATTEMPTS,
  BASE_PRIORITY_FEE

ASSUME RetryAssumption ==
  /\ MAX_ATTEMPTS \in Nat \ {0}
  /\ BASE_PRIORITY_FEE \in Nat \ {0}
  /\ NoReceipt \notin [payload : {IntentOf[c] : c \in Clients}, slot : Nat]

Keys == {KeyOf[c] : c \in Clients}

VARIABLES
  receipt,     \* The receipt of each key: the payload and slot of its commit
  performed,   \* History: every execution of a guarded action
  pc,          \* Where each client stands
  attempt, fee, msg,
  before, after, \* What each client's main read first and last
  status       \* What its calls returned or threw, then how main ended

chain == <<receipt, performed>>
loop == <<attempt, fee, msg>>
reads == <<before, after>>
client == <<pc, loop, reads, status>>

Unread == -1

RetryInit ==
  /\ ClusterInit
  /\ receipt = [k \in Keys |-> NoReceipt]
  /\ performed = {}
  /\ pc = [c \in Clients |-> "main"]
  /\ attempt = [c \in Clients |-> 1]
  /\ fee = [c \in Clients |-> BASE_PRIORITY_FEE]
  /\ msg = [c \in Clients |-> NoMsg]
  /\ before = [c \in Clients |-> Unread]
  /\ after = [c \in Clients |-> Unread]
  /\ status = [c \in Clients |-> << >>]

-----------------------------------------------------------------------------
(* The program's side of a guarded transaction *)

\* Mutant: any receipt means that this intent committed.
AnswerIgnoresPayload(m) == AlreadyCommitted
ClaimAnswer(m) ==
  IF receipt[m.key].payload = m.payload THEN AlreadyCommitted ELSE IdempotencyConflict

\* Mutant: an existing receipt does not stop the transaction.
Unguarded(m, business) == business
\* claim answers first; only a new claim lets the business instructions run.
GuardedResults(m, business) ==
  IF receipt[m.key] = NoReceipt THEN business ELSE {ClaimError(ClaimAnswer(m))}

\* Mutant: the receipt is written although the business instructions fail.
ReceiptOutlivesFailure(m, r) ==
  /\ Executes(m, r)
  /\ receipt' = IF r.ix = "claim" THEN receipt
                ELSE [receipt EXCEPT ![m.key] = [payload |-> m.payload, slot |-> slot]]
  /\ performed' = IF r = Ok THEN performed \cup {[msg |-> m, slot |-> slot]} ELSE performed
  /\ UNCHANGED client

\* The receipt and the business action commit together or not at all.
Land(m, r) ==
  /\ Executes(m, r)
  /\ IF r = Ok
     THEN /\ receipt' = [receipt EXCEPT ![m.key] = [payload |-> m.payload, slot |-> slot]]
          /\ performed' = performed \cup {[msg |-> m, slot |-> slot]}
     ELSE UNCHANGED chain
  /\ UNCHANGED client

NextSlot == SlotAdvances /\ UNCHANGED <<chain, client>>

-----------------------------------------------------------------------------
(* The client *)

\* Mutant: the codes follow an older order of the program's error enum.
ClassifyReordered(result) ==
  CASE result.code = AlreadyCommitted -> "IdempotencyConflict"
    [] result.code = IdempotencyConflict -> "AlreadyCommitted"
    [] OTHER -> "other"

\* classifyError: the first custom code found, whichever instruction raised it.
Classify(result) ==
  CASE result.code = AlreadyCommitted -> "AlreadyCommitted"
    [] result.code = IdempotencyConflict -> "IdempotencyConflict"
    [] OTHER -> "other"

\* The call returns; after the first one main submits the same intent again.
Return(c, what) ==
  /\ status' = [status EXCEPT ![c] = Append(@, what)]
  /\ IF Len(status[c]) = 0
     THEN /\ pc' = [pc EXCEPT ![c] = "build"]
          /\ attempt' = [attempt EXCEPT ![c] = 1]
          /\ fee' = [fee EXCEPT ![c] = BASE_PRIORITY_FEE]
     ELSE /\ pc' = [pc EXCEPT ![c] = "report"]
          /\ UNCHANGED <<attempt, fee>>
  /\ UNCHANGED <<msg, reads>>

\* Something throws and main ends.
Throw(c, what) ==
  /\ status' = [status EXCEPT ![c] = Append(@, what)]
  /\ pc' = [pc EXCEPT ![c] = "done"]
  /\ UNCHANGED <<loop, reads>>

\* Mutant: every attempt pays the same priority fee.
RebuildSameFee(c) ==
  /\ attempt' = [attempt EXCEPT ![c] = @ + 1]
  /\ pc' = [pc EXCEPT ![c] = "build"]
  /\ UNCHANGED <<fee, msg, reads, status>>

Rebuild(c) ==
  /\ attempt' = [attempt EXCEPT ![c] = @ + 1]
  /\ fee' = [fee EXCEPT ![c] = 2 * @]
  /\ pc' = [pc EXCEPT ![c] = "build"]
  /\ UNCHANGED <<msg, reads, status>>

\* describeAmbiguous: what the last failure was.
LastFailure(result) == IF result = Ambiguous THEN "gave-up" ELSE "rejected"

Catch(c, result) ==
  CASE Classify(result) = "AlreadyCommitted" -> Return(c, "duplicate-blocked")
    [] Classify(result) = "IdempotencyConflict" -> Throw(c, "conflict")
    [] OTHER -> IF attempt[c] = MAX_ATTEMPTS THEN Throw(c, LastFailure(result)) ELSE Rebuild(c)

\* main reads what it will report on, and goes on to the first submission.
Begins(c, value) ==
  /\ pc[c] = "main"
  /\ before' = [before EXCEPT ![c] = value]
  /\ pc' = [pc EXCEPT ![c] = "build"]
  /\ UNCHANGED <<cluster, chain, loop, after, status>>

\* getLatestBlockhash; bound: none is fetched that could not expire.
Builds(c, m, next) ==
  /\ pc[c] = "build"
  /\ slot + MAX_PROCESSING_AGE < MaxSlot
  /\ msg' = [msg EXCEPT ![c] = m]
  /\ pc' = [pc EXCEPT ![c] = next]
  /\ UNCHANGED <<cluster, chain, attempt, fee, reads, status>>

\* A read that fails outside the try block.
ReadFails(c) ==
  /\ pc[c] \in {"main", "build", "report"}
  /\ Throw(c, "rpc-error")
  /\ UNCHANGED <<cluster, chain>>

\* sendTransaction: preflight simulates the message before it is forwarded.
Submit(c, results) ==
  /\ pc[c] = "send"
  /\ Valid(msg[c]) /\ ~Processed(msg[c]) /\ Ok \in results
  /\ Forwards(msg[c])
  /\ pc' = [pc EXCEPT ![c] = "confirm"]
  /\ UNCHANGED <<chain, loop, reads, status>>

PreflightFails(c, results) ==
  /\ pc[c] = "send"
  /\ \/ Valid(msg[c]) /\ ~Processed(msg[c]) /\ \E r \in results \ {Ok} : Catch(c, r)
     \/ (~Valid(msg[c]) \/ Processed(msg[c])) /\ Catch(c, Ambiguous)
  /\ UNCHANGED <<cluster, chain>>

\* The request or its answer is lost: the message may have been forwarded.
SendFails(c) ==
  /\ pc[c] = "send"
  /\ \/ Forwards(msg[c])
     \/ UNCHANGED cluster
  /\ Catch(c, Ambiguous)
  /\ UNCHANGED chain

\* The signature's status arrives.
Confirmed(c) ==
  /\ pc[c] = "confirm"
  /\ \E l \in landed :
       /\ l.msg = msg[c]
       /\ IF l.result = Ok THEN Return(c, "committed") ELSE Catch(c, l.result)
  /\ UNCHANGED <<cluster, chain>>

\* Mutant: the wait for a confirmation has no end.
NeverExceeded(c) == FALSE
\* SOLANA_ERROR__BLOCK_HEIGHT_EXCEEDED: the message can no longer land.
BlockHeightExceeded(c) ==
  /\ pc[c] = "confirm"
  /\ ~Valid(msg[c])
  /\ Catch(c, Ambiguous)
  /\ UNCHANGED <<cluster, chain>>

\* The connection breaks while the client waits; the message may still land.
ConnectionLost(c) ==
  /\ pc[c] = "confirm"
  /\ Catch(c, Ambiguous)
  /\ UNCHANGED <<cluster, chain>>

\* sendAndConfirm and its catch block.
SendAndConfirm(c, results) ==
  \/ Submit(c, results) \/ PreflightFails(c, results) \/ SendFails(c)
  \/ Confirmed(c) \/ BlockHeightExceeded(c)

\* main reads again, prints, and throws unless the replay was blocked.
Reports(c, value) ==
  /\ pc[c] = "report"
  /\ after' = [after EXCEPT ![c] = value]
  /\ status' = [status EXCEPT ![c] =
       Append(@, IF @[2] = "duplicate-blocked" THEN "ok" ELSE "replay-not-blocked")]
  /\ pc' = [pc EXCEPT ![c] = "done"]
  /\ UNCHANGED <<cluster, chain, loop, before>>

-----------------------------------------------------------------------------
(* Properties of every example *)

Said(c, what) == \E i \in DOMAIN status[c] : status[c][i] = what
PerformedFor(k) == {e \in performed : e.msg.key = k}

\* README, "Retry without executing twice". However many processes retry, lose
\* answers and land late, the action of a key runs at most once.
PerformedAtMostOnce == \A k \in Keys : Cardinality(PerformedFor(k)) <= 1

\* sol-transfer:264-265, "a receipt that committed separately would block the action it
\* was meant to protect". A key is consumed exactly when its action has run, whatever
\* the instructions behind the guard answered to the attempts.
ReceiptMeansPerformed == \A k \in Keys : receipt[k] # NoReceipt <=> PerformedFor(k) # {}

\* errors.ts:168-171. A call that reports success, its own or a blocked duplicate,
\* does so when the action has run, for the payload that this client intended.
SuccessIsTrue ==
  \A c \in Clients :
    Said(c, "committed") \/ Said(c, "duplicate-blocked")
    => \E e \in PerformedFor(KeyOf[c]) : e.msg.payload = IntentOf[c]

\* errors.ts:177. A conflict is reported when another payload has been performed.
ConflictIsTrue ==
  \A c \in Clients :
    Said(c, "conflict") => \E e \in PerformedFor(KeyOf[c]) : e.msg.payload # IntentOf[c]

\* sol-transfer:480-486. Once a submission has returned, the replay is not committed,
\* so a run never ends with "Expected the replayed attempt to be blocked".
ReplayIsBlocked ==
  \A c \in Clients : Len(status[c]) >= 2 =>
    status[c][2] # "committed" /\ ~Said(c, "replay-not-blocked")

\* sol-transfer:225-228. A rebuilt attempt has other bytes than the one before, so
\* the cluster cannot mistake it for the message it has already seen.
RebuildsAreNew ==
  [][\A c \in Clients :
       pc[c] = "build" /\ pc'[c] \in {"check", "send"} /\ attempt[c] > 1
       => msg'[c] # msg[c]]_<<cluster, chain, client>>
=============================================================================
