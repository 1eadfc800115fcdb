-------------------------- MODULE ReceiptLifecycle --------------------------
(***************************************************************************)
(* apps/demo/receipt-lifecycle.ts: claim with the shortest retention, wait *)
(* for the wall-clock deadline, close, and check that the deposit arrived. *)
(* Time is counted in the 30 seconds between two attempts to close.        *)
(* External: the two instructions, as commit_once executes them.           *)
(***************************************************************************)
EXTENDS Cluster

CONSTANTS
  RETENTION, SLOTS_PER_TICK,   \* The retention in ticks, and ticks in slots
  MaxUnix,                     \* Bound: the last tick
  MAX_READS,                   \* Polls of a wait (40)
  MAX_CLOSES                   \* Attempts to close (20)

VARIABLES
  unix,
  receipt,         \* Its state and deadlines
  pc, exit,
  polls,           \* Polls or attempts of the step under way
  lamports,        \* What the script has read of the receipt's deposit
  deadline,        \* The wall-clock deadline it waits for
  close,           \* Its signed close_receipt, sent again and again
  verdict,
  why              \* History: what ended the script

script == <<pc, exit, polls, lamports, deadline, close, verdict, why>>
vars == <<cluster, unix, receipt, script>>

Running == -1
Deposit == 1       \* In receipts; what the script reads is 0 or this

Init ==
  /\ ClusterInit
  /\ unix = 0
  /\ receipt = [state |-> "none", slot |-> 0, unix |-> 0]
  /\ pc = "claim" /\ exit = Running /\ polls = 0 /\ lamports = 0 /\ deadline = 0
  /\ close = [kind |-> "close", recent |-> 0] /\ verdict = "" /\ why = ""

-----------------------------------------------------------------------------
(* The chain *)

Exists == receipt.state = "live"
Expired == slot >= receipt.slot /\ unix >= receipt.unix
Refunded == IF receipt.state = "closed" THEN Deposit ELSE 0

NextSlot == SlotAdvances /\ UNCHANGED <<unix, receipt, script>>
\* Bound: the deadline that the script computes is within MaxUnix.
Tick ==
  /\ unix < IF pc \in {"claim", "poll", "decode"} THEN MaxUnix - RETENTION ELSE MaxUnix
  /\ unix' = unix + 1
  /\ UNCHANGED <<cluster, receipt, script>>

Land(m) ==
  /\ \/ /\ m.kind = "claim"
        /\ Executes(m, Ok)
        /\ receipt' = [state |-> "live", slot |-> slot + RETENTION * SLOTS_PER_TICK,
                       unix |-> unix + RETENTION]
     \/ /\ m.kind = "close" /\ Exists /\ Expired
        /\ Executes(m, Ok)
        /\ receipt' = [receipt EXCEPT !.state = "closed"]
  /\ UNCHANGED <<unix, script>>

-----------------------------------------------------------------------------
(* The script *)

Ends(reason) ==
  /\ pc' = "done" /\ exit' = 1 /\ why' = reason
  /\ UNCHANGED <<cluster, unix, receipt, polls, lamports, deadline, close, verdict>>

\* A request that fails ends the script: this one has no retrying transport.
RequestFails == pc # "done" /\ Ends("rpc")

Claim ==
  /\ pc = "claim"
  /\ Forwards([kind |-> "claim", recent |-> slot])
  /\ pc' = "poll"
  /\ UNCHANGED <<unix, receipt, exit, polls, lamports, deadline, close, verdict, why>>

\* A node shows an account as it is, or lags and shows it as it was.
Readings == {Exists, FALSE}

ReadsOver == polls = MAX_READS

PollReceipt ==
  /\ pc = "poll"
  /\ \E readable \in Readings :
       /\ lamports' = IF readable THEN Deposit ELSE 0
       /\ IF readable \/ ReadsOver
          THEN pc' = "decode" /\ polls' = 0
          ELSE polls' = polls + 1 /\ UNCHANGED pc
  /\ UNCHANGED <<cluster, unix, receipt, exit, deadline, close, verdict, why>>

\* decodeReceipt is not a method of the client: the call throws if there is anything
\* to decode; otherwise the deadline is counted from now.
Decode ==
  /\ pc = "decode"
  /\ \E readable \in Readings :
       IF readable
       THEN Ends("TypeError")
       ELSE /\ deadline' = unix + RETENTION
            /\ pc' = "wait"
            /\ UNCHANGED <<cluster, unix, receipt, exit, polls, lamports, close, verdict, why>>

Wait ==
  /\ pc = "wait" /\ unix >= deadline
  /\ \E readable \in Readings :
       IF ~readable
       THEN Ends("disappeared")
       ELSE /\ pc' = "close"
            /\ close' = [close EXCEPT !.recent = slot]
            /\ UNCHANGED <<cluster, unix, receipt, exit, polls, lamports, deadline, verdict, why>>

\* Preflight answers ReceiptNotExpired, or refuses a blockhash that is no longer recent.
NotExpired == Valid(close) /\ Exists /\ ~Expired

Close ==
  /\ pc = "close"
  /\ Valid(close) /\ Exists /\ Expired
  /\ Forwards(close)
  /\ pc' = "gone" /\ polls' = 0
  /\ UNCHANGED <<unix, receipt, exit, lamports, deadline, close, verdict, why>>

CloseRejected ==
  /\ pc = "close"
  /\ IF NotExpired /\ polls < MAX_CLOSES
     THEN /\ polls' = polls + 1
          /\ UNCHANGED <<cluster, unix, receipt, pc, exit, lamports, deadline, close, verdict, why>>
     ELSE /\ ~(Valid(close) /\ Exists /\ Expired)
          /\ Ends(IF NotExpired THEN "refused" ELSE "rejected")

Verified(gone, refunded) == gone /\ refunded = lamports

\* Polls for the account and the refund; then the verdict, and a name that does not exist.
PollGone ==
  /\ pc = "gone"
  /\ \E gone \in {FALSE, receipt.state = "closed"}, refunded \in {0, Refunded} :
       IF (gone /\ refunded > 0) \/ ReadsOver
       THEN /\ verdict' = IF Verified(gone, refunded) THEN "VERIFIED" ELSE "NOT VERIFIED"
            /\ pc' = "done" /\ exit' = 1 /\ why' = "ReferenceError"
            /\ UNCHANGED polls
       ELSE polls' = polls + 1 /\ UNCHANGED <<verdict, pc, exit, why>>
  /\ UNCHANGED <<cluster, unix, receipt, lamports, deadline, close>>

Main == Claim \/ PollReceipt \/ Decode \/ Wait \/ Close \/ CloseRejected \/ PollGone

Next ==
  \/ NextSlot \/ Tick
  \/ \E m \in inflight : Land(m)
  \/ Main \/ RequestFails

Spec == Init /\ [][Next]_vars

-----------------------------------------------------------------------------
(* Properties *)

\* receipt-lifecycle:246. "VERIFIED: the receipt closed and the full deposit reached the
\* configured destination" is printed only when that is so, whatever lagging nodes show.
VerifiedIsTrue == verdict = "VERIFIED" => receipt.state = "closed" /\ Refunded = Deposit

\* apps/demo/README.md:93-94. The script "waits for both deadlines to pass, then closes
\* the receipt": once it holds a receipt it does not end by an error of its own.
ClosesWhatItClaimed == why # "TypeError"
=============================================================================
