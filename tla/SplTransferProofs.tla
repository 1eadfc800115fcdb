-------------------------- MODULE SplTransferProofs --------------------------
(***************************************************************************)
(* The guarded token transfer for any number of processes, keys, funds and *)
(* closures of the destination: what is paid, and what the race with the   *)
(* destination's owner can do.                                             *)
(***************************************************************************)
EXTENDS SplTransfer, GuardedRetryProofs

LEMMA FreshReceipts == NoReceipt \notin Receipts(IntentOf)
BY RetryAssumption DEF Receipts

\* When the transfer succeeds, and when it fails with what.
LEMMA BusinessFacts ==
  ASSUME NEW m
  PROVE  /\ \A r \in Business(m) : r # Ok => r.code \notin {AlreadyCommitted, IdempotencyConflict}
         /\ Ok \in Business(m) => ~(tokenBalance < 1)
         /\ NoAccount \in Business(m) => ~destination /\ ~m.create
BY DEF Business, NoAccount, InsufficientFunds, BusinessError, Ok, AlreadyCommitted,
   IdempotencyConflict

\* What the chain may answer to a message.
LEMMA ResultFacts ==
  ASSUME NEW m, NEW r \in Results(m)
  PROVE  /\ r = Ok => receipt[m.key] = NoReceipt /\ ~(tokenBalance < 1)
         /\ r # Ok => ResultOK(m, r)
         /\ r = NoAccount => ~destination /\ ~m.create
<1>1. \A b \in Business(m) : b # Ok => b.code \notin {AlreadyCommitted, IdempotencyConflict}
  BY BusinessFacts
<1>2. CASE receipt[m.key] = NoReceipt
  BY <1>1, <1>2, BusinessFacts, ResultsTrue DEF Results, GuardedResults
<1>3. CASE receipt[m.key] # NoReceipt
  <2>1. r = ClaimError(ClaimAnswer(m))
    BY <1>3 DEF Results, GuardedResults
  <2>2. r # NoAccount /\ r # Ok
    BY <2>1 DEF ClaimError, ClaimAnswer, Ok, NoAccount, BusinessError
  <2> QED
    BY <1>1, <2>2, ResultsTrue DEF Results
<1> QED
  BY <1>2, <1>3

-----------------------------------------------------------------------------
(* The loop, with the look at the destination *)

IsMessage(m) ==
  m = [key |-> m.key, payload |-> m.payload, recent |-> m.recent, fee |-> m.fee,
       create |-> m.create]

\* A message that does not create the account was signed when the account was there: if it is
\* not any more, it has been closed since.
Backed(m) == ~m.create /\ ~destination => \E s \in closures : m.recent <= s /\ s <= slot

LookInv ==
  /\ destination \in BOOLEAN /\ closures \subseteq Nat
  /\ \A c \in Clients :
       /\ pc[c] \in {"check", "send", "confirm"} =>
            IsMessage(msg[c]) /\ msg[c].recent \in Nat /\ msg[c].recent <= slot
       /\ pc[c] \in {"send", "confirm"} => Backed(msg[c])
  /\ \A m \in inflight : m.recent \in Nat /\ m.recent <= slot /\ Backed(m)
  /\ OnlyAClosureFails

LEMMA StepShape ==
  ASSUME LookInv, LoopInv(IntentOf), NEW c \in Clients, Progress(c) \/ ConnectionLost(c)
  PROVE  ClientStep(IntentOf, c, Results(msg[c]))
<1>1. CASE GetBlockhash(c)
  <2> DEFINE m == [key |-> KeyOf[c], payload |-> IntentOf[c], recent |-> slot, fee |-> fee[c],
                   create |-> FALSE]
  <2>1. Builds(c, m, "check") /\ m.key = KeyOf[c] /\ m.payload = IntentOf[c]
    BY <1>1 DEF GetBlockhash
  <2> QED
    BY <2>1 DEF ClientStep, Prepares
<1>2. CASE Check(c)
  <2>1. CASE ~destination /\ token2022
    BY <1>2, <2>1 DEF Check, ClientStep, Prepares, Refuses, Refusals
  <2>2. CASE ~(~destination /\ token2022)
    <3> DEFINE m == [msg[c] EXCEPT !.create = ~destination]
    <3>1. pc[c] = "check" /\ msg' = [msg EXCEPT ![c] = m]
      BY <1>2, <2>2 DEF Check
    <3>2. m.key = msg[c].key /\ m.payload = msg[c].payload
      BY <3>1 DEF LookInv, IsMessage
    <3>3. m.key = KeyOf[c] /\ m.payload = IntentOf[c]
      BY <3>1, <3>2 DEF LoopInv
    <3>4. Looks(IntentOf, c)
      BY <1>2, <2>2, <3>1, <3>3 DEF Check, Looks
    <3> QED
      BY <3>4 DEF ClientStep, Prepares
  <2> QED
    BY <2>1, <2>2
<1>3. CASE Begin(c)
  BY <1>3 DEF Begin, ClientStep, Prepares, Refuses, Refusals
<1> QED
  BY <1>1, <1>2, <1>3 DEF Progress, Report, Attempt, ClientStep, Prepares

LEMMA InvInit == Init => Inv(IntentOf) /\ LookInv
<1> SUFFICES ASSUME Init PROVE Inv(IntentOf) /\ LookInv
  OBVIOUS
<1>1. Inv(IntentOf)
  BY BankInit, AnswerInit DEF Init, Inv
<1>2. LookInv
  BY DEF Init, RetryInit, ClusterInit, LookInv, OnlyAClosureFails
<1> QED
  BY <1>1, <1>2

LEMMA InvStep == Inv(IntentOf) /\ LookInv /\ [Next]_vars => Inv(IntentOf)'
<1> SUFFICES ASSUME Inv(IntentOf), LookInv, [Next]_vars PROVE Inv(IntentOf)'
  OBVIOUS
<1> USE DEF Inv
<1>1. CASE NextSlot \/ Appears \/ Closes \/ UNCHANGED vars
  <2>1. /\ UNCHANGED <<landed, inflight, chain, receipt, pc, msg, reads, status>>
        /\ slot' \in Nat /\ slot' >= slot
    BY <1>1 DEF NextSlot, SlotAdvances, Appears, Closes, vars, cluster, chain, client, loop, BankInv
  <2> QED
    BY <2>1, BankRests, LoopRests, AnswerRests DEF BankInv
<1>2. ASSUME NEW m \in inflight, NEW r \in Results(m), LandTransfer(m, r) PROVE Inv(IntentOf)'
  <2>1. Land(m, r) /\ UNCHANGED <<pc, msg, reads>>
    BY <1>2 DEF LandTransfer, Land, client, loop
  <2> QED
    BY <2>1, FreshReceipts, ResultFacts, LandKeepsBank, LandTells, LoopRests
<1>3. ASSUME NEW c \in Clients, Progress(c) \/ ConnectionLost(c) PROVE Inv(IntentOf)'
  BY <1>3, StepShape, BankStep, LoopStep, AnswerStep, ResultFacts
<1> QED
  BY <1>1, <1>2, <1>3 DEF Next

-----------------------------------------------------------------------------
(* The race with the destination *)

LEMMA LandLooks ==
  ASSUME LookInv, Inv(IntentOf), NEW m \in inflight, NEW r \in Results(m), LandTransfer(m, r)
  PROVE  LookInv'
<1>1. /\ landed' = landed \cup {[msg |-> m, result |-> r, slot |-> slot]}
      /\ UNCHANGED <<slot, inflight, closures, pc, msg>>
  BY DEF LandTransfer, Land, Executes, client, loop
<1>2. destination' \in BOOLEAN /\ (~destination' => ~destination)
  BY DEF LandTransfer, LookInv
<1>3. \A x : Backed(x) => Backed(x)'
  BY <1>1, <1>2 DEF Backed
<1>4. r = NoAccount => \E s \in closures : m.recent <= s /\ s <= slot
  BY ResultFacts DEF LookInv, Backed
<1>5. OnlyAClosureFails'
  BY <1>1, <1>4 DEF LookInv, OnlyAClosureFails
<1> QED
  BY <1>1, <1>2, <1>3, <1>5 DEF LookInv

LEMMA ClientLooks ==
  ASSUME LookInv, Inv(IntentOf), NEW c \in Clients, Progress(c) \/ ConnectionLost(c),
         UNCHANGED token
  PROVE  LookInv'
<1>1. ClientStep(IntentOf, c, Results(msg[c])) /\ UNCHANGED <<slot, landed>>
  BY StepShape, ClientHandsOver DEF Inv
<1>2. inflight' = inflight \/ (pc[c] = "send" /\ inflight' = inflight \cup {msg[c]})
  BY <1>1, ClientHandsOver
<1>3. \A d \in Clients \ {c} : pc'[d] = pc[d] /\ msg'[d] = msg[d]
  BY <1>1, OthersRest
<1>4. \A x : Backed(x)' = Backed(x)
  BY <1>1 DEF Backed, token
<1>5. /\ pc'[c] \in {"check", "send", "confirm"} =>
           IsMessage(msg'[c]) /\ msg'[c].recent \in Nat /\ msg'[c].recent <= slot
      /\ pc'[c] \in {"send", "confirm"} => Backed(msg'[c])
  <2>1. CASE GetBlockhash(c)
    BY <2>1 DEF GetBlockhash, Builds, IsMessage, Inv, BankInv, LoopInv
  <2>2. CASE Check(c)
    <3>1. CASE ~destination /\ token2022
      BY <2>2, <3>1 DEF Check, Throw, Inv, LoopInv
    <3>2. CASE ~(~destination /\ token2022)
      <4>1. pc[c] = "check" /\ msg'[c] = [msg[c] EXCEPT !.create = ~destination]
        BY <2>2, <3>2 DEF Check, Inv, LoopInv
      <4>2. IsMessage(msg[c]) /\ msg[c].recent \in Nat /\ msg[c].recent <= slot
        BY <4>1 DEF LookInv
      <4>3. IsMessage(msg'[c]) /\ msg'[c].recent = msg[c].recent /\ msg'[c].create = ~destination
        BY <4>1, <4>2 DEF IsMessage
      <4> QED
        BY <4>2, <4>3 DEF Backed
    <3> QED
      BY <3>1, <3>2
  <2>3. CASE Attempt(c) \/ ConnectionLost(c)
    <3>1. SendAndConfirm(c, Results(msg[c])) \/ ConnectionLost(c)
      BY <2>3 DEF Attempt
    <3>2. UNCHANGED msg /\ pc[c] \in {"send", "confirm"}
      BY <3>1, AttemptShape
    <3> QED
      BY <3>2 DEF LookInv
  <2>4. CASE Begin(c) \/ ReadFails(c) \/ Report(c)
    BY <2>4 DEF Begin, Begins, ReadFails, Throw, Report, Reports, Inv, LoopInv
  <2> QED
    BY <2>1, <2>2, <2>3, <2>4 DEF Progress
<1>6. \A m \in inflight' : m.recent \in Nat /\ m.recent <= slot /\ Backed(m)
  BY <1>2 DEF LookInv
<1>7. OnlyAClosureFails'
  BY <1>1 DEF OnlyAClosureFails, LookInv, token
<1> QED
  BY <1>1, <1>3, <1>4, <1>5, <1>6, <1>7 DEF LookInv, token

LEMMA LookStep == Inv(IntentOf) /\ LookInv /\ [Next]_vars => LookInv'
<1> SUFFICES ASSUME Inv(IntentOf), LookInv, [Next]_vars PROVE LookInv'
  OBVIOUS
<1>1. CASE (NextSlot /\ UNCHANGED token) \/ Appears \/ Closes \/ UNCHANGED vars
  <2>1. /\ UNCHANGED <<inflight, landed, pc, msg>> /\ slot' \in Nat /\ slot' >= slot
        /\ closures' \subseteq Nat /\ closures \subseteq closures' /\ destination' \in BOOLEAN
    <3>1. slot \in Nat /\ destination \in BOOLEAN /\ closures \subseteq Nat
      BY DEF LookInv, Inv, BankInv
    <3>2. CASE NextSlot /\ UNCHANGED token
      BY <3>1, <3>2 DEF NextSlot, SlotAdvances, client, loop, token
    <3>3. CASE Appears
      BY <3>1, <3>3 DEF Appears, cluster, client, loop
    <3>4. CASE Closes
      <4>1. UNCHANGED <<slot, inflight, landed, pc, msg>>
        BY <3>4 DEF Closes, cluster, client, loop
      <4>2. closures' = closures \cup {slot} /\ destination' = FALSE
        BY <3>4 DEF Closes
      <4>3. slot' \in Nat /\ slot' >= slot
        BY <3>1, <4>1
      <4>4. closures' \subseteq Nat /\ closures \subseteq closures'
        BY <3>1, <4>2
      <4>5. destination' \in BOOLEAN
        BY <4>2
      <4> QED
        BY <4>1, <4>3, <4>4, <4>5
    <3>5. CASE UNCHANGED vars
      BY <3>1, <3>5 DEF vars, cluster, client, loop, token
    <3> QED
      BY <1>1, <3>2, <3>3, <3>4, <3>5
  <2>2. ASSUME NEW m, m.recent \in Nat, m.recent <= slot, Backed(m) PROVE Backed(m)'
    <3>1. CASE ~Closes
      <4>1. ~destination' => ~destination
        BY <1>1, <3>1 DEF Appears, vars, token
      <4>2. closures \subseteq Nat /\ slot \in Nat
        BY DEF LookInv, Inv, BankInv
      <4> QED
        BY <2>1, <2>2, <4>1, <4>2 DEF Backed
    <3>2. CASE Closes
      <4>1. slot' = slot /\ slot \in closures' /\ slot \in Nat
        BY <3>2 DEF Closes, cluster, Inv, BankInv
      <4>2. \E s \in closures' : m.recent <= s /\ s <= slot'
        BY <2>2, <4>1
      <4> QED
        BY <4>2 DEF Backed
    <3> QED
      BY <3>1, <3>2
  <2>3. OnlyAClosureFails'
    BY <2>1 DEF OnlyAClosureFails, LookInv
  <2>4. slot \in Nat
    BY DEF Inv, BankInv
  <2>5. \A n \in Nat : n <= slot => n <= slot'
    BY <2>1, <2>4
  <2> QED
    BY <2>1, <2>2, <2>3, <2>5 DEF LookInv, IsMessage
<1>2. ASSUME NEW m \in inflight, NEW r \in Results(m), LandTransfer(m, r) PROVE LookInv'
  BY <1>2, LandLooks
<1>3. ASSUME NEW c \in Clients, Progress(c) \/ ConnectionLost(c), UNCHANGED token PROVE LookInv'
  BY <1>3, ClientLooks
<1> QED
  BY <1>1, <1>2, <1>3 DEF Next

\* However many processes retry one payment, it is made at most once, and its key is consumed
\* exactly when it is (spl-transfer:309-312, claim.rs:97-151).
THEOREM PaymentsRunOnce == Spec => [](PerformedAtMostOnce /\ ReceiptMeansPerformed)
<1>1. Inv(IntentOf) => PerformedAtMostOnce /\ ReceiptMeansPerformed
  BY BankGives DEF Inv
<1> QED
  BY <1>1, InvInit, InvStep, LookStep, PTL DEF Spec

\* The look before the send races with the account's owner, and the race is benign: only an
\* account that was closed after the attempt took its blockhash fails its transfer, whatever
\* else happens to the account in between (spl-transfer:309-312).
THEOREM OnlyClosuresFail == Spec => []OnlyAClosureFails
<1>1. LookInv => OnlyAClosureFails
  BY DEF LookInv
<1> QED
  BY <1>1, InvInit, InvStep, LookStep, PTL DEF Spec

-----------------------------------------------------------------------------
(* What the authority and the source pay *)

\* No more accounts than keys have been paid for.
RentInv == CountInv /\ rents \in Nat /\ rents <= Cardinality(ConsumedKeys)

LEMMA LandPays ==
  ASSUME IsFiniteSet(Clients), Inv(IntentOf), CountInv,
         NEW m \in inflight, NEW r \in Results(m), LandTransfer(m, r)
  PROVE  /\ CountInv'
         /\ r = Ok => /\ Cardinality(ConsumedKeys)' = Cardinality(ConsumedKeys) + 1
                      /\ Cardinality(performed)' = Cardinality(performed) + 1
                      /\ ~(tokenBalance < 1)
         /\ r # Ok => UNCHANGED <<receipt, performed, ConsumedKeys, rents>>
<1>1. Land(m, r) /\ (r # Ok => UNCHANGED rents)
  BY DEF LandTransfer
<1> QED
  BY <1>1, FreshReceipts, ResultFacts, LandCounts DEF Inv

\* However often the owner closes the account and the retries find it missing, the authority
\* pays for it at most once per key (spl-transfer:427).
THEOREM RentIsPaidOnce ==
  ASSUME IsFiniteSet(Clients)
  PROVE  Spec => []BlockedPaysNothing
<1>1. Init => RentInv
  <2> SUFFICES ASSUME Init PROVE RentInv
    OBVIOUS
  <2>1. CountInv /\ Cardinality(ConsumedKeys) = 0
    BY CountInit, FS_EmptySet DEF Init
  <2> QED
    BY <2>1 DEF Init, RentInv
<1>2. Inv(IntentOf) /\ LookInv /\ RentInv /\ [Next]_vars => RentInv'
  <2> SUFFICES ASSUME Inv(IntentOf), LookInv, RentInv, [Next]_vars PROVE RentInv'
    OBVIOUS
  <2>1. CASE UNCHANGED <<receipt, performed, rents>>
    BY <2>1, CountRests DEF RentInv
  <2>2. ASSUME NEW m \in inflight, NEW r \in Results(m), LandTransfer(m, r) PROVE RentInv'
    <3>1. CountInv' /\ Cardinality(ConsumedKeys) \in Nat
      BY <2>2, LandPays, KeysFinite DEF RentInv
    <3>2. CASE r = Ok
      <4>1. Cardinality(ConsumedKeys)' = Cardinality(ConsumedKeys) + 1
        BY <2>2, <3>2, LandPays DEF RentInv
      <4>2. rents' \in {rents, rents + 1}
        BY <2>2 DEF LandTransfer
      <4>3. rents \in Nat /\ rents <= Cardinality(ConsumedKeys)
        BY DEF RentInv
      <4> QED
        BY <3>1, <4>1, <4>2, <4>3 DEF RentInv
    <3>3. CASE r # Ok
      BY <2>1, <2>2, <3>3, LandPays DEF RentInv
    <3> QED
      BY <3>2, <3>3
  <2>3. ASSUME NEW c \in Clients, Progress(c) \/ ConnectionLost(c), UNCHANGED token PROVE RentInv'
    BY <2>1, <2>3, StepShape, ClientHandsOver DEF Inv, token
  <2>4. CASE (NextSlot /\ UNCHANGED token) \/ Appears \/ Closes \/ UNCHANGED vars
    BY <2>1, <2>4 DEF NextSlot, Appears, Closes, vars, token, chain
  <2> QED
    BY <2>2, <2>3, <2>4 DEF Next
<1>3. RentInv => BlockedPaysNothing
  <2> SUFFICES ASSUME RentInv PROVE rents <= Cardinality(Keys)
    BY DEF BlockedPaysNothing
  <2> QED
    BY KeysFinite DEF RentInv
<1> QED
  BY <1>1, <1>2, <1>3, InvInit, InvStep, LookStep, PTL DEF Spec

Active(c) == pc[c] \in {"build", "check", "send", "confirm", "report"}

\* The source has paid since main read its balance.
Spent(c) == tokenBalance < before[c]

\* A process knows a balance that was true, and has seen no success that it was not paid after.
PaidOK(c) ==
  /\ Active(c) => before[c] \in Nat /\ before[c] <= Funds /\ tokenBalance <= before[c]
  /\ Active(c) /\ Said(c, "committed") => Spent(c)
  /\ pc[c] = "confirm" =>
       \A l \in landed : l.msg = msg[c] /\ l.result = Ok => Spent(c)
  /\ after[c] # Unread =>
       /\ pc[c] = "done"
       /\ before[c] - after[c] \in 0 .. Cardinality(Keys)
       /\ Said(c, "committed") => before[c] - after[c] >= 1

PaidInv == CountInv /\ tokenBalance \in Nat /\ \A c \in Clients : PaidOK(c)

LEMMA BalanceFacts ==
  ASSUME Funds \in Nat, IsFiniteSet(Clients), CountInv
  PROVE  /\ Cardinality(performed) \in Nat /\ Cardinality(Keys) \in Nat
         /\ Cardinality(performed) <= Cardinality(Keys)
         /\ tokenBalance \in Int /\ tokenBalance = Funds - Cardinality(performed)
<1>1. Cardinality(performed) \in Nat /\ Cardinality(performed) <= Cardinality(Keys)
      /\ Cardinality(Keys) \in Nat
  BY KeysFinite DEF CountInv
<1> QED
  BY <1>1 DEF tokenBalance

LEMMA PaidRests ==
  ASSUME PaidInv, UNCHANGED <<receipt, performed, landed, client>>
  PROVE  PaidInv'
<1>1. CountInv' /\ UNCHANGED tokenBalance
  BY CountRests DEF PaidInv, tokenBalance
<1>2. \A c \in Clients : PaidOK(c)'
  BY <1>1 DEF PaidInv, PaidOK, Active, Spent, Said, client, loop, reads
<1> QED
  BY <1>1, <1>2 DEF PaidInv

LEMMA LandPaid ==
  ASSUME Funds \in Nat, IsFiniteSet(Clients), Inv(IntentOf), PaidInv,
         NEW m \in inflight, NEW r \in Results(m), LandTransfer(m, r)
  PROVE  PaidInv'
<1>1. /\ landed' = landed \cup {[msg |-> m, result |-> r, slot |-> slot]}
      /\ UNCHANGED <<pc, msg, before, after, status>>
  BY DEF LandTransfer, Land, Executes, client, loop, reads
<1>2. CountInv' /\ tokenBalance \in Nat
  BY LandPays DEF PaidInv
<1>3. tokenBalance' \in Nat /\ (IF r = Ok THEN tokenBalance' < tokenBalance ELSE tokenBalance' = tokenBalance)
  <2>1. CASE r = Ok
    <3>1. Cardinality(performed)' = Cardinality(performed) + 1 /\ ~(tokenBalance < 1)
      BY <2>1, LandPays DEF PaidInv
    <3>2. tokenBalance' = tokenBalance - 1
      BY <3>1, BalanceFacts DEF PaidInv, tokenBalance
    <3> QED
      BY <1>2, <2>1, <3>1, <3>2
  <2>2. CASE r # Ok
    BY <1>2, <2>2, LandPays DEF PaidInv, tokenBalance
  <2> QED
    BY <2>1, <2>2
<1>4. ASSUME NEW c \in Clients PROVE PaidOK(c)'
  <2>1. PaidOK(c)
    BY DEF PaidInv
  <2>2. Active(c) => /\ before[c] \in Nat /\ before[c] <= Funds /\ tokenBalance' <= before[c]
                     /\ Spent(c) => Spent(c)'
                     /\ r = Ok => Spent(c)'
    BY <1>1, <1>2, <1>3, <2>1 DEF PaidOK, Spent
  <2>3. pc[c] = "confirm" => \A l \in landed' : l.msg = msg[c] /\ l.result = Ok => Spent(c)'
    BY <1>1, <2>1, <2>2 DEF PaidOK, Active
  <2> QED
    BY <1>1, <2>1, <2>2, <2>3 DEF PaidOK, Active, Said
<1> QED
  BY <1>2, <1>3, <1>4 DEF PaidInv

LEMMA ClientPaid ==
  ASSUME Funds \in Nat, IsFiniteSet(Clients), Inv(IntentOf), LookInv, PaidInv,
         NEW c \in Clients, Progress(c) \/ ConnectionLost(c)
  PROVE  PaidInv'
<1>1. /\ ClientStep(IntentOf, c, Results(msg[c]))
      /\ UNCHANGED <<landed, receipt, performed>>
  BY StepShape, ClientHandsOver DEF Inv
<1>2. CountInv' /\ UNCHANGED tokenBalance /\ tokenBalance \in Nat
  BY <1>1, CountRests DEF PaidInv, tokenBalance
<1>3. \A d \in Clients \ {c} : PaidOK(d)'
  <2> TAKE d \in Clients \ {c}
  <2>1. /\ pc'[d] = pc[d] /\ msg'[d] = msg[d] /\ status'[d] = status[d]
        /\ before'[d] = before[d] /\ after'[d] = after[d] /\ PaidOK(d)
    BY <1>1, OthersRest DEF PaidInv
  <2> QED
    BY <1>1, <1>2, <2>1 DEF PaidOK, Active, Spent, Said
<1>4. PaidOK(c) /\ ReplayOK(IntentOf, c) /\ status[c] \in Seq(Answers)
  BY DEF PaidInv, Inv, AnswerInv, ToldOK
<1>5. pc[c] # "done"
  BY <1>1 DEF ClientStep, Prepares, Begins, Builds, Looks, Refuses, ReadFails, Reports,
     SendAndConfirm, Submit, PreflightFails, SendFails, Confirmed, BlockHeightExceeded,
     ConnectionLost
<1>6. after[c] = Unread
  BY <1>4, <1>5 DEF PaidOK
<1>7. CASE Begins(c, tokenBalance)
  <2>1. /\ pc[c] = "main" /\ pc'[c] = "build" /\ before'[c] = tokenBalance /\ after'[c] = after[c]
        /\ status'[c] = status[c]
    BY <1>7 DEF Begins, Inv, LoopInv
  <2>2. ~Said(c, "committed")'
    BY <1>4, <2>1 DEF ReplayOK, Said
  <2>3. tokenBalance <= Funds
    BY BalanceFacts DEF PaidInv
  <2> QED
    BY <1>2, <1>3, <1>6, <2>1, <2>2, <2>3 DEF PaidInv, PaidOK
<1>8. CASE Report(c)
  <2>1. /\ pc[c] = "report" /\ pc'[c] = "done" /\ before'[c] = before[c] /\ after'[c] = tokenBalance
    BY <1>8 DEF Report, Reports, Inv, LoopInv
  <2>2. Said(c, "committed")' => Said(c, "committed")
    BY <1>1, <2>1, SaysWhy
  <2>3. before[c] \in Nat /\ before[c] <= Funds /\ tokenBalance <= before[c]
    BY <1>4, <2>1 DEF PaidOK, Active
  <2>4. before[c] - tokenBalance \in 0 .. Cardinality(Keys)
    BY <2>3, BalanceFacts DEF PaidInv
  <2>5. Said(c, "committed") => before[c] - tokenBalance >= 1
    BY <1>2, <1>4, <2>1, <2>3 DEF PaidOK, Active, Spent
  <2> QED
    BY <1>2, <1>3, <2>1, <2>2, <2>4, <2>5 DEF PaidInv, PaidOK, Active
<1>9. CASE Attempt(c) \/ ConnectionLost(c)
  <2>1. SendAndConfirm(c, Results(msg[c])) \/ ConnectionLost(c)
    BY <1>9 DEF Attempt
  <2>2. /\ UNCHANGED <<msg, before, after>> /\ pc[c] \in {"send", "confirm"}
        /\ \/ pc'[c] \in {"build", "report", "done"}
           \/ pc'[c] = "confirm" /\ Submit(c, Results(msg[c])) /\ UNCHANGED status
    BY <2>1, AttemptShape
  <2>3. Said(c, "committed")' => Spent(c)
    BY <1>1, <1>4, <2>2, SaysWhy DEF PaidOK, Active
  <2>4. pc'[c] = "confirm" => \A l \in landed : l.msg # msg[c]
    BY <2>2 DEF Submit, Processed
  <2> QED
    BY <1>1, <1>2, <1>3, <1>4, <1>6, <2>2, <2>3, <2>4 DEF PaidInv, PaidOK, Active, Spent
<1>10. CASE GetBlockhash(c) \/ Check(c) \/ ReadFails(c) \/ (Begin(c) /\ ~Begins(c, tokenBalance))
  <2>1. /\ before'[c] = before[c] /\ after'[c] = after[c]
        /\ pc'[c] = "done" \/ (pc'[c] \in {"check", "send"} /\ Active(c) /\ UNCHANGED status)
    BY <1>10 DEF GetBlockhash, Builds, Check, ReadFails, Begin, Throw, reads, Active, Inv, LoopInv
  <2> QED
    BY <1>2, <1>3, <1>4, <1>6, <2>1 DEF PaidInv, PaidOK, Active, Spent, Said
<1> QED
  BY <1>7, <1>8, <1>9, <1>10 DEF Progress, Begin

\* What a run prints for the source is at least one transfer if its own submission committed,
\* and never more than one per key: the balance it read before its first submission is older
\* than everything it waits for (spl-transfer:626-633).
THEOREM SourceIsChargedOnce ==
  ASSUME Funds \in Nat, IsFiniteSet(Clients)
  PROVE  Spec => []SourcePaysOnce
<1>1. Init => PaidInv
  <2> SUFFICES ASSUME Init PROVE PaidInv
    OBVIOUS
  <2>1. CountInv /\ tokenBalance = Funds
    BY CountInit, FS_EmptySet DEF Init, RetryInit, tokenBalance
  <2> QED
    BY <2>1 DEF Init, RetryInit, PaidInv, PaidOK, Active
<1>2. Inv(IntentOf) /\ LookInv /\ PaidInv /\ [Next]_vars => PaidInv'
  <2> SUFFICES ASSUME Inv(IntentOf), LookInv, PaidInv, [Next]_vars PROVE PaidInv'
    OBVIOUS
  <2>1. CASE (NextSlot /\ UNCHANGED token) \/ Appears \/ Closes \/ UNCHANGED vars
    <3>1. UNCHANGED <<receipt, performed, landed, client>>
      BY <2>1 DEF NextSlot, SlotAdvances, Appears, Closes, vars, cluster, chain
    <3> QED
      BY <3>1, PaidRests
  <2>2. ASSUME NEW m \in inflight, NEW r \in Results(m), LandTransfer(m, r) PROVE PaidInv'
    BY <2>2, LandPaid
  <2>3. ASSUME NEW c \in Clients, Progress(c) \/ ConnectionLost(c) PROVE PaidInv'
    BY <2>3, ClientPaid
  <2> QED
    BY <2>1, <2>2, <2>3 DEF Next
<1>3. PaidInv => SourcePaysOnce
  BY DEF PaidInv, PaidOK, SourcePaysOnce
<1> QED
  BY <1>1, <1>2, <1>3, InvInit, InvStep, LookStep, PTL DEF Spec
=============================================================================
