-------------------------- MODULE SolTransferProofs --------------------------
(***************************************************************************)
(* The retries of any number of processes, over any number of slots, with  *)
(* any number of attempts each: what is performed and what is reported.    *)
(* The lemmas about the guard and the loop are those of GuardedRetryProofs *)
(* for messages whose payload is the intent's own fingerprint.             *)
(***************************************************************************)
EXTENDS SolTransfer, GuardedRetryProofs

LEMMA FreshReceipts == NoReceipt \notin Receipts(IntentOf)
BY RetryAssumption DEF Receipts

LEMMA StepShape ==
  ASSUME NEW c \in Clients, Progress(c) \/ ConnectionLost(c)
  PROVE  ClientStep(IntentOf, c, Results(msg[c]))
<1>1. CASE Build(c)
  <2> DEFINE m == [key |-> KeyOf[c], payload |-> IntentOf[c], recent |-> slot, fee |-> fee[c]]
  <2>1. Builds(c, m, "send") /\ m.key = KeyOf[c] /\ m.payload = IntentOf[c]
    BY <1>1 DEF Build
  <2> QED
    BY <2>1 DEF ClientStep, Prepares
<1> QED
  BY <1>1 DEF Progress, Begin, Report, Attempt, ClientStep, Prepares

LEMMA BankCorrect == Spec => [](BankInv(IntentOf) /\ LoopInv(IntentOf))
<1>1. Init => BankInv(IntentOf) /\ LoopInv(IntentOf)
  BY BankInit DEF Init
<1>2. BankInv(IntentOf) /\ LoopInv(IntentOf) /\ [Next]_vars
      => (BankInv(IntentOf) /\ LoopInv(IntentOf))'
  <2> SUFFICES ASSUME BankInv(IntentOf), LoopInv(IntentOf), [Next]_vars
               PROVE  BankInv(IntentOf)' /\ LoopInv(IntentOf)'
    OBVIOUS
  <2>1. CASE NextSlot
    BY <2>1, SlotKeepsBank, LoopRests DEF NextSlot, client, loop
  <2>2. ASSUME NEW m \in inflight, NEW r \in Results(m), Land(m, r)
        PROVE  BankInv(IntentOf)' /\ LoopInv(IntentOf)'
    <3>1. UNCHANGED <<pc, msg, reads>>
      BY <2>2 DEF Land, client, loop
    <3> QED
      BY <2>2, <3>1, FreshReceipts, OkMeansNew, LandKeepsBank, LoopRests DEF Results
  <2>3. ASSUME NEW c \in Clients, Progress(c) \/ ConnectionLost(c)
        PROVE  BankInv(IntentOf)' /\ LoopInv(IntentOf)'
    BY <2>3, StepShape, BankStep, LoopStep
  <2>4. CASE UNCHANGED vars
    BY <2>4, BankRests, LoopRests DEF vars, cluster, client, loop, BankInv
  <2> QED
    BY <2>1, <2>2, <2>3, <2>4 DEF Next
<1> QED
  BY <1>1, <1>2, PTL DEF Spec

\* However many processes retry one key, over however many attempts and slots, what the
\* guard protects runs at most once (sol-transfer:309-332, claim.rs:97-151).
THEOREM RetriesPerformOnce == Spec => []PerformedAtMostOnce
<1>1. BankInv(IntentOf) => PerformedAtMostOnce
  BY BankGives
<1> QED
  BY <1>1, BankCorrect, PTL

\* A key is consumed exactly when its action has run, whatever the business instructions
\* answered to the attempts (sol-transfer:264-265).
THEOREM ReceiptsArePerformed == Spec => []ReceiptMeansPerformed
<1>1. BankInv(IntentOf) => ReceiptMeansPerformed
  BY BankGives
<1> QED
  BY <1>1, BankCorrect, PTL

-----------------------------------------------------------------------------
(* What the clients are told, when no business instruction uses commit_once's codes *)

CodesDiffer == BusinessCodes \cap {AlreadyCommitted, IdempotencyConflict} = {}

\* What the chain would answer to a message is true of its receipt.
LEMMA AnswersTrue ==
  ASSUME CodesDiffer, NEW m, NEW r \in Results(m), r # Ok
  PROVE  ResultOK(m, r)
<1>1. \A b \in Business : b # Ok => b.code \notin {AlreadyCommitted, IdempotencyConflict}
  BY DEF CodesDiffer, Business, BusinessError
<1> QED
  BY <1>1, ResultsTrue DEF Results

LEMMA AnswerCorrect ==
  ASSUME CodesDiffer
  PROVE  Spec => []Inv(IntentOf)
<1>1. Init => Inv(IntentOf)
  BY BankInit, AnswerInit DEF Init, Inv
<1>2. Inv(IntentOf) /\ (BankInv(IntentOf) /\ LoopInv(IntentOf))' /\ [Next]_vars => Inv(IntentOf)'
  <2> SUFFICES ASSUME Inv(IntentOf), [Next]_vars PROVE AnswerInv(IntentOf)'
    BY DEF Inv
  <2>1. CASE NextSlot \/ UNCHANGED vars
    <3>1. UNCHANGED <<landed, receipt, pc, msg, status>>
      BY <2>1 DEF NextSlot, SlotAdvances, vars, cluster, chain, client, loop
    <3> QED
      BY <3>1, AnswerRests DEF Inv
  <2>2. ASSUME NEW m \in inflight, NEW r \in Results(m), Land(m, r) PROVE AnswerInv(IntentOf)'
    BY <2>2, FreshReceipts, OkMeansNew, AnswersTrue, LandTells DEF Results
  <2>3. ASSUME NEW c \in Clients, Progress(c) \/ ConnectionLost(c) PROVE AnswerInv(IntentOf)'
    BY <2>3, StepShape, AnswersTrue, AnswerStep
  <2> QED
    BY <2>1, <2>2, <2>3 DEF Next
<1> QED
  BY <1>1, <1>2, BankCorrect, PTL DEF Spec

\* As long as the business program's codes are not commit_once's, a client that is told
\* "committed" or "duplicate blocked" is told so when its intent has been performed
\* (errors.ts:168-171).  Without the hypothesis it is false: run code_clash.
THEOREM SuccessIsReal ==
  ASSUME CodesDiffer
  PROVE  Spec => []SuccessIsTrue
<1>1. Inv(IntentOf) => SuccessIsTrue
  <2> SUFFICES ASSUME Inv(IntentOf), NEW c \in Clients,
                      Said(c, "committed") \/ Said(c, "duplicate-blocked")
               PROVE  \E e \in PerformedFor(KeyOf[c]) : e.msg.payload = IntentOf[c]
    BY DEF SuccessIsTrue
  <2>1. Consumed(IntentOf, c) /\ KeyOK(IntentOf, KeyOf[c])
    BY DEF Inv, AnswerInv, ToldOK, BankInv, Keys
  <2> QED
    BY <2>1 DEF Consumed, Holds, KeyOK
<1> QED
  BY <1>1, AnswerCorrect, PTL

\* A conflict is reported when the key has been consumed by another payload (errors.ts:177).
THEOREM ConflictIsReal ==
  ASSUME CodesDiffer
  PROVE  Spec => []ConflictIsTrue
<1>1. Inv(IntentOf) => ConflictIsTrue
  <2> SUFFICES ASSUME Inv(IntentOf), NEW c \in Clients, Said(c, "conflict")
               PROVE  \E e \in PerformedFor(KeyOf[c]) : e.msg.payload # IntentOf[c]
    BY DEF ConflictIsTrue
  <2>1. Conflicting(IntentOf, c) /\ KeyOK(IntentOf, KeyOf[c])
    BY DEF Inv, AnswerInv, ToldOK, BankInv, Keys
  <2> QED
    BY <2>1 DEF Conflicting, Differs, KeyOK
<1> QED
  BY <1>1, AnswerCorrect, PTL

\* Once a submission has returned, the same intent submitted again is never committed, whatever
\* the other processes do and however late the first attempts land (sol-transfer:480-486).
THEOREM ReplayNeverCommits ==
  ASSUME CodesDiffer
  PROVE  Spec => []ReplayIsBlocked
<1>1. Inv(IntentOf) => ReplayIsBlocked
  BY DEF Inv, AnswerInv, ReplayOK, ReplayIsBlocked
<1> QED
  BY <1>1, AnswerCorrect, PTL

-----------------------------------------------------------------------------
(* What a rebuilt attempt pays *)

\* A message pays the fee of its attempt, and what is rebuilt will pay more.
FeeOK(c) ==
  /\ pc[c] \in {"send", "confirm"} => msg[c].fee = fee[c]
  /\ pc[c] = "build" /\ attempt[c] > 1 => msg[c].fee # fee[c]
  /\ pc[c] = "main" => attempt[c] = 1

FeeInv ==
  /\ DOMAIN pc = Clients /\ DOMAIN msg = Clients
  /\ fee \in [Clients -> Nat \ {0}] /\ attempt \in [Clients -> Nat \ {0}]
  /\ \A c \in Clients : FeeOK(c)

\* One client moves: what it leaves behind is all there is to check.
LEMMA FeeMoves ==
  ASSUME FeeInv, NEW c \in Clients, NEW next, pc' = [pc EXCEPT ![c] = next],
         fee' \in [Clients -> Nat \ {0}], attempt' \in [Clients -> Nat \ {0}],
         DOMAIN msg' = Clients, FeeOK(c)',
         \A d \in Clients \ {c} : fee'[d] = fee[d] /\ attempt'[d] = attempt[d] /\ msg'[d] = msg[d]
  PROVE  FeeInv'
BY DEF FeeInv, FeeOK

LEMMA ReturnFees ==
  ASSUME FeeInv, NEW c \in Clients, NEW what, Return(c, what)
  PROVE  FeeInv'
<1>1. CASE Len(status[c]) = 0
  <2>1. /\ pc' = [pc EXCEPT ![c] = "build"] /\ attempt' = [attempt EXCEPT ![c] = 1]
        /\ fee' = [fee EXCEPT ![c] = BASE_PRIORITY_FEE] /\ msg' = msg
    BY <1>1 DEF Return
  <2>2. FeeOK(c)'
    BY <2>1 DEF FeeInv, FeeOK
  <2>3. fee' \in [Clients -> Nat \ {0}] /\ attempt' \in [Clients -> Nat \ {0}]
    BY <2>1, RetryAssumption DEF FeeInv
  <2>4. /\ DOMAIN msg' = Clients
        /\ \A d \in Clients \ {c} :
             fee'[d] = fee[d] /\ attempt'[d] = attempt[d] /\ msg'[d] = msg[d]
    BY <2>1 DEF FeeInv
  <2> QED
    BY <2>1, <2>2, <2>3, <2>4, FeeMoves
<1>2. CASE Len(status[c]) # 0
  BY <1>2, FeeMoves DEF Return, FeeInv, FeeOK
<1> QED
  BY <1>1, <1>2

LEMMA CatchFees ==
  ASSUME FeeInv, NEW c \in Clients, NEW result, Catch(c, result), pc[c] \in {"send", "confirm"}
  PROVE  FeeInv'
<1>1. \/ \E what : Return(c, what) \/ Throw(c, what)
      \/ Rebuild(c)
  BY DEF Catch
<1>2. ASSUME NEW what, Return(c, what) PROVE FeeInv'
  BY <1>2, ReturnFees
<1>3. ASSUME NEW what, Throw(c, what) PROVE FeeInv'
  BY <1>3, FeeMoves DEF Throw, loop, FeeInv, FeeOK
<1>4. CASE Rebuild(c)
  <2>1. /\ fee' = [fee EXCEPT ![c] = 2 * @] /\ attempt' = [attempt EXCEPT ![c] = @ + 1]
        /\ pc' = [pc EXCEPT ![c] = "build"] /\ msg' = msg
    BY <1>4 DEF Rebuild
  <2>2. fee[c] \in Nat \ {0} /\ attempt[c] \in Nat \ {0} /\ msg[c].fee = fee[c]
    BY DEF FeeInv, FeeOK
  <2>3. fee'[c] = 2 * fee[c] /\ 2 * fee[c] # fee[c]
    BY <2>1, <2>2 DEF FeeInv
  <2>4. FeeOK(c)' /\ fee' \in [Clients -> Nat \ {0}] /\ attempt' \in [Clients -> Nat \ {0}]
    BY <2>1, <2>2, <2>3 DEF FeeInv, FeeOK
  <2> QED
    BY <2>1, <2>4, FeeMoves DEF FeeInv
<1> QED
  BY <1>1, <1>2, <1>3, <1>4

LEMMA FeeStep == FeeInv /\ [Next]_vars => FeeInv'
<1> SUFFICES ASSUME FeeInv, [Next]_vars PROVE FeeInv'
  OBVIOUS
<1>1. CASE NextSlot \/ (\E m \in inflight : \E r \in Results(m) : Land(m, r)) \/ UNCHANGED vars
  <2>1. UNCHANGED <<pc, attempt, fee, msg>>
    BY <1>1 DEF NextSlot, Land, vars, client, loop
  <2> QED
    BY <2>1 DEF FeeInv, FeeOK
<1>2. ASSUME NEW c \in Clients, Progress(c) \/ ConnectionLost(c) PROVE FeeInv'
  <2>1. CASE Begin(c) \/ ReadFails(c) \/ Report(c)
    <3>1. PICK next \in {"build", "done"} : UNCHANGED loop /\ pc' = [pc EXCEPT ![c] = next]
      BY <2>1 DEF Begin, Begins, ReadFails, Throw, Report, Reports
    <3>2. pc'[c] = "build" => pc[c] = "main"
      BY <2>1 DEF Begin, Begins, ReadFails, Throw, Report, Reports, FeeInv
    <3>3. FeeOK(c)'
      BY <3>1, <3>2 DEF FeeInv, FeeOK, loop
    <3> QED
      BY <3>1, <3>3, FeeMoves DEF FeeInv, loop
  <2>2. CASE Build(c)
    BY <2>2, FeeMoves DEF Build, Builds, FeeInv, FeeOK
  <2>3. CASE Submit(c, Results(msg[c]))
    BY <2>3, FeeMoves DEF Submit, loop, FeeInv, FeeOK
  <2>4. CASE Confirmed(c)
    <3>1. pc[c] = "confirm" /\ (Return(c, "committed") \/ \E result : Catch(c, result))
      BY <2>4 DEF Confirmed
    <3> QED
      BY <3>1, ReturnFees, CatchFees
  <2>5. CASE PreflightFails(c, Results(msg[c])) \/ SendFails(c) \/ BlockHeightExceeded(c)
             \/ ConnectionLost(c)
    <3>1. pc[c] \in {"send", "confirm"} /\ \E result : Catch(c, result)
      BY <2>5 DEF PreflightFails, SendFails, BlockHeightExceeded, ConnectionLost
    <3> QED
      BY <3>1, CatchFees
  <2> QED
    BY <1>2, <2>1, <2>2, <2>3, <2>4, <2>5 DEF Progress, Attempt, SendAndConfirm
<1> QED
  BY <1>1, <1>2 DEF Next

\* The fee is what makes the bytes differ: nothing else in the message needs to
\* (sol-transfer:225-228).
THEOREM RebuildsDiffer == Spec => RebuildsAreNew
<1>1. Init => FeeInv
  BY RetryAssumption DEF Init, RetryInit, FeeInv, FeeOK
<1>2. FeeInv /\ [Next]_vars =>
        \A c \in Clients :
          pc[c] = "build" /\ pc'[c] \in {"check", "send"} /\ attempt[c] > 1 => msg'[c] # msg[c]
  <2> SUFFICES ASSUME FeeInv, [Next]_vars, NEW c \in Clients,
                      pc[c] = "build", pc'[c] \in {"check", "send"}, attempt[c] > 1
               PROVE  msg'[c] # msg[c]
    OBVIOUS
  <2>1. pc'[c] # pc[c]
    OBVIOUS
  <2>2. Build(c)
    <3>1. ASSUME NEW d \in Clients, Progress(d) \/ ConnectionLost(d) PROVE d = c
      <4>1. \E next : pc' = [pc EXCEPT ![d] = next]
        BY <3>1 DEF Progress, Begin, Begins, Build, Builds, ReadFails, Report, Reports, Attempt,
           SendAndConfirm, Submit, PreflightFails, SendFails, Confirmed, BlockHeightExceeded,
           ConnectionLost, Catch, Return, Throw, Rebuild
      <4> QED
        BY <2>1, <4>1 DEF FeeInv
    <3>2. Progress(c) \/ ConnectionLost(c)
      BY <2>1, <3>1 DEF Next, NextSlot, Land, vars, client
    <3> QED
      BY <3>2 DEF Progress, Begin, Begins, ReadFails, Throw, Report, Reports, Attempt,
         SendAndConfirm, Submit, PreflightFails, SendFails, Confirmed, BlockHeightExceeded,
         ConnectionLost, FeeInv
  <2>3. msg'[c].fee = fee[c]
    BY <2>2 DEF Build, Builds, FeeInv
  <2>4. msg[c].fee # fee[c]
    BY DEF FeeInv, FeeOK
  <2> QED
    BY <2>3, <2>4
<1> QED
  BY <1>1, <1>2, FeeStep, PTL DEF Spec, RebuildsAreNew, vars

-----------------------------------------------------------------------------
(* The ledger of intents *)

\* A message that lands performs its intent or, refused, nothing.
LEMMA LandPerforms ==
  ASSUME BankInv(IntentOf), NEW m \in inflight, NEW r \in Results(m), Land(m, r)
  PROVE  Ledger!Settle \/ UNCHANGED Ledger!vars
<1>1. /\ m.key \in Keys /\ m.payload \in Payloads
      /\ slot \in Nat /\ slot' = slot
  BY MessageTyped DEF BankInv, Payloads, Land, Executes
<1>2. CASE r # Ok
  BY <1>1, <1>2 DEF Land, chain, Ledger!vars, PerformedFor
<1>3. CASE r = Ok
  <2> DEFINE new == [payload |-> m.payload, slot |-> slot]
             grant == GrantOf(m.payload, slot)
             live(k) == IF receipt[k] = NoReceipt THEN NoReceipt
                        ELSE GrantOf(receipt[k].payload, receipt[k].slot)
             done(k) == {GrantOf(e.msg.payload, e.slot) : e \in PerformedFor(k)}
  <2>1. /\ receipt' = [receipt EXCEPT ![m.key] = new]
        /\ performed' = performed \cup {[msg |-> m, slot |-> slot]}
    BY <1>3 DEF Land
  <2>2. receipt[m.key] = NoReceipt
    BY <1>3, OkMeansNew DEF Results
  <2>3. m.key \in Keys /\ new # NoReceipt /\ DOMAIN receipt = Keys
    BY <1>1, RetryAssumption DEF BankInv, Payloads
  <2>4. PerformedFor(m.key)' = PerformedFor(m.key) \cup {[msg |-> m, slot |-> slot]}
    BY <2>1 DEF PerformedFor
  <2>5. live(m.key)' = grant /\ live(m.key) = NoReceipt
    BY <2>1, <2>2, <2>3
  <2>6. done(m.key)' = done(m.key) \cup {grant}
    <3> DEFINE e == [msg |-> m, slot |-> slot]
    <3>1. e.msg = m /\ e.slot = slot
      OBVIOUS
    <3> HIDE DEF e
    <3>2. PerformedFor(m.key)' = PerformedFor(m.key) \cup {e}
      BY <2>4 DEF e
    <3> QED
      BY <3>1, <3>2
  <2>7. grant \in Ledger!Grant /\ grant.slot = slot /\ grant.unix = 0
    BY <1>1 DEF GrantOf, Ledger!Grant
  <2>8. Ledger!Perform(m.key)
    BY <2>3, <2>5, <2>6, <2>7, <1>1 DEF Ledger!Perform
  <2>9. ASSUME NEW k \in Keys, k # m.key PROVE Ledger!Keep(k)
    <3>1. PerformedFor(k)' = PerformedFor(k) /\ receipt'[k] = receipt[k]
      BY <2>1, <2>3, <2>9 DEF PerformedFor
    <3> QED
      BY <3>1, <2>9 DEF Ledger!Keep
  <2> QED
    BY <1>1, <2>8, <2>9 DEF Ledger!Settle
<1> QED
  BY <1>2, <1>3

LEMMA LedgerStep == BankInv(IntentOf) /\ [Next]_vars => [Ledger!Next]_Ledger!vars
<1> SUFFICES ASSUME BankInv(IntentOf), [Next]_vars PROVE [Ledger!Next]_Ledger!vars
  OBVIOUS
<1>1. CASE \E m \in inflight : \E r \in Results(m) : Land(m, r)
  BY <1>1, LandPerforms DEF Ledger!Next
<1>2. CASE NextSlot
  <2>1. slot \in Nat /\ slot' = slot + 1 /\ UNCHANGED <<receipt, performed>>
    BY <1>2 DEF NextSlot, SlotAdvances, chain, BankInv
  <2> QED
    BY <2>1 DEF Ledger!Next, Ledger!Tick, PerformedFor
<1>3. CASE UNCHANGED vars \/ \E c \in Clients : Progress(c) \/ ConnectionLost(c)
  <2>1. UNCHANGED <<slot, receipt, performed>>
    BY <1>3 DEF vars, Progress, Begin, Begins, Build, Builds, ReadFails, Report, Reports, Attempt,
       SendAndConfirm, Submit, PreflightFails, SendFails, Confirmed, BlockHeightExceeded,
       ConnectionLost, Forwards, cluster, chain
  <2> QED
    BY <2>1 DEF Ledger!vars, PerformedFor
<1> QED
  BY <1>1, <1>2, <1>3 DEF Next

\* Seen through its receipts, any number of clients that retry, lose answers and land late
\* do nothing that the ledger of intents does not allow (sol-transfer:309-332).
THEOREM RetriesImplementLedger == Spec => ImplementsLedger
<1>1. Init => Ledger!Init
  BY DEF Init, RetryInit, ClusterInit, Ledger!Init, PerformedFor
<1> QED
  BY <1>1, BankCorrect, LedgerStep, PTL DEF Spec, ImplementsLedger, Ledger!Spec
=============================================================================
