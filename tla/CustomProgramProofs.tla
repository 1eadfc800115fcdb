------------------------- MODULE CustomProgramProofs -------------------------
(***************************************************************************)
(* The guarded increment for any number of processes, keys and other       *)
(* transactions: the counter counts each key once, and a snapshot of the   *)
(* counter that has become stale does no harm.                             *)
(***************************************************************************)
EXTENDS CustomProgram, GuardedRetryProofs

\* The payload of each client's messages.
P == [c \in Clients |-> Fingerprint(c)]

\* No receipt is the value that stands for the absence of one.
FreshReceipts == NoReceipt \notin Receipts(P)

\* When the instructions behind the guard succeed, and when they fail with what.
LEMMA BusinessFacts ==
  ASSUME NEW m
  PROVE  /\ \A r \in Business(m) : r # Ok =>
              /\ r.ix = "business" /\ r # Ambiguous
              /\ r.code \notin {AlreadyCommitted, IdempotencyConflict}
         /\ Ok \in Business(m) => (m.initialize <=> counter = Unread)
         /\ AlreadyInUse \in Business(m) => m.initialize /\ counter # Unread
         /\ \A r \in Business(m) : r \in {Ok, AlreadyInUse, NotInitialized}
         /\ NotInitialized \in Business(m) => ~m.initialize /\ counter = Unread
BY DEF Business, AlreadyInUse, NotInitialized, BusinessError, Ok, Ambiguous, AlreadyCommitted,
   IdempotencyConflict

\* What the chain may answer to a message.
LEMMA ResultFacts ==
  ASSUME NEW m, NEW r \in Results(m)
  PROVE  /\ r = Ok => receipt[m.key] = NoReceipt
         /\ r # Ok => ResultOK(m, r)
         /\ r \in Business(m) \/ r.code \in {AlreadyCommitted, IdempotencyConflict}
         /\ r.ix = "business" \/ r = Ok => receipt[m.key] = NoReceipt /\ r \in Business(m)
<1>1. \A b \in Business(m) : b # Ok => b.code \notin {AlreadyCommitted, IdempotencyConflict}
  BY BusinessFacts
<1>2. CASE receipt[m.key] = NoReceipt
  BY <1>1, <1>2, ResultsTrue DEF Results, GuardedResults
<1>3. CASE receipt[m.key] # NoReceipt
  <2>1. r = ClaimError(ClaimAnswer(m))
    BY <1>3 DEF Results, GuardedResults
  <2>2. r.ix = "claim" /\ r # Ok /\ r.code \in {AlreadyCommitted, IdempotencyConflict}
    BY <2>1 DEF ClaimError, ClaimAnswer, Ok
  <2> QED
    BY <1>1, <1>3, <2>2, ResultsTrue DEF Results
<1> QED
  BY <1>2, <1>3

-----------------------------------------------------------------------------
(* The loop *)

LEMMA StepShape ==
  ASSUME NEW c \in Clients, Progress(c) \/ ConnectionLost(c)
  PROVE  ClientStep(P, c, Results(msg[c]))
<1>1. CASE Build(c)
  <2>1. \E m : Builds(c, m, "send") /\ m.key = KeyOf[c] /\ m.payload = P[c]
    <3> DEFINE m == [key |-> KeyOf[c], payload |-> Fingerprint(c), recent |-> slot, fee |-> fee[c],
                     initialize |-> needsInitialize(c) /\ Len(status[c]) = 0]
    <3>1. m.key = KeyOf[c] /\ m.payload = Fingerprint(c)
      OBVIOUS
    <3>2. Builds(c, m, "send")
      BY <1>1 DEF Build
    <3>3. P[c] = Fingerprint(c)
      BY DEF P
    <3> HIDE DEF m
    <3> QED
      BY <3>1, <3>2, <3>3
  <2> QED
    BY <2>1 DEF ClientStep, Prepares
<1> QED
  BY <1>1 DEF Progress, Begin, Report, Attempt, ClientStep, Prepares

LEMMA InvCorrect ==
  ASSUME FreshReceipts
  PROVE  /\ Init => Inv(P)
         /\ Inv(P) /\ [Next]_vars => Inv(P)'
<1>1. Init => Inv(P)
  BY BankInit, AnswerInit DEF Init, Inv
<1>2. ASSUME Inv(P), [Next]_vars PROVE Inv(P)'
  <2> USE <1>2 DEF Inv
  <2>1. CASE NextSlot \/ OtherIncrement \/ UNCHANGED vars
    <3>1. /\ UNCHANGED <<landed, inflight, chain, receipt, pc, msg, reads, status>>
          /\ slot' \in Nat /\ slot' >= slot
      BY <2>1 DEF NextSlot, SlotAdvances, OtherIncrement, vars, cluster, chain, client, loop, BankInv
    <3> QED
      BY <3>1, BankRests, LoopRests, AnswerRests DEF BankInv
  <2>2. ASSUME NEW m \in inflight, NEW r \in Results(m), LandIncrement(m, r) PROVE Inv(P)'
    <3>1. Land(m, r) /\ UNCHANGED <<pc, msg, reads>>
      BY <2>2 DEF LandIncrement, Land, client, loop
    <3> QED
      BY <3>1, ResultFacts, LandKeepsBank, LandTells, LoopRests DEF FreshReceipts
  <2>3. ASSUME NEW c \in Clients, Progress(c) \/ ConnectionLost(c) PROVE Inv(P)'
    BY <2>3, StepShape, BankStep, LoopStep, AnswerStep, ResultFacts
  <2> QED
    BY <2>1, <2>2, <2>3 DEF Next
<1> QED
  BY <1>1, <1>2

-----------------------------------------------------------------------------
(* What is performed, and what the counter shows of it *)

\* However many processes retry one order, it is performed at most once, and its key is
\* consumed exactly when it is (custom-program:343-346, claim.rs:97-151).
THEOREM OrdersPerformOnce ==
  ASSUME FreshReceipts
  PROVE  Spec => [](PerformedAtMostOnce /\ ReceiptMeansPerformed)
<1>1. Inv(P) => PerformedAtMostOnce /\ ReceiptMeansPerformed
  BY BankGives DEF Inv
<1> QED
  BY <1>1, InvCorrect, PTL DEF Spec

\* A conflict means what it says: since nothing that a retry may change is in the fingerprint,
\* another client has consumed the key with another intent (custom-program:493).
THEOREM ConflictsAreOthers ==
  ASSUME FreshReceipts
  PROVE  Spec => []NoFalseConflict
<1>1. Inv(P) => NoFalseConflict
  <2> SUFFICES ASSUME Inv(P), NEW c \in Clients, Said(c, "conflict")
               PROVE  \E d \in Clients : KeyOf[d] = KeyOf[c] /\ IntentOf[d] # IntentOf[c]
    BY DEF NoFalseConflict
  <2>1. Conflicting(P, c) /\ KeyOK(P, KeyOf[c])
    BY DEF Inv, AnswerInv, ToldOK, BankInv, Keys
  <2>2. PICK e \in performed : /\ PerformedFor(KeyOf[c]) = {e} /\ MessageOK(P, e.msg)
                               /\ receipt[KeyOf[c]].payload = e.msg.payload
    BY <2>1 DEF Conflicting, Differs, KeyOK
  <2>3. e.msg.key = KeyOf[c] /\ e.msg.payload # P[c]
    BY <2>1, <2>2 DEF PerformedFor, Conflicting, Differs
  <2>4. PICK d \in Clients : KeyOf[d] = KeyOf[c] /\ e.msg.payload = P[d]
    BY <2>2, <2>3 DEF MessageOK
  <2>5. IntentOf[d] # IntentOf[c]
    BY <2>3, <2>4 DEF P, Fingerprint
  <2> QED
    BY <2>4, <2>5
<1> QED
  BY <1>1, InvCorrect, PTL DEF Spec

\* An account that does not exist counts nothing, and none has been counted on it.
CounterInv ==
  /\ others \in Nat /\ counter \in Nat \cup {Unread}
  /\ counter = Unread => others = 0 /\ ConsumedKeys = {}
  /\ CountIsExact
  /\ CountInv

LEMMA CounterInit == Init => CounterInv
<1> SUFFICES ASSUME Init PROVE CounterInv
  OBVIOUS
<1>1. CountInv /\ ConsumedKeys = {} /\ Cardinality(ConsumedKeys) = 0
  BY CountInit, FS_EmptySet DEF Init
<1>2. CountIsExact
  BY <1>1 DEF Init, CountIsExact, ConsumedKeys
<1> QED
  BY <1>1, <1>2 DEF Init, CounterInv

LEMMA CounterStep ==
  ASSUME FreshReceipts, IsFiniteSet(Clients), Inv(P), CounterInv, [Next]_vars
  PROVE  CounterInv'
<1>1. Cardinality(ConsumedKeys) \in Nat /\ Cardinality({}) = 0
  BY KeysFinite, FS_EmptySet
<1>2. CountIsExact <=> (counter # Unread => counter = others + Cardinality(ConsumedKeys))
  BY DEF CountIsExact, ConsumedKeys
<1>3. CountIsExact' <=> (counter' # Unread => counter' = others' + Cardinality(ConsumedKeys)')
  BY DEF CountIsExact, ConsumedKeys
<1>4. CASE UNCHANGED <<receipt, performed>> /\ UNCHANGED <<counter, others>>
  BY <1>2, <1>3, <1>4, CountRests DEF CounterInv
<1>5. CASE OtherIncrement
  <2>1. UNCHANGED <<receipt, performed>> /\ counter # Unread /\ counter \in Nat
    BY <1>5 DEF OtherIncrement, chain, CounterInv
  <2>2. counter' = counter + 1 /\ others' = others + 1
    BY <1>5 DEF OtherIncrement
  <2>3. ConsumedKeys' = ConsumedKeys /\ CountInv'
    BY <2>1, CountRests DEF CounterInv
  <2>4. counter' \in Nat /\ counter' # Unread /\ others' \in Nat
        /\ counter' = others' + Cardinality(ConsumedKeys)
    BY <1>1, <1>2, <2>1, <2>2 DEF CounterInv, Unread
  <2> QED
    BY <1>3, <2>3, <2>4 DEF CounterInv
<1>6. ASSUME NEW m \in inflight, NEW r \in Results(m), LandIncrement(m, r) PROVE CounterInv'
  <2>1. Land(m, r) /\ BankInv(P) /\ CountInv /\ (r = Ok => receipt[m.key] = NoReceipt)
    BY <1>6, ResultFacts DEF LandIncrement, Inv, CounterInv
  <2>2. CASE r # Ok
    <3>1. UNCHANGED <<receipt, performed>> /\ UNCHANGED <<counter, others>>
      BY <1>6, <2>2 DEF LandIncrement, Land, chain
    <3> QED
      BY <1>4, <3>1
  <2>3. CASE r = Ok
    <3>1. CountInv' /\ Cardinality(ConsumedKeys)' = Cardinality(ConsumedKeys) + 1
      BY <2>1, <2>3, LandCounts DEF FreshReceipts
    <3>2. others' = others /\ counter' = IF m.initialize THEN 1 ELSE counter + 1
      BY <1>6, <2>3 DEF LandIncrement
    <3>3. m.initialize <=> counter = Unread
      BY <1>6, <2>3, ResultFacts, BusinessFacts
    <3>4. CASE counter = Unread
      <4>1. counter' = 1 /\ others = 0 /\ Cardinality(ConsumedKeys) = 0
        BY <1>1, <3>2, <3>3, <3>4 DEF CounterInv
      <4> QED
        BY <1>3, <3>1, <3>2, <4>1 DEF CounterInv, Unread
    <3>5. CASE counter # Unread
      <4>1. counter \in Nat /\ counter' = counter + 1 /\ counter = others + Cardinality(ConsumedKeys)
        BY <1>2, <3>2, <3>3, <3>5 DEF CounterInv
      <4>2. counter' \in Nat /\ counter' # Unread /\ counter' = others' + Cardinality(ConsumedKeys)'
        BY <1>1, <3>1, <3>2, <4>1 DEF CounterInv, Unread
      <4> QED
        BY <1>3, <3>1, <3>2, <4>2 DEF CounterInv
    <3> QED
      BY <3>4, <3>5
  <2> QED
    BY <2>2, <2>3
<1>7. ASSUME NEW c \in Clients, (Progress(c) \/ ConnectionLost(c)) /\ UNCHANGED <<counter, others>>
      PROVE  CounterInv'
  BY <1>4, <1>7, StepShape, ClientHandsOver
<1> QED
  BY <1>4, <1>5, <1>6, <1>7 DEF Next, NextSlot, chain, vars

\* "(one, not two)": the counter holds one increment for each key that has been performed and
\* those of other transactions, whoever creates it (custom-program:571-574).
THEOREM CountsAreExact ==
  ASSUME FreshReceipts, IsFiniteSet(Clients)
  PROVE  Spec => []CountIsExact
<1>1. Init => CounterInv
  BY CounterInit
<1>2. Inv(P) /\ CounterInv /\ [Next]_vars => CounterInv'
  BY CounterStep
<1>3. CounterInv => CountIsExact
  BY DEF CounterInv
<1> QED
  BY <1>1, <1>2, <1>3, InvCorrect, PTL DEF Spec

-----------------------------------------------------------------------------
(* What was read before a message was signed, and is old when it lands *)

\* initialize answers in the place of the guard only as long as the key is free: a duplicate
\* is never told that the account is in use (custom-program:343-346).
THEOREM InitializeIsBehindGuard ==
  ASSUME FreshReceipts
  PROVE  Spec => []InitializeNeverMasksGuard
<1>1. Init => InitializeNeverMasksGuard
  BY DEF Init, RetryInit, ClusterInit, InitializeNeverMasksGuard
<1>2. Inv(P) /\ InitializeNeverMasksGuard /\ [Next]_vars => InitializeNeverMasksGuard'
  <2> SUFFICES ASSUME Inv(P), InitializeNeverMasksGuard, [Next]_vars PROVE InitializeNeverMasksGuard'
    OBVIOUS
  <2>1. CASE UNCHANGED <<landed, performed>>
    BY <2>1 DEF InitializeNeverMasksGuard, PerformedFor
  <2>2. ASSUME NEW m \in inflight, NEW r \in Results(m), LandIncrement(m, r) PROVE InitializeNeverMasksGuard'
    <3>1. Land(m, r) /\ landed' = landed \cup {[msg |-> m, result |-> r, slot |-> slot]}
      BY <2>2 DEF LandIncrement, Land, Executes
    <3>2. CASE r = Ok
      <4>1. performed' = performed \cup {[msg |-> m, slot |-> slot]}
        BY <3>1, <3>2 DEF Land
      <4>2. \A l \in landed' : l.result.ix = "business" => l \in landed
        BY <3>1, <3>2 DEF Ok
      <4>3. \A l \in landed : l.slot <= slot
        BY DEF Inv, BankInv
      <4> QED
        BY <4>1, <4>2, <4>3 DEF InitializeNeverMasksGuard, PerformedFor
    <3>3. CASE r # Ok
      <4>1. performed' = performed
        BY <3>1, <3>3 DEF Land, chain
      <4>2. r.ix = "business" => PerformedFor(m.key) = {}
        <5>1. m.key \in Keys
          BY MessageTyped DEF Inv, BankInv
        <5> QED
          BY <5>1, ResultFacts DEF Inv, BankInv, KeyOK
      <4> QED
        BY <3>1, <4>1, <4>2 DEF InitializeNeverMasksGuard, PerformedFor
    <3> QED
      BY <3>2, <3>3
  <2>3. ASSUME NEW c \in Clients, Progress(c) \/ ConnectionLost(c) PROVE InitializeNeverMasksGuard'
    BY <2>1, <2>3, StepShape, ClientHandsOver
  <2>4. CASE NextSlot \/ OtherIncrement \/ UNCHANGED vars
    BY <2>1, <2>4 DEF NextSlot, SlotAdvances, OtherIncrement, vars, cluster, chain
  <2> QED
    BY <2>2, <2>3, <2>4 DEF Next
<1> QED
  BY <1>1, <1>2, InvCorrect, PTL DEF Spec

Sole(c) == \A d \in Clients \ {c} : KeyOf[d] # KeyOf[c]

\* An order of which every message initializes a counter that exists.
Stuck(c) == needsInitialize(c) /\ counter # Unread /\ receipt[KeyOf[c]] = NoReceipt

\* The messages of a process whose key is its own and still free all rely on the first read.
SnapshotOK(c) ==
  /\ pc[c] = "main" => \A m \in inflight : m.key # KeyOf[c]
  /\ receipt[KeyOf[c]] = NoReceipt =>
       \A m \in inflight : m.key = KeyOf[c] => (m.initialize <=> needsInitialize(c))
  /\ receipt[KeyOf[c]] = NoReceipt /\ pc[c] \in {"send", "confirm"} =>
       (msg[c].initialize <=> needsInitialize(c))
  /\ \A l \in landed : l.msg.key = KeyOf[c] /\ l.result.ix = "business" => Stuck(c)
  /\ Said(c, "rejected") => Stuck(c)

SnapshotInv ==
  /\ \A c \in Clients : before[c] # Unread => counter # Unread
  /\ \A l \in landed :
       /\ l.msg \in inflight
       /\ l.result = Ok \/ l.result.ix = "business"
          \/ l.result.code \in {AlreadyCommitted, IdempotencyConflict}
  /\ \A c \in Clients : Sole(c) => SnapshotOK(c)

\* The business refuses a message of such a process only when the process is stuck.
LEMMA BusinessSticks ==
  ASSUME NEW c \in Clients, NEW m, m.key = KeyOf[c], NEW r \in Results(m), r.ix = "business",
         before[c] # Unread => counter # Unread,
         receipt[KeyOf[c]] = NoReceipt => (m.initialize <=> needsInitialize(c))
  PROVE  Stuck(c)
<1>1. receipt[m.key] = NoReceipt /\ r \in Business(m)
  BY ResultFacts
<1>2. r # Ok
  BY DEF Ok
<1>3. r \in {AlreadyInUse, NotInitialized}
  BY <1>1, <1>2, BusinessFacts
<1>4. CASE r = AlreadyInUse
  BY <1>1, <1>4, BusinessFacts DEF Stuck
<1>5. CASE r = NotInitialized
  BY <1>1, <1>5, BusinessFacts DEF needsInitialize
<1> QED
  BY <1>3, <1>4, <1>5

\* A counter that exists goes on existing.
LEMMA CounterStays ==
  ASSUME CounterInv, [Next]_vars, counter # Unread
  PROVE  counter' # Unread
<1>1. counter \in Nat
  BY DEF CounterInv
<1>2. counter' = counter \/ counter' = counter + 1 \/ counter' = 1
  BY DEF Next, LandIncrement, OtherIncrement, vars
<1> QED
  BY <1>1, <1>2 DEF Unread

\* None of the messages of a process that is stuck ever succeeds.
LEMMA StaysStuck ==
  ASSUME NEW c \in Clients, SnapshotOK(c), Stuck(c), NEW m \in inflight, NEW r \in Results(m),
         LandIncrement(m, r), DOMAIN receipt = Keys, m.key \in Keys
  PROVE  receipt'[KeyOf[c]] = NoReceipt
<1>1. CASE r # Ok
  BY <1>1 DEF LandIncrement, Land, chain, Stuck
<1>2. CASE r = Ok /\ m.key # KeyOf[c]
  BY <1>2 DEF LandIncrement, Land, Stuck, Keys
<1>3. CASE r = Ok /\ m.key = KeyOf[c]
  <2>1. Ok \in Business(m)
    BY <1>3, ResultFacts
  <2>2. m.initialize <=> needsInitialize(c)
    BY <1>3 DEF SnapshotOK, Stuck
  <2> QED
    BY <2>1, <2>2, BusinessFacts DEF Stuck
<1> QED
  BY <1>1, <1>2, <1>3

LEMMA LandSnapshot ==
  ASSUME Inv(P), CounterInv, SnapshotInv, [Next]_vars,
         NEW m \in inflight, NEW r \in Results(m), LandIncrement(m, r)
  PROVE  SnapshotInv'
<1>1. /\ Land(m, r) /\ landed' = landed \cup {[msg |-> m, result |-> r, slot |-> slot]}
      /\ UNCHANGED <<inflight, pc, msg, before, status>>
  BY DEF LandIncrement, Land, Executes, client, loop, reads
<1>2. m.key \in Keys /\ DOMAIN receipt = Keys /\ MessageOK(P, m)
  BY MessageTyped DEF Inv, BankInv
<1>3. \A c \in Clients : before'[c] # Unread => counter' # Unread
  BY <1>1, CounterStays DEF SnapshotInv
<1>4. \A l \in landed' :
        /\ l.msg \in inflight'
        /\ l.result = Ok \/ l.result.ix = "business"
           \/ l.result.code \in {AlreadyCommitted, IdempotencyConflict}
  <2>1. r = Ok \/ r.ix = "business" \/ r.code \in {AlreadyCommitted, IdempotencyConflict}
    BY ResultFacts, BusinessFacts
  <2> QED
    BY <1>1, <2>1 DEF SnapshotInv
<1>5. ASSUME NEW c \in Clients, Sole(c) PROVE SnapshotOK(c)'
  <2>1. SnapshotOK(c) /\ KeyOf[c] \in Keys
    BY <1>5 DEF SnapshotInv, Keys
  <2>2. Stuck(c) => Stuck(c)'
    BY <1>1, <1>2, <2>1, CounterStays, StaysStuck DEF Stuck, needsInitialize
  <2>3. receipt'[KeyOf[c]] = NoReceipt => receipt[KeyOf[c]] = NoReceipt
    BY <1>1, <2>1, ResultFacts, ReceiptsStay DEF Inv
  <2>4. m.key = KeyOf[c] /\ r.ix = "business" => Stuck(c)
    BY <1>2, <2>1, BusinessSticks DEF SnapshotInv, SnapshotOK
  <2>5. \A l \in landed' : l.msg.key = KeyOf[c] /\ l.result.ix = "business" => Stuck(c)'
    BY <1>1, <2>1, <2>2, <2>4 DEF SnapshotOK
  <2>6. Said(c, "rejected")' => Stuck(c)'
    BY <1>1, <2>1, <2>2 DEF SnapshotOK, Said
  <2> QED
    BY <1>1, <2>1, <2>3, <2>5, <2>6 DEF SnapshotOK, needsInitialize
<1> QED
  BY <1>3, <1>4, <1>5 DEF SnapshotInv

LEMMA ClientSnapshot ==
  ASSUME Inv(P), SnapshotInv, NEW c \in Clients, Progress(c) \/ ConnectionLost(c),
         UNCHANGED counter
  PROVE  SnapshotInv'
<1>1. ClientStep(P, c, Results(msg[c])) /\ UNCHANGED <<landed, receipt>>
  BY StepShape, ClientHandsOver
<1>2. inflight' = inflight \/ (pc[c] = "send" /\ inflight' = inflight \cup {msg[c]})
  BY <1>1, ClientHandsOver
<1>3. \A d \in Clients \ {c} :
        pc'[d] = pc[d] /\ msg'[d] = msg[d] /\ status'[d] = status[d] /\ before'[d] = before[d]
  BY <1>1, OthersRest
<1>4. Begin(c) \/ (UNCHANGED before /\ pc'[c] # "main")
  <2>1. CASE Attempt(c) \/ ConnectionLost(c)
    <3>1. SendAndConfirm(c, Results(msg[c])) \/ ConnectionLost(c)
      BY <2>1 DEF Attempt
    <3> QED
      BY <3>1, AttemptShape
  <2>2. CASE Build(c) \/ ReadFails(c) \/ Report(c)
    BY <2>2 DEF Build, Builds, ReadFails, Throw, Report, Reports, reads, Inv, LoopInv
  <2> QED
    BY <2>1, <2>2 DEF Progress
<1>5. \A d \in Clients : before'[d] # Unread => counter' # Unread
  <2>1. CASE Begin(c)
    BY <2>1 DEF Begin, Begins, SnapshotInv, Inv, LoopInv
  <2> QED
    BY <1>4, <2>1 DEF SnapshotInv
<1>6. ASSUME NEW d \in Clients \ {c}, Sole(d) PROVE SnapshotOK(d)'
  <2>1. SnapshotOK(d) /\ KeyOf[c] # KeyOf[d]
    BY <1>6 DEF SnapshotInv, Sole
  <2>2. Stuck(d)' = Stuck(d) /\ needsInitialize(d)' = needsInitialize(d)
    BY <1>1, <1>3, <1>6 DEF Stuck, needsInitialize
  <2>3. \A m \in inflight' : m.key = KeyOf[d] => m \in inflight
    BY <1>2, <2>1 DEF Inv, LoopInv
  <2> QED
    BY <1>1, <1>3, <1>6, <2>1, <2>2, <2>3 DEF SnapshotOK, Said
<1>7. ASSUME Sole(c) PROVE SnapshotOK(c)'
  <2>1. SnapshotOK(c) /\ ReplayOK(P, c) /\ status[c] \in Seq(Answers)
    BY <1>7 DEF SnapshotInv, Inv, AnswerInv, ToldOK
  <2>2. CASE Begin(c)
    <3>1. pc[c] = "main" /\ pc'[c] = "build" /\ UNCHANGED <<inflight, status>>
      BY <2>2 DEF Begin, Begins, cluster, Inv, LoopInv
    <3>2. Len(status[c]) = 0
      BY <2>1, <3>1 DEF ReplayOK
    <3>3. ~Said(c, "rejected")'
      BY <2>1, <3>1, <3>2 DEF Said
    <3>4. \A l \in landed' : l.msg.key # KeyOf[c]
      BY <1>1, <2>1, <3>1 DEF SnapshotOK, SnapshotInv
    <3> QED
      BY <2>1, <3>1, <3>3, <3>4 DEF SnapshotOK
  <2>3. CASE ~Begin(c)
    <3>1. UNCHANGED before /\ pc'[c] # "main"
      BY <1>4, <2>3
    <3>2. Stuck(c)' = Stuck(c) /\ needsInitialize(c)' = needsInitialize(c)
      BY <1>1, <3>1 DEF Stuck, needsInitialize
    <3>3. receipt[KeyOf[c]] = NoReceipt =>
            \A m \in inflight' : m.key = KeyOf[c] => (m.initialize <=> needsInitialize(c))
      BY <1>2, <2>1 DEF SnapshotOK
    <3>4. receipt[KeyOf[c]] = NoReceipt /\ pc'[c] \in {"send", "confirm"} =>
            (msg'[c].initialize <=> needsInitialize(c))
      <4>1. CASE Build(c)
        <5>1. pc[c] = "build" /\ msg'[c].initialize = (needsInitialize(c) /\ Len(status[c]) = 0)
          BY <4>1 DEF Build, Builds, Inv, LoopInv
        <5>2. receipt[KeyOf[c]] = NoReceipt => Len(status[c]) = 0
          BY <2>1, <5>1 DEF ReplayOK, Consumed, Holds
        <5> QED
          BY <5>1, <5>2
      <4>2. CASE ReadFails(c) \/ Report(c)
        BY <4>2 DEF ReadFails, Throw, Report, Reports, Inv, LoopInv
      <4>3. CASE Attempt(c) \/ ConnectionLost(c)
        <5>1. SendAndConfirm(c, Results(msg[c])) \/ ConnectionLost(c)
          BY <4>3 DEF Attempt
        <5>2. UNCHANGED msg /\ pc[c] \in {"send", "confirm"}
          BY <5>1, AttemptShape
        <5> QED
          BY <2>1, <5>2 DEF SnapshotOK
      <4> QED
        BY <2>3, <4>1, <4>2, <4>3 DEF Progress
    <3>5. Said(c, "rejected")' => Stuck(c)
      <4>1. ASSUME Said(c, "rejected")', ~Said(c, "rejected") PROVE Stuck(c)
        <5>1. PICK r : /\ r \notin {Ok, Ambiguous}
                       /\ r.code \notin {AlreadyCommitted, IdempotencyConflict}
                       /\ \/ pc[c] = "send" /\ r \in Results(msg[c])
                          \/ pc[c] = "confirm" /\ \E l \in landed : l.msg = msg[c] /\ l.result = r
          BY <1>1, <4>1, SaysWhy
        <5>2. CASE pc[c] = "send" /\ r \in Results(msg[c])
          <6>1. r.ix = "business"
            BY <5>1, <5>2, ResultFacts, BusinessFacts
          <6>2. msg[c].key = KeyOf[c]
            BY <5>2 DEF Inv, LoopInv
          <6>3. receipt[KeyOf[c]] = NoReceipt => (msg[c].initialize <=> needsInitialize(c))
            BY <2>1, <5>2 DEF SnapshotOK
          <6> QED
            BY <5>2, <6>1, <6>2, <6>3, BusinessSticks DEF SnapshotInv
        <5>3. ASSUME pc[c] = "confirm", NEW l \in landed, l.msg = msg[c], l.result = r
              PROVE  Stuck(c)
          <6>1. l.msg.key = KeyOf[c]
            BY <5>3 DEF Inv, LoopInv
          <6>2. l.result.ix = "business"
            BY <5>1, <5>3 DEF SnapshotInv
          <6> QED
            BY <2>1, <6>1, <6>2 DEF SnapshotOK
        <5> QED
          BY <5>1, <5>2, <5>3
      <4> QED
        BY <2>1, <4>1 DEF SnapshotOK
    <3> QED
      BY <1>1, <2>1, <3>1, <3>2, <3>3, <3>4, <3>5 DEF SnapshotOK
  <2> QED
    BY <2>2, <2>3
<1>8. \A l \in landed' :
        /\ l.msg \in inflight'
        /\ l.result = Ok \/ l.result.ix = "business"
           \/ l.result.code \in {AlreadyCommitted, IdempotencyConflict}
  BY <1>1, <1>2 DEF SnapshotInv
<1> QED
  BY <1>5, <1>6, <1>7, <1>8 DEF SnapshotInv, Sole

LEMMA RestSnapshot ==
  ASSUME SnapshotInv, UNCHANGED <<inflight, landed, receipt, pc, msg, before, status>>,
         counter # Unread => counter' # Unread
  PROVE  SnapshotInv'
<1>1. \A c \in Clients : (Stuck(c) => Stuck(c)') /\ needsInitialize(c)' = needsInitialize(c)
  BY DEF Stuck, needsInitialize
<1>2. \A c \in Clients : SnapshotOK(c) => SnapshotOK(c)'
  BY <1>1 DEF SnapshotOK, Said
<1> QED
  BY <1>2 DEF SnapshotInv, Sole

LEMMA SnapshotStep ==
  ASSUME FreshReceipts, Inv(P), CounterInv, SnapshotInv, [Next]_vars
  PROVE  SnapshotInv'
<1>1. CASE (NextSlot /\ UNCHANGED <<counter, others>>) \/ OtherIncrement \/ UNCHANGED vars
  <2>1. UNCHANGED <<inflight, landed, receipt, pc, msg, before, status>>
    BY <1>1 DEF NextSlot, SlotAdvances, OtherIncrement, vars, cluster, chain, client, loop, reads
  <2> QED
    BY <2>1, CounterStays, RestSnapshot
<1>2. ASSUME NEW m \in inflight, NEW r \in Results(m), LandIncrement(m, r) PROVE SnapshotInv'
  BY <1>2, LandSnapshot
<1>3. ASSUME NEW c \in Clients, Progress(c) \/ ConnectionLost(c), UNCHANGED <<counter, others>>
      PROVE  SnapshotInv'
  BY <1>3, ClientSnapshot
<1> QED
  BY <1>1, <1>2, <1>3 DEF Next

\* A snapshot that has become stale is harmless: once the business has refused the last attempt
\* of an order for what it read before the first one, no attempt of that order, late ones in the
\* cluster included, ever runs (custom-program:476).
THEOREM StaleSnapshotsNeverRun ==
  ASSUME FreshReceipts, IsFiniteSet(Clients)
  PROVE  Spec => []StaleSnapshotIsHarmless
<1>1. Init => CounterInv
  BY CounterInit
<1>2. Init => SnapshotInv
  <2> SUFFICES ASSUME Init PROVE SnapshotInv
    OBVIOUS
  <2>1. \A c \in Clients : ~Said(c, "rejected")
    BY EmptySeq DEF Init, RetryInit, Said
  <2> QED
    BY <2>1 DEF Init, RetryInit, ClusterInit, SnapshotInv, SnapshotOK
<1>3. Inv(P) /\ CounterInv /\ [Next]_vars => CounterInv'
  BY CounterStep
<1>4. Inv(P) /\ CounterInv /\ SnapshotInv /\ [Next]_vars => SnapshotInv'
  BY SnapshotStep
<1>5. SnapshotInv => StaleSnapshotIsHarmless
  BY DEF SnapshotInv, SnapshotOK, Sole, Stuck, StaleSnapshotIsHarmless
<1> QED
  BY <1>1, <1>2, <1>3, <1>4, <1>5, InvCorrect, PTL DEF Spec
=============================================================================
