---------------------------- MODULE ExamplesProofs ----------------------------
(***************************************************************************)
(* What the modules of the examples prove, of the sum that TLC checks, and *)
(* the proofs about the programs that guard themselves, for any owners,    *)
(* keys, length of a transaction and size of a count.                      *)
(***************************************************************************)
EXTENDS MCExamples, FiniteSetTheorems, SequenceTheorems, TLAPS

\* The instances count as this module does.
LEMMA SameCardinality ==
  \A S : /\ Forms!Cardinality(S) = Cardinality(S)
         /\ Transfer!IsFiniteSet(S) <=> IsFiniteSet(S)
         /\ Payments!IsFiniteSet(S) <=> IsFiniteSet(S)
         /\ Order!IsFiniteSet(S) <=> IsFiniteSet(S)
         /\ Race!IsFiniteSet(S) <=> IsFiniteSet(S)
BY DEF Forms!Cardinality, Cardinality, Transfer!IsFiniteSet, Payments!IsFiniteSet,
   Order!IsFiniteSet, Race!IsFiniteSet, IsFiniteSet

-----------------------------------------------------------------------------
(* A guarded instruction: its call and its action *)

Instr == UNION {Forms!Instructions(owner) : owner \in Owners}
GuardedIx == [guard : Forms!Guards, owner : Owners, key : FormKeys]
States == Forms!Programs \X Owners

ActionsFor(D, r) == {d \in D : Forms!ReceiptOf(d.ix) = r}
ActionsOn(D, s) == {d \in D : Forms!StateOf(d.ix) = s}

\* Every receipt but the pending one stands for one action, and every count for as many.
Exact(R, C, D, pending) ==
  /\ IsFiniteSet(D)
  /\ C \in [States -> Nat \cup {Forms!Missing}]
  /\ \A d \in D : d.ix \in GuardedIx /\ d.count \in Nat /\ d.count <= C[Forms!StateOf(d.ix)]
  /\ \A r \in Forms!Receipts :
       Cardinality(ActionsFor(D, r)) = IF r \in R \ pending THEN 1 ELSE 0
  /\ \A s \in States :
       Cardinality(ActionsOn(D, s)) = IF C[s] = Forms!Missing THEN 0 ELSE C[s]

\* The receipt whose action is still to come.
Pending == IF called THEN {Forms!ReceiptOf(Forms!Here)} ELSE {}

\* It holds of the accounts as the transaction sees them, between a call and its action too,
\* and of those that an abort returns to.
FormsInv ==
  /\ tx \in Seq(Instr)
  /\ called \in BOOLEAN /\ (called => Forms!Guarded /\ Forms!ReceiptOf(Forms!Here) \in receipts)
  /\ Exact(receipts, count, done, Pending)
  /\ Exact(saved.receipts, saved.count, saved.done, {})

LEMMA HereShape ==
  ASSUME tx \in Seq(Instr), tx # <<>>
  PROVE  /\ Forms!Here \in Instr /\ Tail(tx) \in Seq(Instr)
         /\ Forms!Here.guard # "initialize" => Forms!Here \in GuardedIx
         /\ Forms!StateOf(Forms!Here) \in States
<1>1. Forms!Here \in Instr /\ Tail(tx) \in Seq(Instr)
  BY DEF Forms!Here
<1>2. PICK owner \in Owners : Forms!Here \in Forms!Instructions(owner)
  BY <1>1 DEF Instr
<1>3. \/ Forms!Here \in [guard : Forms!Guards, owner : {owner}, key : FormKeys]
      \/ Forms!Here \in [guard : {"initialize"}, owner : {owner}]
  BY <1>2 DEF Forms!Instructions
<1>4. Forms!Here.owner \in Owners
  BY <1>3
<1>5. Forms!Here.guard # "initialize" => Forms!Here \in GuardedIx
  BY <1>3 DEF GuardedIx
<1> QED
  BY <1>1, <1>4, <1>5 DEF Forms!StateOf, States, Forms!Programs

LEMMA ReceiptShape ==
  ASSUME NEW ix \in GuardedIx
  PROVE  Forms!ReceiptOf(ix) \in Forms!Receipts /\ Forms!StateOf(ix) \in States
BY DEF GuardedIx, Forms!ReceiptOf, Forms!Authority, Forms!Receipts, Forms!StateOf, States, Forms!Programs

LEMMA FormsInit == Forms!Init => FormsInv
<1> SUFFICES ASSUME Forms!Init PROVE FormsInv
  OBVIOUS
<1>1. receipts = {} /\ done = {} /\ tx = <<>> /\ called = FALSE /\ saved = Forms!Bank
  BY DEF Forms!Init
<1>2. count = [s \in States |-> IF s[1] = "counter" THEN Forms!Missing ELSE 0]
  BY DEF Forms!Init, States
<1>3. /\ \A r : ActionsFor(done, r) = {} /\ \A s : ActionsOn(done, s) = {}
      /\ Cardinality({}) = 0 /\ IsFiniteSet({})
  BY <1>1, FS_EmptySet DEF ActionsFor, ActionsOn
<1>4. \A s \in States : count[s] = Forms!Missing \/ count[s] = 0
  BY <1>2
<1>5. count \in [States -> Nat \cup {Forms!Missing}]
  BY <1>2
<1>6. Exact(receipts, count, done, {})
  BY <1>1, <1>3, <1>4, <1>5 DEF Exact
<1>7. tx \in Seq(Instr)
  BY <1>1, EmptySeq
<1> QED
  BY <1>1, <1>6, <1>7 DEF FormsInv, Pending, Forms!Bank

\* An abort returns to what the transaction began with.
LEMMA AbortKeeps ==
  ASSUME FormsInv, Forms!Abort
  PROVE  FormsInv'
<1>1. tx' \in Seq(Instr)
  BY EmptySeq DEF Forms!Abort
<1> QED
  BY <1>1 DEF FormsInv, Forms!Abort, Pending, Exact

LEMMA BeginKeeps ==
  ASSUME FormsInv, Forms!Begin
  PROVE  FormsInv'
<1>1. PICK owner \in Owners, n \in 1 .. MaxInstructions : tx' \in [1 .. n -> Forms!Instructions(owner)]
  BY DEF Forms!Begin
<1>2. tx' \in Seq(Instr)
  <2>1. n \in Nat /\ tx' \in [1 .. n -> Instr]
    BY <1>1, ExamplesAssumption DEF Instr
  <2> QED
    BY <2>1
<1>3. ~called
  BY DEF Forms!Begin, FormsInv, Forms!Guarded
<1>4. Exact(receipts, count, done, {})
  BY <1>3 DEF FormsInv, Pending
<1>5. UNCHANGED <<receipts, count, done, called>> /\ saved' = Forms!Bank
  BY DEF Forms!Begin, Forms!bank
<1> QED
  BY <1>2, <1>3, <1>4, <1>5 DEF FormsInv, Pending, Forms!Bank, Exact, ActionsFor, ActionsOn

\* The call: what it creates is pending.
LEMMA ClaimsKeeps ==
  ASSUME FormsInv, Forms!Claims
  PROVE  FormsInv'
<1> DEFINE r == Forms!ReceiptOf(Forms!Here)
<1>1. CASE r \in receipts
  BY <1>1, AbortKeeps DEF Forms!Claims
<1>2. CASE r \notin receipts
  <2>1. /\ receipts' = receipts \cup {r} /\ called' = TRUE /\ ~called /\ Forms!Guarded
        /\ UNCHANGED <<count, done, saved, tx>>
    BY <1>2 DEF Forms!Claims
  <2>2. Pending' = {r} /\ Pending = {}
    BY <2>1 DEF Pending, Forms!ReceiptOf, Forms!Authority, Forms!Here
  <2>3. receipts' \ Pending' = receipts \ Pending
    BY <1>2, <2>1, <2>2
  <2>4. Exact(receipts', count', done', Pending')
    BY <2>1, <2>3 DEF FormsInv, Exact
  <2>5. (Forms!Guarded /\ r \in receipts)'
    BY <2>1 DEF Forms!Guarded, Forms!ReceiptOf, Forms!Authority, Forms!Here
  <2> QED
    BY <2>1, <2>4, <2>5 DEF FormsInv, Exact
<1> QED
  BY <1>1, <1>2

\* A counter begins at zero, without an action.
LEMMA InitializesKeeps ==
  ASSUME FormsInv, Forms!Initializes
  PROVE  FormsInv'
<1> DEFINE s == Forms!StateOf(Forms!Here)
<1>1. CASE count[s] # Forms!Missing
  BY <1>1, AbortKeeps DEF Forms!Initializes
<1>2. CASE count[s] = Forms!Missing
  <2>1. /\ count' = [count EXCEPT ![s] = 0] /\ tx' = Tail(tx)
        /\ UNCHANGED <<receipts, done, saved, called>> /\ tx # <<>> /\ ~called
    BY <1>2 DEF Forms!Initializes, FormsInv, Forms!Guarded
  <2>2. s \in States /\ tx' \in Seq(Instr)
    BY <2>1, HereShape DEF FormsInv
  <2>3. count' \in [States -> Nat \cup {Forms!Missing}] /\ Cardinality(ActionsOn(done, s)) = 0
    BY <1>2, <2>1, <2>2 DEF FormsInv, Exact
  <2>4. \A d \in done : d.count <= count[Forms!StateOf(d.ix)] /\ Forms!StateOf(d.ix) \in States
                        /\ d.count \in Nat
    BY ReceiptShape DEF FormsInv, Exact
  <2>5. \A d \in done : Forms!StateOf(d.ix) # s
    BY <1>2, <2>4 DEF Forms!Missing
  <2>6. \A t \in States \ {s} : count'[t] = count[t]
    BY <2>1, <2>2 DEF FormsInv, Exact
  <2>7. count'[s] = 0
    BY <2>1, <2>2 DEF FormsInv, Exact
  <2>8. Exact(receipts, count', done, {})
    BY <2>1, <2>3, <2>4, <2>5, <2>6, <2>7 DEF FormsInv, Exact, Pending, Forms!Missing
  <2> QED
    BY <2>1, <2>2, <2>8 DEF FormsInv, Pending
<1> QED
  BY <1>1, <1>2

\* The action: the pending receipt gets the one that it stands for.
LEMMA ActsKeeps ==
  ASSUME FormsInv, Forms!Acts
  PROVE  FormsInv'
<1> DEFINE ix == Forms!Here
           r == Forms!ReceiptOf(ix)
           s == Forms!StateOf(ix)
<1>1. CASE Forms!CheckedAdd(s) = {}
  BY <1>1, AbortKeeps DEF Forms!Acts
<1>2. CASE Forms!CheckedAdd(s) # {}
  <2> DEFINE e == [ix |-> ix, count |-> count[s] + 1]
  <2>1. /\ count[s] \in 0 .. MaxCount - 1
        /\ count' = [count EXCEPT ![s] = count[s] + 1] /\ done' = done \cup {e}
        /\ tx' = Tail(tx) /\ called' = FALSE /\ called /\ UNCHANGED <<receipts, saved>>
        /\ tx # <<>> /\ ix.guard # "initialize"
    BY <1>2 DEF Forms!Acts, Forms!CheckedAdd, Forms!Guarded
  <2>2. ix \in GuardedIx /\ tx' \in Seq(Instr) /\ s \in States /\ r \in Forms!Receipts
    BY <2>1, HereShape, ReceiptShape DEF FormsInv
  <2>3. count[s] \in Nat /\ count[s] # Forms!Missing
    BY <2>1, ExamplesAssumption DEF Forms!Missing
  <2>4. Pending = {r} /\ r \in receipts
    BY <2>1 DEF Pending, FormsInv
  <2>5. Exact(receipts, count, done, {r})
    BY <2>4 DEF FormsInv
  <2>6. e.ix = ix /\ e.count = count[s] + 1
    OBVIOUS
  <2>7. e \notin done
    <3> SUFFICES ASSUME e \in done PROVE FALSE
      OBVIOUS
    <3>1. e.count <= count[Forms!StateOf(e.ix)]
      BY <2>5 DEF Exact
    <3> QED
      BY <2>3, <2>6, <3>1
  <2>8. count'[s] = count[s] + 1 /\ \A t \in States \ {s} : count'[t] = count[t]
    BY <2>1, <2>2, <2>5 DEF Exact
  <2>9. count' \in [States -> Nat \cup {Forms!Missing}]
    BY <2>1, <2>2, <2>3, <2>5 DEF Exact
  <2> HIDE DEF e, ix, r, s
  <2>10. IsFiniteSet(done') /\ IsFiniteSet(done)
    BY <2>1, <2>5, FS_AddElement DEF Exact
  <2>11. ASSUME NEW d \in done'
         PROVE  d.ix \in GuardedIx /\ d.count \in Nat /\ d.count <= count'[Forms!StateOf(d.ix)]
    <3>1. CASE d = e
      BY <2>2, <2>3, <2>6, <2>8, <3>1 DEF s
    <3>2. CASE d \in done
      <4>1. d.ix \in GuardedIx /\ d.count \in Nat /\ d.count <= count[Forms!StateOf(d.ix)]
        BY <2>5, <3>2 DEF Exact
      <4>2. Forms!StateOf(d.ix) \in States
        BY <4>1, ReceiptShape
      <4> QED
        BY <2>3, <2>8, <4>1, <4>2
    <3> QED
      BY <2>1, <3>1, <3>2
  <2>12. ASSUME NEW q \in Forms!Receipts
         PROVE  Cardinality(ActionsFor(done', q)) = IF q \in receipts THEN 1 ELSE 0
    <3>1. IsFiniteSet(ActionsFor(done, q)) /\ e \notin ActionsFor(done, q)
      BY <2>7, <2>10, FS_Subset DEF ActionsFor
    <3>2. Cardinality(ActionsFor(done, q)) = IF q \in receipts \ {r} THEN 1 ELSE 0
      BY <2>5 DEF Exact
    <3>3. CASE q = r
      <4>1. ActionsFor(done', q) = ActionsFor(done, q) \cup {e}
        BY <2>1, <2>6, <3>3 DEF ActionsFor, r
      <4>2. Cardinality(ActionsFor(done', q)) = 0 + 1
        BY <3>1, <3>2, <3>3, <4>1, FS_AddElement
      <4> QED
        BY <2>4, <3>3, <4>2
    <3>4. CASE q # r
      <4>1. ActionsFor(done', q) = ActionsFor(done, q)
        BY <2>1, <2>6, <3>4 DEF ActionsFor, r
      <4> QED
        BY <3>2, <3>4, <4>1
    <3> QED
      BY <3>3, <3>4
  <2>13. ASSUME NEW t \in States
         PROVE  Cardinality(ActionsOn(done', t)) = IF count'[t] = Forms!Missing THEN 0 ELSE count'[t]
    <3>1. IsFiniteSet(ActionsOn(done, t)) /\ e \notin ActionsOn(done, t)
      BY <2>7, <2>10, FS_Subset DEF ActionsOn
    <3>2. Cardinality(ActionsOn(done, t)) = IF count[t] = Forms!Missing THEN 0 ELSE count[t]
      BY <2>5 DEF Exact
    <3>3. CASE t = s
      <4>1. ActionsOn(done', t) = ActionsOn(done, t) \cup {e}
        BY <2>1, <2>6, <3>3 DEF ActionsOn, s
      <4>2. Cardinality(ActionsOn(done', t)) = count[s] + 1
        BY <2>3, <3>1, <3>2, <3>3, <4>1, FS_AddElement
      <4> QED
        BY <2>3, <2>8, <3>3, <4>2 DEF Forms!Missing
    <3>4. CASE t # s
      <4>1. ActionsOn(done', t) = ActionsOn(done, t)
        BY <2>1, <2>6, <3>4 DEF ActionsOn, s
      <4> QED
        BY <2>8, <3>2, <3>4, <4>1
    <3> QED
      BY <3>3, <3>4
  <2>14. Exact(receipts, count', done', {})
    BY <2>9, <2>10, <2>11, <2>12, <2>13 DEF Exact
  <2> QED
    BY <2>1, <2>2, <2>14 DEF FormsInv, Pending
<1> QED
  BY <1>1, <1>2

LEMMA FormsStep == FormsInv /\ [Forms!Next]_Forms!vars => FormsInv'
<1>1. ASSUME FormsInv, UNCHANGED Forms!vars PROVE FormsInv'
  BY <1>1 DEF FormsInv, Forms!vars, Forms!bank, Pending, Exact, Forms!Guarded, Forms!Here,
     Forms!ReceiptOf, Forms!Authority
<1> QED
  BY <1>1, BeginKeeps, ClaimsKeeps, InitializesKeeps, ActsKeeps DEF Forms!Next

\* Between transactions every receipt of a guarded instruction stands for one action and every
\* count for as many, for any owners, keys, length of a transaction and end of a count
\* (demo-counter/src/lib.rs:74-76, native-guard/src/lib.rs:185-187).
THEOREM CallsAndActionsAreOne == Forms!Spec => []Forms!ReceiptsAreActions
<1>1. FormsInv => Forms!ReceiptsAreActions
  <2> SUFFICES ASSUME FormsInv, Forms!Settled PROVE Forms!ReceiptsAreActions
    BY DEF Forms!ReceiptsAreActions
  <2>1. Pending = {}
    BY DEF FormsInv, Pending, Forms!Guarded, Forms!Settled
  <2> QED
    BY <2>1, SameCardinality DEF FormsInv, Exact, ActionsFor, ActionsOn, Forms!ReceiptsAreActions,
       States
<1> QED
  BY <1>1, FormsInit, FormsStep, PTL DEF Forms!Spec

\* The forms of guard share a wallet's key: it is used once, whichever comes first, also in the
\* middle of a transaction (demo-counter/src/lib.rs:60-65).
THEOREM FormsShareKeys == Forms!Spec => []Forms!OneActionPerKey
<1>1. FormsInv => Forms!OneActionPerKey
  <2> SUFFICES ASSUME FormsInv, NEW owner \in Owners, NEW key \in FormKeys
               PROVE  Cardinality({d \in done : d.ix.guard # "vault" /\ d.ix.owner = owner /\ d.ix.key = key}) <= 1
    BY SameCardinality DEF Forms!OneActionPerKey
  <2> DEFINE r == <<<<"wallet", owner>>, key>>
             A == {d \in done : d.ix.guard # "vault" /\ d.ix.owner = owner /\ d.ix.key = key}
  <2>1. r \in Forms!Receipts
    BY DEF Forms!Receipts
  <2>2. Cardinality(ActionsFor(done, r)) \in {0, 1} /\ IsFiniteSet(ActionsFor(done, r))
    BY <2>1, FS_Subset DEF FormsInv, Exact, ActionsFor
  <2>3. A \subseteq ActionsFor(done, r)
    BY DEF ActionsFor, Forms!ReceiptOf, Forms!Authority
  <2>4. Cardinality(A) <= Cardinality(ActionsFor(done, r)) /\ Cardinality(A) \in Nat
    BY <2>2, <2>3, FS_Subset, FS_CardinalityType
  <2> QED
    BY <2>2, <2>4
<1> QED
  BY <1>1, FormsInit, FormsStep, PTL DEF Forms!Spec

-----------------------------------------------------------------------------
(* Every part of the sum runs as its own module says *)

USE DEF loop, token, custom, jupiter, programs

LEMMA PartsStay ==
  ASSUME [Next]_vars
  PROVE  UNCHANGED instance
BY DEF Next, Runs, vars

\* The payload of every client, and the sets of clients are finite.
LEMMA Payloads ==
  /\ \A c \in {c1} : [d \in {c1} |-> p][c] = p
  /\ \A c \in {c1, c2} : OnePayload[c] = p
BY DEF OnePayload

LEMMA Finite == IsFiniteSet({c1}) /\ IsFiniteSet({c1, c2})
<1>1. IsFiniteSet({c1})
  BY FS_Singleton
<1>2. {c1, c2} = {c1} \cup {c2}
  OBVIOUS
<1> QED
  BY <1>1, <1>2, FS_AddElement

LEMMA TransferRuns == Spec => (instance = "transfer" => Transfer!Spec)
<1>1. Init /\ instance = "transfer" => Transfer!Init
  BY DEF Init
<1>2. (instance = "transfer") /\ [Next]_vars => (instance = "transfer")' /\ [Transfer!Next]_Transfer!vars
  BY DEF Next, Runs, vars, Transfer!vars, Transfer!cluster, Transfer!chain,
     Transfer!client, Transfer!loop, Transfer!reads, Transfer!token
<1> QED
  BY <1>1, <1>2, PTL DEF Spec, Transfer!Spec

LEMMA TransferKnown ==
  /\ Transfer!ClusterAssumption
  /\ Transfer!RetryAssumption
  /\ Transfer!IsFiniteSet({c1})
  /\ 2 \in Nat
<1>1. Transfer!ClusterAssumption
  BY ExamplesAssumption DEF Transfer!ClusterAssumption
<1>2. Transfer!RetryAssumption
  BY ExamplesAssumption, Payloads DEF Transfer!RetryAssumption
<1>3. Transfer!IsFiniteSet({c1})
  BY Finite, SameCardinality
<1> QED
  BY <1>1, <1>2, <1>3

LEMMA TransferHolds ==
  Spec => [](instance = "transfer" =>
               /\ Transfer!PerformedAtMostOnce
               /\ Transfer!ReceiptMeansPerformed
               /\ Transfer!OnlyAClosureFails
               /\ Transfer!BlockedPaysNothing
               /\ Transfer!SourcePaysOnce)
<1>1. Transfer!Spec => [](Transfer!PerformedAtMostOnce /\ Transfer!ReceiptMeansPerformed)
  BY TransferKnown, Transfer!PaymentsRunOnce, PTL
<1>2. Transfer!Spec => []Transfer!OnlyAClosureFails
  BY TransferKnown, Transfer!OnlyClosuresFail, PTL
<1>3. Transfer!Spec => []Transfer!BlockedPaysNothing
  BY TransferKnown, Transfer!RentIsPaidOnce, PTL
<1>4. Transfer!Spec => []Transfer!SourcePaysOnce
  BY TransferKnown, Transfer!SourceIsChargedOnce, PTL
<1>5. ~(instance = "transfer") /\ [Next]_vars => ~(instance = "transfer")'
  BY PartsStay
<1>6. ~(instance = "transfer") /\ Spec => []~(instance = "transfer")
  BY <1>5, PTL DEF Spec
<1> QED
  BY <1>1, <1>2, <1>3, <1>4, <1>6, TransferRuns, PTL

LEMMA PaymentsRuns == Spec => (instance = "payments" => Payments!Spec)
<1>1. Init /\ instance = "payments" => Payments!Init
  BY DEF Init
<1>2. (instance = "payments") /\ [Next]_vars => (instance = "payments")' /\ [Payments!Next]_Payments!vars
  BY DEF Next, Runs, vars, Payments!vars, Payments!cluster, Payments!chain,
     Payments!client, Payments!loop, Payments!reads, Payments!token
<1> QED
  BY <1>1, <1>2, PTL DEF Spec, Payments!Spec

LEMMA PaymentsKnown ==
  /\ Payments!ClusterAssumption
  /\ Payments!RetryAssumption
  /\ Payments!IsFiniteSet({c1, c2})
  /\ 1 \in Nat
<1>1. Payments!ClusterAssumption
  BY ExamplesAssumption DEF Payments!ClusterAssumption
<1>2. Payments!RetryAssumption
  BY ExamplesAssumption, Payloads DEF Payments!RetryAssumption
<1>3. Payments!IsFiniteSet({c1, c2})
  BY Finite, SameCardinality
<1> QED
  BY <1>1, <1>2, <1>3

LEMMA PaymentsHolds ==
  Spec => [](instance = "payments" =>
               /\ Payments!PerformedAtMostOnce
               /\ Payments!ReceiptMeansPerformed
               /\ Payments!SourcePaysOnce)
<1>1. Payments!Spec => [](Payments!PerformedAtMostOnce /\ Payments!ReceiptMeansPerformed)
  BY PaymentsKnown, Payments!PaymentsRunOnce, PTL
<1>2. Payments!Spec => []Payments!SourcePaysOnce
  BY PaymentsKnown, Payments!SourceIsChargedOnce, PTL
<1>3. ~(instance = "payments") /\ [Next]_vars => ~(instance = "payments")'
  BY PartsStay
<1>4. ~(instance = "payments") /\ Spec => []~(instance = "payments")
  BY <1>3, PTL DEF Spec
<1> QED
  BY <1>1, <1>2, <1>4, PaymentsRuns, PTL

LEMMA OrderRuns == Spec => (instance = "order" => Order!Spec)
<1>1. Init /\ instance = "order" => Order!Init
  BY DEF Init
<1>2. (instance = "order") /\ [Next]_vars => (instance = "order")' /\ [Order!Next]_Order!vars
  BY DEF Next, Runs, vars, Order!vars, Order!cluster, Order!chain,
     Order!client, Order!loop, Order!reads
<1> QED
  BY <1>1, <1>2, PTL DEF Spec, Order!Spec

LEMMA OrderKnown ==
  /\ Order!ClusterAssumption
  /\ Order!RetryAssumption
  /\ Order!FreshReceipts
  /\ Order!IsFiniteSet({c1, c2})
<1>1. Order!ClusterAssumption
  BY ExamplesAssumption DEF Order!ClusterAssumption
<1>2. Order!RetryAssumption
  BY ExamplesAssumption, Payloads DEF Order!RetryAssumption
<1>3. Order!FreshReceipts
  <2>1. \A c \in {c1, c2} : Order!P[c] = <<p, 0>>
    BY Payloads DEF Order!P, Order!Fingerprint
  <2> QED
    BY <2>1, ExamplesAssumption DEF Order!FreshReceipts, Order!Receipts
<1>4. Order!IsFiniteSet({c1, c2})
  BY Finite, SameCardinality
<1> QED
  BY <1>1, <1>2, <1>3, <1>4

LEMMA OrderHolds ==
  Spec => [](instance = "order" =>
               /\ Order!PerformedAtMostOnce
               /\ Order!ReceiptMeansPerformed
               /\ Order!CountIsExact
               /\ Order!InitializeNeverMasksGuard
               /\ Order!NoFalseConflict)
<1>1. Order!Spec => [](Order!PerformedAtMostOnce /\ Order!ReceiptMeansPerformed)
  BY OrderKnown, Order!OrdersPerformOnce, PTL
<1>2. Order!Spec => []Order!CountIsExact
  BY OrderKnown, Order!CountsAreExact, PTL
<1>3. Order!Spec => []Order!InitializeNeverMasksGuard
  BY OrderKnown, Order!InitializeIsBehindGuard, PTL
<1>4. Order!Spec => []Order!NoFalseConflict
  BY OrderKnown, Order!ConflictsAreOthers, PTL
<1>5. ~(instance = "order") /\ [Next]_vars => ~(instance = "order")'
  BY PartsStay
<1>6. ~(instance = "order") /\ Spec => []~(instance = "order")
  BY <1>5, PTL DEF Spec
<1> QED
  BY <1>1, <1>2, <1>3, <1>4, <1>6, OrderRuns, PTL

LEMMA RaceRuns == Spec => (instance = "race" => Race!Spec)
<1>1. Init /\ instance = "race" => Race!Init
  BY DEF Init
<1>2. (instance = "race") /\ [Next]_vars => (instance = "race")' /\ [Race!Next]_Race!vars
  BY DEF Next, Runs, vars, Race!vars, Race!cluster, Race!chain,
     Race!client, Race!loop, Race!reads
<1> QED
  BY <1>1, <1>2, PTL DEF Spec, Race!Spec

LEMMA RaceKnown ==
  /\ Race!ClusterAssumption
  /\ Race!RetryAssumption
  /\ Race!FreshReceipts
  /\ Race!IsFiniteSet({c1, c2})
<1>1. Race!ClusterAssumption
  BY ExamplesAssumption DEF Race!ClusterAssumption
<1>2. Race!RetryAssumption
  BY ExamplesAssumption, Payloads DEF Race!RetryAssumption
<1>3. Race!FreshReceipts
  <2>1. \A c \in {c1, c2} : Race!P[c] = <<p, 0>>
    BY Payloads DEF Race!P, Race!Fingerprint
  <2> QED
    BY <2>1, ExamplesAssumption DEF Race!FreshReceipts, Race!Receipts
<1>4. Race!IsFiniteSet({c1, c2})
  BY Finite, SameCardinality
<1> QED
  BY <1>1, <1>2, <1>3, <1>4

LEMMA RaceHolds ==
  Spec => [](instance = "race" =>
               /\ Race!PerformedAtMostOnce
               /\ Race!ReceiptMeansPerformed
               /\ Race!CountIsExact
               /\ Race!InitializeNeverMasksGuard
               /\ Race!StaleSnapshotIsHarmless)
<1>1. Race!Spec => [](Race!PerformedAtMostOnce /\ Race!ReceiptMeansPerformed)
  BY RaceKnown, Race!OrdersPerformOnce, PTL
<1>2. Race!Spec => []Race!CountIsExact
  BY RaceKnown, Race!CountsAreExact, PTL
<1>3. Race!Spec => []Race!InitializeNeverMasksGuard
  BY RaceKnown, Race!InitializeIsBehindGuard, PTL
<1>4. Race!Spec => []Race!StaleSnapshotIsHarmless
  BY RaceKnown, Race!StaleSnapshotsNeverRun, PTL
<1>5. ~(instance = "race") /\ [Next]_vars => ~(instance = "race")'
  BY PartsStay
<1>6. ~(instance = "race") /\ Spec => []~(instance = "race")
  BY <1>5, PTL DEF Spec
<1> QED
  BY <1>1, <1>2, <1>3, <1>4, <1>6, RaceRuns, PTL

LEMMA SwapRuns == Spec => (instance = "swap" => Swap!Spec)
<1>1. Init /\ instance = "swap" => Swap!Init
  BY DEF Init
<1>2. (instance = "swap") /\ [Next]_vars => (instance = "swap")' /\ [Swap!Next]_Swap!vars
  BY DEF Next, Runs, vars, Swap!vars, Swap!cluster, Swap!chain,
     Swap!client, Swap!loop, Swap!reads, Swap!input
<1> QED
  BY <1>1, <1>2, PTL DEF Spec, Swap!Spec

LEMMA SwapKnown ==
  /\ Swap!ClusterAssumption
  /\ Swap!RetryAssumption
  /\ Swap!FreshReceipts
  /\ Swap!OneRequestPerKey
  /\ Swap!SuppliedOK
  /\ {1231, 1232, 1233} \subseteq Nat /\ 1232 \in Nat
<1>1. Swap!ClusterAssumption
  BY ExamplesAssumption DEF Swap!ClusterAssumption
<1>2. Swap!RetryAssumption
  BY ExamplesAssumption, Payloads DEF Swap!RetryAssumption
<1>3. Swap!FreshReceipts
  <2>1. \A c \in {c1, c2} : Swap!P[c] = <<p, 0>>
    BY Payloads DEF Swap!P, Swap!Fingerprint
  <2> QED
    BY <2>1, ExamplesAssumption DEF Swap!FreshReceipts, Swap!Receipts
<1>4. Swap!OneRequestPerKey
  BY Payloads DEF Swap!OneRequestPerKey
<1>5. Swap!SuppliedOK
  <2> DEFINE S == {"limit", "price", "route", "close"}
             full == <<"limit", "price", "route", "close">>
             route == <<"route">>
  <2>1. full \in Seq(S) /\ Swap!PricedOnce(full)
    BY DEF Swap!PricedOnce
  <2>2. route \in Seq(S) /\ Swap!PricedOnce(route)
    BY DEF Swap!PricedOnce
  <2>3. \A q \in Quotes : q.ixs = full \/ q.ixs = route
    BY DEF Quotes, Quote
  <2> HIDE DEF S, full, route
  <2> QED
    BY <2>1, <2>2, <2>3 DEF Swap!SuppliedOK
<1> QED
  BY <1>1, <1>2, <1>3, <1>4, <1>5

LEMMA SwapHolds ==
  Spec => [](instance = "swap" =>
               /\ Swap!PerformedAtMostOnce
               /\ Swap!ReceiptMeansPerformed
               /\ Swap!RequoteIsSameIntent
               /\ Swap!ComposedWell
               /\ Swap!OversizeIsReported)
<1>1. Swap!Spec => [](Swap!PerformedAtMostOnce /\ Swap!ReceiptMeansPerformed)
  BY SwapKnown, Swap!SwapsPerformOnce, PTL
<1>2. Swap!Spec => []Swap!RequoteIsSameIntent
  BY SwapKnown, Swap!RequotesNeverConflict, PTL
<1>3. Swap!Spec => []Swap!ComposedWell
  BY SwapKnown, Swap!SwapsAreComposedWell, PTL
<1>4. Swap!Spec => []Swap!OversizeIsReported
  BY SwapKnown, Swap!OversizeIsWarned, PTL
<1>5. ~(instance = "swap") /\ [Next]_vars => ~(instance = "swap")'
  BY PartsStay
<1>6. ~(instance = "swap") /\ Spec => []~(instance = "swap")
  BY <1>5, PTL DEF Spec
<1> QED
  BY <1>1, <1>2, <1>3, <1>4, <1>6, SwapRuns, PTL

LEMMA FormsRuns ==
  Spec => [](instance = "forms" => Forms!ReceiptsAreActions /\ Forms!OneActionPerKey)
<1>1. Init /\ instance = "forms" => Forms!Init
  BY DEF Init
<1>2. (instance = "forms") /\ [Next]_vars => (instance = "forms")' /\ [Forms!Next]_Forms!vars
  BY DEF Next, Runs, vars, Forms!vars, Forms!bank
<1>3. Spec => (instance = "forms" => Forms!Spec)
  BY <1>1, <1>2, PTL DEF Spec, Forms!Spec
<1>4. ~(instance = "forms") /\ [Next]_vars => ~(instance = "forms")'
  BY PartsStay
<1>5. ~(instance = "forms") /\ Spec => []~(instance = "forms")
  BY <1>4, PTL DEF Spec
<1> QED
  BY <1>3, <1>5, CallsAndActionsAreOne, FormsShareKeys, PTL

-----------------------------------------------------------------------------
(* The properties of the sum *)

\* Everything that is guarded runs once per key, and its key is consumed exactly when it has run:
\* across retries, with a source that can pay one of two orders, behind initialize, for every
\* quote of a swap, and for every form of guard (sol-transfer:264-265,
\* demo-counter/src/lib.rs:60-76).
THEOREM EveryKeyOnce == Spec => []OncePerKey
BY TransferHolds, PaymentsHolds, OrderHolds, RaceHolds, SwapHolds, FormsRuns, PTL DEF OncePerKey

\* Rent and tokens are paid once per key, and the counter holds the guarded increments and those
\* of other transactions (spl-transfer:427, 626-633, custom-program:571-574).
THEOREM EffectsMatch == Spec => []EffectsAreExact
BY TransferHolds, PaymentsHolds, OrderHolds, RaceHolds, PTL DEF EffectsAreExact

\* What was read before a message was signed can make it fail, and does no more
\* (spl-transfer:309-312, custom-program:343-346, 476).
THEOREM StaleReadsAreSafe == Spec => []StaleReadsOnlyFail
BY TransferHolds, OrderHolds, RaceHolds, PTL DEF StaleReadsOnlyFail

\* No retry conflicts with another one of the same intent, whatever count it has read and
\* whatever quote it has been given (custom-program:493, jupiter-swap:629-634).
THEOREM RetriesNeverConflict == Spec => []NoFalseConflict
BY OrderHolds, SwapHolds, PTL DEF NoFalseConflict

\* What is submitted has the guard in front and one price at most, and every oversize transaction
\* of a dry run gets the warning (jupiter-swap:408-415, 721-722, 745-750).
THEOREM ComposedAlways == Spec => []ComposedWell
BY SwapHolds, PTL DEF ComposedWell
=============================================================================
