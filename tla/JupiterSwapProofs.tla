-------------------------- MODULE JupiterSwapProofs --------------------------
(***************************************************************************)
(* Guarded swaps for any number of processes, requests and quotes: a       *)
(* request is swapped once whichever quote of it is retried, and what is   *)
(* submitted is the supplied transaction with the guard in front.          *)
(***************************************************************************)
EXTENDS JupiterSwap, GuardedRetryProofs

\* The payload of each client's messages.
P == [c \in Clients |-> Fingerprint(c)]

\* No receipt is the value that stands for the absence of one.
FreshReceipts == NoReceipt \notin Receipts(P)

LEMMA ResultFacts ==
  ASSUME NEW m, NEW r \in Results(m)
  PROVE  /\ r = Ok => receipt[m.key] = NoReceipt
         /\ r # Ok => ResultOK(m, r)
<1>1. CASE Sanitized(m)
  <2>1. r \in GuardedResults(m, {Ok, BusinessError(1)})
    BY <1>1 DEF Results
  <2>2. \A b \in {Ok, BusinessError(1)} : b # Ok => b.code \notin {AlreadyCommitted, IdempotencyConflict}
    BY DEF BusinessError, AlreadyCommitted, IdempotencyConflict
  <2> QED
    BY <2>1, <2>2, OkMeansNew, ResultsTrue
<1>2. CASE ~Sanitized(m)
  BY <1>2 DEF Results, ResultOK, Ambiguous, Ok, AlreadyCommitted, IdempotencyConflict
<1> QED
  BY <1>1, <1>2

-----------------------------------------------------------------------------
(* The loop *)

\* What a client builds, and from which quote.
LEMMA BuildShape ==
  ASSUME NEW c \in Clients, Build(c)
  PROVE  \E m : /\ Builds(c, m, "send")
                /\ m.key = KeyOf[c] /\ m.payload = P[c] /\ m.ixs = buildGuardedMessage(c)
<1> DEFINE m == [key |-> KeyOf[c], payload |-> Fingerprint(c), recent |-> slot,
                 fee |-> IF hasComputeBudgetInstruction(swap[c].ixs, "price") THEN 0 ELSE fee[c],
                 ixs |-> buildGuardedMessage(c)]
<1>1. m.key = KeyOf[c] /\ m.payload = Fingerprint(c) /\ m.ixs = buildGuardedMessage(c)
  OBVIOUS
<1>2. Builds(c, m, "send")
  BY DEF Build
<1>3. P[c] = Fingerprint(c)
  BY DEF P
<1> HIDE DEF m
<1> QED
  BY <1>1, <1>2, <1>3

LEMMA StepShape ==
  ASSUME NEW c \in Clients, Progress(c) \/ ConnectionLost(c) \/ DryRun(c)
  PROVE  ClientStep(P, c, Results(msg[c]))
<1>1. CASE Build(c)
  BY <1>1, BuildShape DEF ClientStep, Prepares
<1>2. CASE Begin(c) \/ WrongFeePayer(c) \/ DryRun(c)
  <2>1. (\E value : Begins(c, value)) \/ Refuses(c)
    BY <1>2 DEF Begin, WrongFeePayer, DryRun, Refuses, Refusals
  <2> QED
    BY <2>1 DEF ClientStep, Prepares
<1> QED
  BY <1>1, <1>2 DEF Progress, Report, Attempt, ClientStep, Prepares

\* Every step is a slot's, the chain's, a client's or none.
LEMMA StepKinds ==
  ASSUME [Next]_vars
  PROVE  \/ NextSlot \/ UNCHANGED vars
         \/ \E m \in inflight : \E r \in Results(m) : Land(m, r)
         \/ \E c \in Clients : ClientStep(P, c, Results(msg[c]))
BY StepShape DEF Next

LEMMA InvCorrect ==
  ASSUME FreshReceipts
  PROVE  /\ Init => Inv(P)
         /\ Inv(P) /\ [Next]_vars => Inv(P)'
<1>1. Init => Inv(P)
  BY BankInit, AnswerInit DEF Init, Inv
<1>2. ASSUME Inv(P), [Next]_vars PROVE Inv(P)'
  <2> USE <1>2 DEF Inv
  <2>1. CASE NextSlot \/ UNCHANGED vars
    <3>1. /\ UNCHANGED <<landed, inflight, chain, receipt, pc, msg, reads, status>>
          /\ slot' \in Nat /\ slot' >= slot
      BY <2>1 DEF NextSlot, SlotAdvances, vars, cluster, chain, client, loop, BankInv
    <3> QED
      BY <3>1, BankRests, LoopRests, AnswerRests DEF BankInv
  <2>2. ASSUME NEW m \in inflight, NEW r \in Results(m), Land(m, r) PROVE Inv(P)'
    <3>1. UNCHANGED <<pc, msg, reads>>
      BY <2>2 DEF Land, client, loop
    <3> QED
      BY <2>2, <3>1, ResultFacts, LandKeepsBank, LandTells, LoopRests DEF FreshReceipts
  <2>3. ASSUME NEW c \in Clients, ClientStep(P, c, Results(msg[c])) PROVE Inv(P)'
    BY <2>3, BankStep, LoopStep, AnswerStep, ResultFacts
  <2> QED
    BY <2>1, <2>2, <2>3, StepKinds
<1> QED
  BY <1>1, <1>2

\* However many quotes of one request are submitted, and by however many processes, the swap
\* runs at most once, and its key is consumed exactly when it has (jupiter-swap:629-634,
\* claim.rs:97-151).
THEOREM SwapsPerformOnce ==
  ASSUME FreshReceipts
  PROVE  Spec => [](PerformedAtMostOnce /\ ReceiptMeansPerformed)
<1>1. Inv(P) => PerformedAtMostOnce /\ ReceiptMeansPerformed
  BY BankGives DEF Inv
<1> QED
  BY <1>1, InvCorrect, PTL DEF Spec

\* An order number stands for one request: who reuses it asks for the same swap.
OneRequestPerKey ==
  \A c, d \in Clients : KeyOf[c] = KeyOf[d] => IntentOf[c] = IntentOf[d]

\* A retry with another quote, another route or another price is the same intent, and is never
\* reported as a conflict (jupiter-swap:629-634).
THEOREM RequotesNeverConflict ==
  ASSUME FreshReceipts, OneRequestPerKey
  PROVE  Spec => []RequoteIsSameIntent
<1>1. Inv(P) => RequoteIsSameIntent
  <2> SUFFICES ASSUME Inv(P), NEW c \in Clients, Said(c, "conflict") PROVE FALSE
    BY DEF RequoteIsSameIntent
  <2>1. Conflicting(P, c) /\ KeyOK(P, KeyOf[c])
    BY DEF Inv, AnswerInv, ToldOK, BankInv, Keys
  <2>2. PICK e \in performed : /\ PerformedFor(KeyOf[c]) = {e} /\ MessageOK(P, e.msg)
                               /\ receipt[KeyOf[c]].payload = e.msg.payload
    BY <2>1 DEF Conflicting, Differs, KeyOK
  <2>3. e.msg.key = KeyOf[c] /\ e.msg.payload # P[c]
    BY <2>1, <2>2 DEF PerformedFor, Conflicting, Differs
  <2>4. PICK d \in Clients : KeyOf[d] = KeyOf[c] /\ e.msg.payload = P[d]
    BY <2>2, <2>3 DEF MessageOK
  <2> QED
    BY <2>3, <2>4 DEF OneRequestPerKey, P, Fingerprint
<1> QED
  BY <1>1, InvCorrect, PTL DEF Spec

-----------------------------------------------------------------------------
(* What is submitted *)

\* What a swap API supplies could run on its own: it sets the price at most once.
PricedOnce(ixs) == \A i, j \in DOMAIN ixs : ixs[i] = "price" /\ ixs[j] = "price" => i = j

SuppliedOK == \A q \in Quotes : (\E S : q.ixs \in Seq(S)) /\ PricedOnce(q.ixs)

LEMMA PricedOnceIsSanitized ==
  ASSUME NEW m, PricedOnce(m.ixs)
  PROVE  Sanitized(m)
<1> DEFINE S == {i \in DOMAIN m.ixs : m.ixs[i] = "price"}
<1>1. CASE S = {}
  BY <1>1, FS_EmptySet DEF Sanitized
<1>2. ASSUME NEW i \in S PROVE Sanitized(m)
  <2>1. S = {i}
    BY <1>2 DEF PricedOnce
  <2>2. Cardinality({i}) = 1
    BY FS_Singleton
  <2>3. Cardinality(S) <= 1
    BY <2>1, <2>2
  <2> QED
    BY <2>3 DEF Sanitized
<1> QED
  BY <1>1, <1>2

\* The sequence that follows another one is a suffix of both together.
LEMMA TailIsSuffix ==
  ASSUME NEW S, NEW s \in Seq(S), NEW t \in Seq(S)
  PROVE  IsSuffix(s, t \o s)
<1> DEFINE u == t \o s
<1>1. /\ u \in Seq(S) /\ Len(u) = Len(t) + Len(s) /\ Len(s) \in Nat /\ Len(t) \in Nat
      /\ \A i \in 1 .. Len(s) : u[Len(t) + i] = s[i]
  OBVIOUS
<1> HIDE DEF u
<1>2. /\ Reverse(s) \in Seq(S) /\ Len(Reverse(s)) = Len(s)
      /\ Reverse(u) \in Seq(S) /\ Len(Reverse(u)) = Len(u)
  BY <1>1 DEF Reverse
<1>3. \A i \in 1 .. Len(s) : Reverse(s)[i] = Reverse(u)[i]
  <2> SUFFICES ASSUME NEW i \in 1 .. Len(s) PROVE Reverse(s)[i] = Reverse(u)[i]
    OBVIOUS
  <2>1. Reverse(s)[i] = s[Len(s) - i + 1]
    BY DEF Reverse
  <2>2. i \in 1 .. Len(u) /\ Reverse(u)[i] = u[Len(u) - i + 1]
    BY <1>1 DEF Reverse
  <2>3. Len(s) - i + 1 \in 1 .. Len(s) /\ Len(u) - i + 1 = Len(t) + (Len(s) - i + 1)
    BY <1>1
  <2> QED
    BY <1>1, <2>1, <2>2, <2>3
<1>4. SubSeq(Reverse(s), 1, Len(s)) = SubSeq(Reverse(u), 1, Len(s))
  BY <1>1, <1>2, <1>3
<1> QED
  BY <1>1, <1>2, <1>4 DEF IsSuffix, IsPrefix, u

\* What ComposedWell says of one message, when client c has built it.
Composed(c, ixs) ==
  /\ PricedOnce(ixs)
  /\ IsSuffix(swap[c].ixs, ixs)
  /\ \A i \in DOMAIN ixs : ixs[i] \notin {"price", "limit", "guard"} =>
       \E j \in 1 .. i - 1 : ixs[j] = "guard"

LEMMA BuildComposes ==
  ASSUME NEW c \in Clients, NEW S, swap[c].ixs \in Seq(S), PricedOnce(swap[c].ixs)
  PROVE  Composed(c, buildGuardedMessage(c))
<1> DEFINE s == swap[c].ixs
           T == S \cup {"price", "guard"}
<1>1. s \in Seq(T) /\ PricedOnce(s)
  OBVIOUS
<1>2. CASE hasComputeBudgetInstruction(s, "price")
  <2> DEFINE u == <<"guard">> \o s
  <2>1. buildGuardedMessage(c) = u
    BY <1>2 DEF buildGuardedMessage
  <2>2. IsSuffix(s, u)
    <3>1. <<"guard">> \in Seq(T)
      OBVIOUS
    <3> HIDE DEF s
    <3> QED
      BY <1>1, <3>1, TailIsSuffix
  <2>3. /\ DOMAIN u = 1 .. Len(s) + 1 /\ Len(s) \in Nat /\ u[1] = "guard"
        /\ \A i \in 2 .. Len(s) + 1 : u[i] = s[i - 1] /\ i - 1 \in DOMAIN s
    BY <1>1
  <2> HIDE DEF s, u
  <2>4. PricedOnce(u)
    <3> SUFFICES ASSUME NEW i \in DOMAIN u, NEW j \in DOMAIN u, u[i] = "price", u[j] = "price"
                 PROVE  i = j
      BY DEF PricedOnce
    <3>1. i \in 2 .. Len(s) + 1 /\ j \in 2 .. Len(s) + 1
      BY <2>3
    <3>2. i - 1 = j - 1
      BY <1>1, <2>3, <3>1 DEF PricedOnce
    <3> QED
      BY <3>1, <3>2
  <2>5. ASSUME NEW i \in DOMAIN u, u[i] \notin {"price", "limit", "guard"}
        PROVE  \E j \in 1 .. i - 1 : u[j] = "guard"
    <3>1. i \in Nat /\ i >= 2
      BY <2>3, <2>5
    <3> QED
      BY <2>3, <3>1
  <2>6. IsSuffix(swap[c].ixs, u)
    BY <2>2 DEF s
  <2> QED
    BY <2>1, <2>4, <2>5, <2>6 DEF Composed
<1>3. CASE ~hasComputeBudgetInstruction(s, "price")
  <2> DEFINE t == <<"price">> \o <<"guard">>
             u == <<"price">> \o (<<"guard">> \o s)
  <2>1. buildGuardedMessage(c) = u
    BY <1>3 DEF buildGuardedMessage
  <2>2. IsSuffix(s, u)
    <3>1. <<"price">> \in Seq(T) /\ <<"guard">> \in Seq(T) /\ t \in Seq(T)
      OBVIOUS
    <3> HIDE DEF s
    <3>2. u = t \o s
      BY <1>1, <3>1, ConcatAssociative
    <3> HIDE DEF t, u
    <3> QED
      BY <1>1, <3>1, <3>2, TailIsSuffix
  <2>3. /\ DOMAIN u = 1 .. Len(s) + 2 /\ Len(s) \in Nat /\ u[1] = "price" /\ u[2] = "guard"
        /\ \A i \in 3 .. Len(s) + 2 : u[i] = s[i - 2] /\ i - 2 \in 1 .. Len(s)
    BY <1>1
  <2>4. \A i \in 1 .. Len(s) : s[i] # "price"
    BY <1>3 DEF hasComputeBudgetInstruction, Contains
  <2> HIDE DEF s, t, u
  <2>5. \A i \in DOMAIN u : u[i] = "price" => i = 1
    <3> SUFFICES ASSUME NEW i \in DOMAIN u, i # 1 PROVE u[i] # "price"
      OBVIOUS
    <3>1. i = 2 \/ i \in 3 .. Len(s) + 2
      BY <2>3
    <3> QED
      BY <2>3, <2>4, <3>1
  <2>6. ASSUME NEW i \in DOMAIN u, u[i] \notin {"price", "limit", "guard"}
        PROVE  \E j \in 1 .. i - 1 : u[j] = "guard"
    <3>1. i \in Nat /\ i >= 3
      BY <2>3, <2>6
    <3> QED
      BY <2>3, <3>1
  <2>7. IsSuffix(swap[c].ixs, u)
    BY <2>2 DEF s
  <2> QED
    BY <2>1, <2>5, <2>6, <2>7 DEF Composed, PricedOnce
<1> QED
  BY <1>2, <1>3

\* What a client waits to send, and what the cluster holds, is what some client has built.
ComposedInv ==
  /\ swap \in [Clients -> Quotes]
  /\ \A c \in Clients : pc[c] = "send" => msg[c].ixs = buildGuardedMessage(c)
  /\ \A m \in inflight : \E c \in Clients : m.ixs = buildGuardedMessage(c)

LEMMA ComposedCorrect ==
  ASSUME FreshReceipts
  PROVE  Spec => []ComposedInv
<1>1. Init => ComposedInv
  BY DEF Init, RetryInit, ClusterInit, ComposedInv
<1>2. ComposedInv /\ Inv(P) /\ [Next]_vars => ComposedInv'
  <2> SUFFICES ASSUME ComposedInv, Inv(P), [Next]_vars PROVE ComposedInv'
    OBVIOUS
  <2>1. UNCHANGED swap
    BY DEF Next, DryRun, Throw, Progress, input, vars
  <2>2. \A c \in Clients : buildGuardedMessage(c)' = buildGuardedMessage(c)
    BY <2>1 DEF buildGuardedMessage, hasComputeBudgetInstruction
  <2>3. CASE UNCHANGED <<inflight, pc, msg>>
    BY <2>1, <2>2, <2>3 DEF ComposedInv
  <2>4. ASSUME NEW c \in Clients, Progress(c) \/ ConnectionLost(c) \/ DryRun(c) PROVE ComposedInv'
    <3>1. ClientStep(P, c, Results(msg[c]))
      BY <2>4, StepShape
    <3>2. \A d \in Clients \ {c} : pc'[d] = pc[d] /\ msg'[d] = msg[d]
      BY <3>1, OthersRest
    <3>3. \A m \in inflight' : m \in inflight \/ (pc[c] = "send" /\ m = msg[c])
      BY <3>1, ClientHandsOver
    <3>4. pc'[c] = "send" => msg'[c].ixs = buildGuardedMessage(c)
      <4>1. CASE Build(c)
        <5>1. PICK m : Builds(c, m, "send") /\ m.ixs = buildGuardedMessage(c)
          BY <4>1, BuildShape
        <5>2. msg'[c] = m
          BY <5>1 DEF Builds, Inv, LoopInv
        <5> QED
          BY <5>1, <5>2
      <4>2. CASE Attempt(c) \/ ConnectionLost(c)
        <5>1. SendAndConfirm(c, Results(msg[c])) \/ ConnectionLost(c)
          BY <4>2 DEF Attempt
        <5> QED
          BY <5>1, AttemptShape
      <4>3. CASE Begin(c) \/ WrongFeePayer(c) \/ ReadFails(c) \/ Report(c) \/ DryRun(c)
        BY <4>3 DEF Begin, Begins, WrongFeePayer, ReadFails, Report, Reports, DryRun, Throw, Inv,
           LoopInv
      <4> QED
        BY <2>4, <4>1, <4>2, <4>3 DEF Progress
    <3>5. \A d \in Clients : pc'[d] = "send" => msg'[d].ixs = buildGuardedMessage(d)
      BY <3>2, <3>4 DEF ComposedInv
    <3>6. \A m \in inflight' : \E d \in Clients : m.ixs = buildGuardedMessage(d)
      BY <3>3 DEF ComposedInv
    <3> QED
      BY <2>1, <2>2, <3>5, <3>6 DEF ComposedInv
  <2>5. CASE NextSlot \/ UNCHANGED vars \/ \E m \in inflight : \E r \in Results(m) : Land(m, r)
    BY <2>3, <2>5 DEF NextSlot, SlotAdvances, Land, Executes, vars, cluster, client, loop
  <2> QED
    BY <2>4, <2>5 DEF Next
<1> QED
  BY <1>1, <1>2, InvCorrect, PTL DEF Spec

\* Whatever a swap API supplies, if it could run on its own then what is submitted is never
\* refused for a second price, ends with the supplied instructions in their order, and runs the
\* guard before each of them that does anything (jupiter-swap:408-415).
THEOREM SwapsAreComposedWell ==
  ASSUME FreshReceipts, SuppliedOK
  PROVE  Spec => []ComposedWell
<1>1. ComposedInv => ComposedWell
  <2> SUFFICES ASSUME ComposedInv, NEW m \in inflight
               PROVE  /\ Sanitized(m)
                      /\ \E c \in Clients : IsSuffix(swap[c].ixs, m.ixs)
                      /\ \A i \in DOMAIN m.ixs : m.ixs[i] \notin {"price", "limit", "guard"} =>
                           \E j \in 1 .. i - 1 : m.ixs[j] = "guard"
    BY DEF ComposedWell
  <2>1. PICK c \in Clients : m.ixs = buildGuardedMessage(c)
    BY DEF ComposedInv
  <2>2. Composed(c, m.ixs)
    BY <2>1, BuildComposes DEF ComposedInv, SuppliedOK
  <2> QED
    BY <2>2, PricedOnceIsSanitized DEF Composed
<1> QED
  BY <1>1, ComposedCorrect, PTL

-----------------------------------------------------------------------------
(* What a dry run prints *)

\* The estimate is never below the size.
LEMMA EstimateIsNoLess ==
  ASSUME NEW size \in Nat
  PROVE  wireBytes(size) \in Nat /\ wireBytes(size) >= size
<1> DEFINE q == (size + 2) \div 3
<1>1. q \in Nat /\ 3 * q >= size
  OBVIOUS
<1>2. wireBytes(size) = (q * 4 * 3) \div 4
  BY DEF wireBytes
<1> HIDE DEF q
<1>3. (q * 4 * 3) \div 4 = 3 * q
  BY <1>1
<1> QED
  BY <1>1, <1>2, <1>3

\* A transaction above the limit, of whatever size, is printed with the warning, although the
\* dry run estimates the size from the encoded form (jupiter-swap:721-722, 745-750): the
\* estimate is never below the size. That the closing lines do not say it fits is no part of it.
THEOREM OversizeIsWarned ==
  ASSUME Sizes \subseteq Nat, TX_LIMIT \in Nat
  PROVE  Spec => []OversizeIsReported
<1> DEFINE Told == /\ printed \in [Clients -> [size : Nat, said : SUBSET {"fits", "OVER"}]]
                   /\ OversizeIsReported
<1>1. Init => Told
  BY DEF Init, OversizeIsReported
<1>2. Told /\ [Next]_vars => Told'
  <2> SUFFICES ASSUME Told, [Next]_vars PROVE Told'
    OBVIOUS
  <2>1. CASE UNCHANGED printed
    BY <2>1 DEF OversizeIsReported
  <2>2. ASSUME NEW c \in Clients, DryRun(c) PROVE Told'
    <3>1. PICK size \in Sizes :
            printed' = [printed EXCEPT ![c] = [size |-> size, said |-> SaidOf(size)]]
      BY <2>2 DEF DryRun
    <3>2. SaidOf(size) \in SUBSET {"fits", "OVER"}
      BY DEF SaidOf
    <3>3. size > TX_LIMIT => "OVER" \in SaidOf(size)
      BY EstimateIsNoLess DEF Over, SaidOf
    <3> QED
      BY <3>1, <3>2, <3>3 DEF OversizeIsReported
  <2> QED
    BY <2>1, <2>2 DEF Next, vars
<1>3. Told => OversizeIsReported
  OBVIOUS
<1> QED
  BY <1>1, <1>2, <1>3, PTL DEF Spec
=============================================================================
