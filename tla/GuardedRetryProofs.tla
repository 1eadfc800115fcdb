-------------------------- MODULE GuardedRetryProofs --------------------------
(***************************************************************************)
(* What every example gets from the guard in front of its action and from  *)
(* its retry loop, whatever it puts behind the guard, reads and carries in *)
(* its messages: the lemmas that the proofs about the examples share.  The *)
(* parameter P is the payload fingerprint that each client computes.       *)
(***************************************************************************)
EXTENDS GuardedRetry, FiniteSetTheorems, SequenceTheorems, TLAPS

Receipts(P) == [payload : {P[c] : c \in Clients}, slot : Nat]

\* A message is one client's: its key and its intent's fingerprint.
MessageOK(P, m) == \E c \in Clients : m.key = KeyOf[c] /\ m.payload = P[c]

\* A key is consumed by one execution, which its receipt records.
KeyOK(P, k) ==
  IF receipt[k] = NoReceipt THEN PerformedFor(k) = {}
  ELSE \E e \in performed :
         /\ PerformedFor(k) = {e} /\ MessageOK(P, e.msg)
         /\ receipt[k].payload = e.msg.payload
         /\ receipt[k].slot = e.slot

BankInv(P) ==
  /\ slot \in Nat
  /\ \A m \in inflight : MessageOK(P, m)
  /\ \A l \in landed : MessageOK(P, l.msg) /\ l.slot \in Nat /\ l.slot <= slot
  /\ \A e \in performed : MessageOK(P, e.msg) /\ e.slot \in Nat /\ e.slot <= slot
  /\ receipt \in [Keys -> Receipts(P) \cup {NoReceipt}]
  /\ \A k \in Keys : KeyOK(P, k)

\* What the next message of a client is made of.
LoopInv(P) ==
  /\ DOMAIN msg = Clients /\ DOMAIN pc = Clients
  /\ DOMAIN before = Clients /\ DOMAIN after = Clients
  /\ \A c \in Clients : pc[c] \in {"check", "send", "confirm"} =>
       msg[c].key = KeyOf[c] /\ msg[c].payload = P[c]

Holds(key, payload) == receipt[key] # NoReceipt /\ receipt[key].payload = payload
Differs(key, payload) == receipt[key] # NoReceipt /\ receipt[key].payload # payload
Consumed(P, c) == Holds(KeyOf[c], P[c])
Conflicting(P, c) == Differs(KeyOf[c], P[c])

\* A result stays true: receipts stay.
ResultOK(m, r) ==
  /\ r = Ok \/ r.code = AlreadyCommitted => Holds(m.key, m.payload)
  /\ r.code = IdempotencyConflict => Differs(m.key, m.payload)

\* Why an example may end before it submits.
Refusals == {"unfunded", "no-account", "durable-nonce", "fee-payer", "dry-run"}

\* What a process can be told.
Answers == {"committed", "duplicate-blocked", "conflict", "gave-up", "rejected",
            "rpc-error", "ok", "replay-not-blocked"} \cup Refusals

ToldOK(P, c) ==
  /\ status[c] \in Seq(Answers)
  /\ Said(c, "committed") \/ Said(c, "duplicate-blocked") => Consumed(P, c)
  /\ Said(c, "conflict") => Conflicting(P, c)

\* The second submission starts from a consumed key, so what it waits for cannot succeed.
ReplayOK(P, c) ==
  /\ pc[c] = "main" => Len(status[c]) = 0
  /\ pc[c] \in {"build", "check", "send", "confirm"} =>
       Len(status[c]) = 0 \/ (Len(status[c]) = 1 /\ Consumed(P, c))
  /\ pc[c] = "confirm" /\ Len(status[c]) = 1 => \A l \in landed : l.msg = msg[c] => l.result # Ok
  /\ pc[c] = "report" => Len(status[c]) = 2 /\ status[c][2] = "duplicate-blocked"
  /\ Len(status[c]) >= 2 => status[c][2] # "committed"
  /\ ~Said(c, "replay-not-blocked")

AnswerInv(P) ==
  /\ DOMAIN status = Clients
  /\ \A l \in landed : ResultOK(l.msg, l.result)
  /\ \A c \in Clients : ToldOK(P, c) /\ ReplayOK(P, c)

Inv(P) == BankInv(P) /\ LoopInv(P) /\ AnswerInv(P)

-----------------------------------------------------------------------------
(* The steps of an example *)

\* A message with the client's key and payload takes the place of the one before.
Looks(P, c) ==
  /\ pc[c] = "check"
  /\ \E m : msg' = [msg EXCEPT ![c] = m] /\ m.key = KeyOf[c] /\ m.payload = P[c]
  /\ pc' = [pc EXCEPT ![c] = "send"]
  /\ UNCHANGED <<cluster, chain, attempt, fee, reads, status>>

Refuses(c) ==
  /\ pc[c] \in {"main", "build", "check"}
  /\ \E why \in Refusals : Throw(c, why)
  /\ UNCHANGED <<cluster, chain>>

Prepares(P, c) ==
  \/ \E value : Begins(c, value)
  \/ \E m : \E next \in {"check", "send"} :
       m.key = KeyOf[c] /\ m.payload = P[c] /\ Builds(c, m, next)
  \/ Looks(P, c) \/ Refuses(c) \/ ReadFails(c)
  \/ \E value : Reports(c, value)

\* Whatever an example does with a client is one of these.
ClientStep(P, c, results) ==
  Prepares(P, c) \/ SendAndConfirm(c, results) \/ ConnectionLost(c)

LEMMA MineOK ==
  ASSUME NEW P, LoopInv(P), NEW c \in Clients, pc[c] \in {"check", "send", "confirm"}
  PROVE  MessageOK(P, msg[c])
BY DEF LoopInv, MessageOK

LEMMA MessageTyped ==
  ASSUME NEW P, NEW m, MessageOK(P, m)
  PROVE  m.key \in Keys /\ m.payload \in {P[c] : c \in Clients}
BY DEF MessageOK, Keys

\* Only a free key lets a guarded message succeed.
LEMMA OkMeansNew ==
  ASSUME NEW m, NEW business, NEW r \in GuardedResults(m, business), r = Ok
  PROVE  receipt[m.key] = NoReceipt
BY DEF GuardedResults, ClaimError, Ok

-----------------------------------------------------------------------------
(* Type of the loop: every step leaves a message that is its client's own  *)

\* The ends of an attempt change no message.
LEMMA CatchKeeps ==
  ASSUME NEW P, LoopInv(P), NEW c \in Clients, NEW result, Catch(c, result)
  PROVE  UNCHANGED msg /\ LoopInv(P)'
<1>1. \/ Return(c, "duplicate-blocked") \/ Throw(c, "conflict")
      \/ Throw(c, LastFailure(result)) \/ Rebuild(c)
  BY DEF Catch
<1> QED
  BY <1>1 DEF Return, Throw, Rebuild, loop, reads, LoopInv

LEMMA LoopRests ==
  ASSUME NEW P, LoopInv(P), UNCHANGED <<pc, msg, reads>>
  PROVE  LoopInv(P)'
BY DEF LoopInv, reads

LEMMA LoopStep ==
  ASSUME NEW P, LoopInv(P), NEW c \in Clients, NEW results, ClientStep(P, c, results)
  PROVE  LoopInv(P)'
<1>1. CASE \E value : Begins(c, value) \/ Reports(c, value)
  BY <1>1 DEF Begins, Reports, loop, reads, LoopInv
<1>2. ASSUME NEW m, NEW next \in {"check", "send"}, m.key = KeyOf[c], m.payload = P[c],
             Builds(c, m, next)
      PROVE  LoopInv(P)'
  BY <1>2 DEF Builds, reads, LoopInv
<1>3. CASE Looks(P, c)
  BY <1>3 DEF Looks, reads, LoopInv
<1>4. CASE Refuses(c) \/ ReadFails(c)
  BY <1>4 DEF Refuses, ReadFails, Throw, loop, reads, LoopInv
<1>5. CASE Submit(c, results)
  BY <1>5 DEF Submit, loop, reads, LoopInv
<1>6. CASE Confirmed(c)
  <2>1. Return(c, "committed") \/ \E result : Catch(c, result)
    BY <1>6 DEF Confirmed
  <2> QED
    BY <2>1, CatchKeeps DEF Return, reads, LoopInv
<1>7. CASE PreflightFails(c, results) \/ SendFails(c) \/ BlockHeightExceeded(c) \/ ConnectionLost(c)
  <2>1. \E result : Catch(c, result)
    BY <1>7 DEF PreflightFails, SendFails, BlockHeightExceeded, ConnectionLost
  <2> QED
    BY <2>1, CatchKeeps
<1> QED
  BY <1>1, <1>2, <1>3, <1>4, <1>5, <1>6, <1>7 DEF ClientStep, Prepares, SendAndConfirm

-----------------------------------------------------------------------------
(* The chain *)

LEMMA BankInit ==
  ASSUME NEW P, RetryInit
  PROVE  BankInv(P) /\ LoopInv(P)
BY DEF RetryInit, ClusterInit, BankInv, LoopInv, KeyOK, PerformedFor

\* A message that succeeds consumes its key; one that fails changes nothing.
LEMMA LandKeepsBank ==
  ASSUME NEW P, NoReceipt \notin Receipts(P), BankInv(P), NEW m \in inflight, NEW r, Land(m, r),
         r = Ok => receipt[m.key] = NoReceipt
  PROVE  BankInv(P)'
<1>1. MessageOK(P, m) /\ UNCHANGED <<slot, inflight>>
  BY DEF BankInv, Land, Executes
<1>2. \A l \in landed' : MessageOK(P, l.msg) /\ l.slot \in Nat /\ l.slot <= slot
  BY <1>1 DEF BankInv, Land, Executes
<1>3. CASE r # Ok
  <2>1. UNCHANGED <<receipt, performed>>
    BY <1>3 DEF Land, chain
  <2> QED
    BY <1>1, <1>2, <2>1 DEF BankInv, KeyOK, PerformedFor
<1>4. CASE r = Ok
  <2> DEFINE new == [payload |-> m.payload, slot |-> slot]
             e == [msg |-> m, slot |-> slot]
  <2>1. receipt' = [receipt EXCEPT ![m.key] = new] /\ performed' = performed \cup {e}
    BY <1>4 DEF Land
  <2>2. receipt[m.key] = NoReceipt
    BY <1>4
  <2>3. m.key \in Keys /\ new \in Receipts(P) /\ new # NoReceipt
    BY <1>1, MessageTyped DEF BankInv, Receipts
  <2>4. receipt' \in [Keys -> Receipts(P) \cup {NoReceipt}]
    BY <2>1, <2>3 DEF BankInv
  <2>5. PerformedFor(m.key) = {}
    BY <2>2, <2>3 DEF BankInv, KeyOK
  <2>6. PerformedFor(m.key)' = {e} /\ e \in performed'
    BY <2>1, <2>5 DEF PerformedFor
  <2>7. receipt'[m.key] = new
    BY <2>1, <2>3 DEF BankInv
  <2>8. KeyOK(P, m.key)'
    BY <1>1, <2>3, <2>6, <2>7 DEF KeyOK
  <2>9. ASSUME NEW k \in Keys, k # m.key PROVE KeyOK(P, k)'
    <3>1. PerformedFor(k)' = PerformedFor(k) /\ receipt'[k] = receipt[k]
      BY <2>1, <2>9 DEF PerformedFor, BankInv
    <3> QED
      BY <2>1, <3>1 DEF KeyOK, BankInv
  <2>10. \A x \in performed' : MessageOK(P, x.msg) /\ x.slot \in Nat /\ x.slot <= slot
    BY <1>1, <2>1 DEF BankInv
  <2> QED
    BY <1>1, <1>2, <2>4, <2>8, <2>9, <2>10 DEF BankInv
<1> QED
  BY <1>3, <1>4

LEMMA BankRests ==
  ASSUME NEW P, BankInv(P), UNCHANGED <<chain, landed>>, slot' \in Nat, slot' >= slot,
         \A m \in inflight' : MessageOK(P, m)
  PROVE  BankInv(P)'
BY DEF BankInv, chain, KeyOK, PerformedFor

LEMMA BankStep ==
  ASSUME NEW P, BankInv(P), LoopInv(P), NEW c \in Clients, NEW results, ClientStep(P, c, results)
  PROVE  BankInv(P)'
<1>1. CASE UNCHANGED <<cluster, chain>>
  BY <1>1, BankRests DEF cluster, BankInv
<1>2. CASE UNCHANGED chain /\ Forwards(msg[c]) /\ pc[c] = "send"
  <2>1. MessageOK(P, msg[c])
    BY <1>2, MineOK
  <2> QED
    BY <1>2, <2>1, BankRests DEF Forwards, BankInv
<1>3. \/ UNCHANGED <<cluster, chain>>
      \/ UNCHANGED chain /\ Forwards(msg[c]) /\ pc[c] = "send"
  BY DEF ClientStep, Prepares, Begins, Builds, Looks, Refuses, ReadFails, Reports,
     SendAndConfirm, Submit, PreflightFails, SendFails, Confirmed, BlockHeightExceeded,
     ConnectionLost
<1> QED
  BY <1>1, <1>2, <1>3

LEMMA SlotKeepsBank ==
  ASSUME NEW P, BankInv(P), NextSlot
  PROVE  BankInv(P)'
BY BankRests DEF NextSlot, SlotAdvances, BankInv

\* Once per key, and a receipt exactly where the action has run.
LEMMA BankGives ==
  ASSUME NEW P, BankInv(P)
  PROVE  PerformedAtMostOnce /\ ReceiptMeansPerformed
<1>1. ASSUME NEW k \in Keys PROVE Cardinality(PerformedFor(k)) <= 1
  <2>1. PerformedFor(k) = {} \/ \E e : PerformedFor(k) = {e}
    BY DEF BankInv, KeyOK
  <2>2. CASE PerformedFor(k) = {}
    BY <2>2, FS_EmptySet
  <2>3. ASSUME NEW e, PerformedFor(k) = {e} PROVE Cardinality(PerformedFor(k)) <= 1
    <3>1. Cardinality({e}) = 1
      BY FS_Singleton
    <3> QED
      BY <2>3, <3>1
  <2> QED
    BY <2>1, <2>2, <2>3
<1> QED
  BY <1>1 DEF BankInv, KeyOK, PerformedAtMostOnce, ReceiptMeansPerformed

-----------------------------------------------------------------------------
(* What the clients are told *)

LEMMA AppendFacts ==
  ASSUME NEW s \in Seq(Answers), NEW x \in Answers
  PROVE  /\ Append(s, x) \in Seq(Answers) /\ Len(Append(s, x)) = Len(s) + 1
         /\ \A i \in 1 .. Len(s) : Append(s, x)[i] = s[i]
         /\ Append(s, x)[Len(s) + 1] = x
         /\ \A w : (\E i \in DOMAIN Append(s, x) : Append(s, x)[i] = w)
                   => x = w \/ \E i \in DOMAIN s : s[i] = w
OBVIOUS

\* A client is told something, and goes on or ends.
LEMMA Says ==
  ASSUME NEW P, Inv(P), NEW c \in Clients, NEW what \in Answers, NEW next,
         status' = [status EXCEPT ![c] = Append(@, what)],
         pc' = [pc EXCEPT ![c] = next],
         UNCHANGED <<msg, landed, receipt>>,
         what \in {"committed", "duplicate-blocked"} => Consumed(P, c),
         what = "conflict" => Conflicting(P, c),
         what # "replay-not-blocked",
         Len(status[c]) = 1 => what # "committed",
         \/ next = "done"
         \/ next = "build" /\ Len(status[c]) = 0 /\ Consumed(P, c)
         \/ next = "report" /\ Len(status[c]) = 1 /\ what = "duplicate-blocked"
  PROVE  AnswerInv(P)'
<1>1. /\ status'[c] = Append(status[c], what) /\ pc'[c] = next
      /\ \A d \in Clients \ {c} : status'[d] = status[d] /\ pc'[d] = pc[d]
      /\ DOMAIN status' = Clients
  BY DEF Inv, AnswerInv, LoopInv
<1>2. status[c] \in Seq(Answers) /\ ToldOK(P, c) /\ ReplayOK(P, c)
  BY DEF Inv, AnswerInv, ToldOK
<1>3. \A w : Said(c, w)' => what = w \/ Said(c, w)
  BY <1>1, <1>2, AppendFacts DEF Said
<1>4. /\ status'[c] \in Seq(Answers) /\ Len(status'[c]) = Len(status[c]) + 1
      /\ Len(status[c]) = 1 => status'[c][2] = what
      /\ Len(status[c]) >= 2 => status'[c][2] = status[c][2]
      /\ Len(status[c]) \in Nat
  <2>1. Len(status[c]) \in Nat
    BY <1>2
  <2>2. Len(status[c]) >= 2 => 2 \in 1 .. Len(status[c])
    BY <2>1
  <2> QED
    BY <1>1, <1>2, <2>1, <2>2, AppendFacts
<1>5. ToldOK(P, c)'
  BY <1>2, <1>3, <1>4 DEF ToldOK, Consumed, Conflicting, Holds, Differs
<1>6. ReplayOK(P, c)'
  <2>1. ~Said(c, "replay-not-blocked")'
    BY <1>2, <1>3 DEF ReplayOK
  <2>2. Len(status'[c]) >= 2 => status'[c][2] # "committed"
    <3>1. CASE Len(status[c]) = 0
      BY <1>4, <3>1
    <3>2. CASE Len(status[c]) = 1
      BY <1>4, <3>2
    <3>3. CASE Len(status[c]) >= 2
      BY <1>2, <1>4, <3>3 DEF ReplayOK
    <3>4. Len(status[c]) = 0 \/ Len(status[c]) = 1 \/ Len(status[c]) >= 2
      <4> DEFINE n == Len(status[c])
      <4>1. n \in Nat
        BY <1>4
      <4> HIDE DEF n
      <4>2. n = 0 \/ n = 1 \/ n >= 2
        BY <4>1
      <4> QED
        BY <4>2 DEF n
    <3> QED
      BY <3>1, <3>2, <3>3, <3>4
  <2>3. next = "build" => Len(status'[c]) = 1 /\ Consumed(P, c)'
    BY <1>4 DEF Consumed, Holds
  <2>4. next = "report" => Len(status'[c]) = 2 /\ status'[c][2] = "duplicate-blocked"
    BY <1>4
  <2> QED
    BY <1>1, <2>1, <2>2, <2>3, <2>4 DEF ReplayOK
<1>7. ASSUME NEW d \in Clients \ {c} PROVE ToldOK(P, d)' /\ ReplayOK(P, d)'
  BY <1>1, <1>7 DEF Inv, AnswerInv, ToldOK, ReplayOK, Said, Consumed, Conflicting, Holds, Differs
<1>8. \A l \in landed' : ResultOK(l.msg, l.result)'
  BY DEF Inv, AnswerInv, ResultOK, Holds, Differs
<1> QED
  BY <1>1, <1>5, <1>6, <1>7, <1>8 DEF AnswerInv

\* A client goes on without being told anything.
LEMMA GoesOn ==
  ASSUME NEW P, Inv(P), NEW c \in Clients, NEW next,
         UNCHANGED <<status, landed, receipt>>,
         pc' = [pc EXCEPT ![c] = next],
         \A d \in Clients \ {c} : msg'[d] = msg[d],
         pc[c] \in {"main", "build", "check", "send", "confirm"},
         \/ next \in {"build", "check", "send"}
         \/ next = "confirm" /\ ~Processed(msg[c]) /\ UNCHANGED msg
  PROVE  AnswerInv(P)'
<1>1. /\ pc'[c] = next /\ \A d \in Clients \ {c} : pc'[d] = pc[d]
  BY DEF Inv, LoopInv
<1>2. \A d \in Clients : ToldOK(P, d)'
  BY DEF Inv, AnswerInv, ToldOK, Said, Consumed, Conflicting, Holds, Differs
<1>3. ReplayOK(P, c)'
  BY <1>1 DEF Inv, AnswerInv, ReplayOK, Said, Consumed, Holds, Processed
<1>4. ASSUME NEW d \in Clients \ {c} PROVE ReplayOK(P, d)'
  BY <1>1, <1>4 DEF Inv, AnswerInv, ReplayOK, Said, Consumed, Holds
<1>5. \A l \in landed' : ResultOK(l.msg, l.result)'
  BY DEF Inv, AnswerInv, ResultOK, Holds, Differs
<1> QED
  BY <1>2, <1>3, <1>4, <1>5 DEF Inv, AnswerInv

\* The catch block tells the truth about a true result.
LEMMA CatchTells ==
  ASSUME NEW P, Inv(P), NEW c \in Clients, pc[c] \in {"send", "confirm"}, NEW result, Catch(c, result),
         result.code = AlreadyCommitted => Consumed(P, c),
         result.code = IdempotencyConflict => Conflicting(P, c),
         UNCHANGED <<landed, receipt>>
  PROVE  AnswerInv(P)'
<1>1. Len(status[c]) \in {0, 1}
  <2>1. ReplayOK(P, c)
    BY DEF Inv, AnswerInv
  <2> QED
    BY <2>1 DEF ReplayOK
<1>2. CASE result.code = AlreadyCommitted
  <2>1. Return(c, "duplicate-blocked") /\ Consumed(P, c)
    BY <1>2 DEF Catch, Classify, AlreadyCommitted, IdempotencyConflict
  <2>2. CASE Len(status[c]) = 0
    BY <2>1, <2>2, Says DEF Return, Answers
  <2>3. CASE Len(status[c]) = 1
    BY <2>1, <2>3, Says DEF Return, Answers
  <2> QED
    BY <1>1, <2>2, <2>3
<1>3. CASE result.code = IdempotencyConflict /\ result.code # AlreadyCommitted
  <2>1. Throw(c, "conflict") /\ Conflicting(P, c)
    BY <1>3 DEF Catch, Classify, AlreadyCommitted, IdempotencyConflict
  <2> QED
    BY <2>1, Says DEF Throw, loop, Answers
<1>4. CASE result.code # IdempotencyConflict /\ result.code # AlreadyCommitted
  <2>1. Throw(c, "gave-up") \/ Throw(c, "rejected") \/ Rebuild(c)
    BY <1>4 DEF Catch, Classify, LastFailure
  <2>2. CASE Rebuild(c)
    BY <2>2, GoesOn DEF Rebuild
  <2>3. CASE Throw(c, "gave-up")
    BY <2>3, Says DEF Throw, loop, Answers
  <2>4. CASE Throw(c, "rejected")
    BY <2>4, Says DEF Throw, loop, Answers
  <2> QED
    BY <2>1, <2>2, <2>3, <2>4
<1> QED
  BY <1>2, <1>3, <1>4

-----------------------------------------------------------------------------
(* The answers stay true *)

\* What the chain would answer to a message is true of its receipt, as long as the codes of
\* the instructions behind the guard are not commit_once's.
LEMMA ResultsTrue ==
  ASSUME NEW m, NEW business,
         \A r \in business : r # Ok => r.code \notin {AlreadyCommitted, IdempotencyConflict},
         NEW r \in GuardedResults(m, business), r # Ok
  PROVE  ResultOK(m, r)
<1>1. CASE receipt[m.key] = NoReceipt
  BY <1>1 DEF GuardedResults, ResultOK
<1>2. CASE receipt[m.key] # NoReceipt
  <2>1. r = ClaimError(ClaimAnswer(m))
    BY <1>2 DEF GuardedResults
  <2> QED
    BY <1>2, <2>1 DEF ClaimError, ClaimAnswer, ResultOK, Holds, Differs, AlreadyCommitted,
       IdempotencyConflict
<1> QED
  BY <1>1, <1>2

LEMMA AnswerInit ==
  ASSUME NEW P, RetryInit
  PROVE  AnswerInv(P)
<1>1. \A c \in Clients : status[c] = << >> /\ pc[c] = "main"
  BY DEF RetryInit
<1>2. << >> \in Seq(Answers) /\ Len(<< >>) = 0 /\ DOMAIN << >> = {}
  BY EmptySeq
<1>3. \A c \in Clients : \A w : ~Said(c, w)
  BY <1>1, <1>2 DEF Said
<1>4. ASSUME NEW c \in Clients PROVE ToldOK(P, c) /\ ReplayOK(P, c)
  <2>1. status[c] \in Seq(Answers) /\ Len(status[c]) = 0 /\ pc[c] = "main"
    BY <1>1, <1>2
  <2> QED
    BY <1>3, <2>1 DEF ToldOK, ReplayOK
<1> QED
  BY <1>4 DEF RetryInit, ClusterInit, AnswerInv

LEMMA AnswerRests ==
  ASSUME NEW P, AnswerInv(P), UNCHANGED <<landed, receipt, pc, msg, status>>
  PROVE  AnswerInv(P)'
BY DEF AnswerInv, ResultOK, ToldOK, ReplayOK, Said, Consumed, Conflicting, Holds, Differs

\* Receipts are only ever added, so what they have told stays true.
LEMMA ReceiptsStay ==
  ASSUME NEW P, BankInv(P), NEW m, NEW r, Land(m, r), r = Ok => receipt[m.key] = NoReceipt
  PROVE  /\ \A k \in Keys : receipt[k] # NoReceipt => receipt'[k] = receipt[k]
         /\ \A k \in Keys : \A p : Holds(k, p) => Holds(k, p)'
         /\ \A k \in Keys : \A p : Differs(k, p) => Differs(k, p)'
<1>1. ASSUME NEW k \in Keys, receipt[k] # NoReceipt PROVE receipt'[k] = receipt[k]
  <2>1. CASE r = Ok
    BY <1>1, <2>1 DEF Land, BankInv
  <2>2. CASE r # Ok
    BY <2>2 DEF Land, chain
  <2> QED
    BY <2>1, <2>2
<1> QED
  BY <1>1 DEF Holds, Differs

LEMMA LandTells ==
  ASSUME NEW P, NoReceipt \notin Receipts(P), Inv(P), NEW m \in inflight, NEW r, Land(m, r),
         r = Ok => receipt[m.key] = NoReceipt,
         r # Ok => ResultOK(m, r)
  PROVE  AnswerInv(P)'
<1>1. MessageOK(P, m) /\ m.key \in Keys /\ UNCHANGED <<pc, msg, status>>
  BY MessageTyped DEF Inv, BankInv, Land, client, loop
<1>2. landed' = landed \cup {[msg |-> m, result |-> r, slot |-> slot]}
  BY DEF Land, Executes
<1>3. /\ \A k \in Keys : \A p : Holds(k, p) => Holds(k, p)'
      /\ \A k \in Keys : \A p : Differs(k, p) => Differs(k, p)'
  BY ReceiptsStay DEF Inv
<1>4. ResultOK(m, r)'
  <2>1. CASE r = Ok
    <3> DEFINE new == [payload |-> m.payload, slot |-> slot]
    <3>1. receipt'[m.key] = new
      BY <1>1, <2>1 DEF Land, Inv, BankInv
    <3>2. new # NoReceipt
      BY <1>1, MessageTyped DEF Inv, BankInv, Receipts
    <3> QED
      BY <2>1, <3>1, <3>2 DEF ResultOK, Holds, Ok, IdempotencyConflict
  <2>2. CASE r # Ok
    BY <1>1, <1>3, <2>2 DEF ResultOK
  <2> QED
    BY <2>1, <2>2
<1>5. ASSUME NEW l \in landed PROVE ResultOK(l.msg, l.result)'
  <2>1. l.msg.key \in Keys /\ ResultOK(l.msg, l.result)
    BY MessageTyped DEF Inv, BankInv, AnswerInv
  <2> QED
    BY <1>3, <2>1 DEF ResultOK
<1>6. ASSUME NEW c \in Clients PROVE ToldOK(P, c)' /\ ReplayOK(P, c)'
  <2>1. KeyOf[c] \in Keys
    BY DEF Keys
  <2>2. (Consumed(P, c) => Consumed(P, c)') /\ (Conflicting(P, c) => Conflicting(P, c)')
    BY <1>3, <2>1 DEF Consumed, Conflicting
  <2>3. ToldOK(P, c) /\ ReplayOK(P, c)
    BY DEF Inv, AnswerInv
  <2>4. ToldOK(P, c)'
    BY <1>1, <2>2, <2>3 DEF ToldOK, Said
  <2>5. ASSUME pc[c] = "confirm", Len(status[c]) = 1, msg[c] = m PROVE r # Ok
    <3>1. m.key = KeyOf[c]
      BY <2>5 DEF Inv, LoopInv
    <3>2. receipt[m.key] # NoReceipt
      BY <2>3, <2>5, <3>1 DEF ReplayOK, Consumed, Holds
    <3> QED
      BY <3>2
  <2>6. ReplayOK(P, c)'
    BY <1>1, <1>2, <2>2, <2>3, <2>5 DEF ReplayOK, Said
  <2> QED
    BY <2>4, <2>6
<1> QED
  BY <1>1, <1>2, <1>4, <1>5, <1>6 DEF Inv, AnswerInv

\* One client's step, when the chain would answer its message truly.
LEMMA AnswerStep ==
  ASSUME NEW P, Inv(P), NEW c \in Clients, NEW results, ClientStep(P, c, results),
         pc[c] = "send" => \A r \in results : r # Ok => ResultOK(msg[c], r)
  PROVE  AnswerInv(P)'
<1>1. ASSUME NEW value, Begins(c, value) PROVE AnswerInv(P)'
  BY <1>1, GoesOn DEF Begins, cluster, chain, loop
<1>2. ASSUME NEW m, NEW next \in {"check", "send"}, Builds(c, m, next) PROVE AnswerInv(P)'
  <2>1. \A d \in Clients \ {c} : msg'[d] = msg[d]
    BY <1>2 DEF Builds, Inv, LoopInv
  <2> QED
    BY <1>2, <2>1, GoesOn DEF Builds, cluster, chain
<1>3. CASE Looks(P, c)
  <2>1. \A d \in Clients \ {c} : msg'[d] = msg[d]
    BY <1>3 DEF Looks, Inv, LoopInv
  <2> QED
    BY <1>3, <2>1, GoesOn DEF Looks, cluster, chain
<1>4. CASE Refuses(c) \/ ReadFails(c)
  <2>1. PICK why \in Refusals \cup {"rpc-error"} : Throw(c, why) /\ UNCHANGED <<cluster, chain>>
    BY <1>4 DEF Refuses, ReadFails
  <2>2. why \in Answers /\ why \notin {"committed", "duplicate-blocked", "conflict", "replay-not-blocked"}
    BY DEF Refusals, Answers
  <2> QED
    BY <2>1, <2>2, Says DEF Throw, loop, cluster, chain
<1>5. ASSUME NEW value, Reports(c, value) PROVE AnswerInv(P)'
  <2>1. Len(status[c]) = 2 /\ status[c][2] = "duplicate-blocked"
    BY <1>5 DEF Reports, Inv, AnswerInv, ReplayOK
  <2>2. /\ status' = [status EXCEPT ![c] = Append(@, "ok")]
        /\ pc' = [pc EXCEPT ![c] = "done"]
        /\ UNCHANGED <<cluster, chain, loop>>
    BY <1>5, <2>1 DEF Reports
  <2>3. UNCHANGED <<msg, landed, receipt>> /\ "ok" \in Answers /\ Len(status[c]) # 1
    BY <2>1, <2>2 DEF cluster, chain, loop, Answers
  <2> QED
    BY <2>2, <2>3, Says
<1>6. CASE Submit(c, results)
  BY <1>6, GoesOn DEF Submit, Forwards, chain, loop
<1>7. CASE PreflightFails(c, results)
  <2>1. pc[c] = "send" /\ UNCHANGED <<landed, receipt>>
    BY <1>7 DEF PreflightFails, cluster, chain
  <2>2. CASE Catch(c, Ambiguous)
    BY <2>1, <2>2, CatchTells DEF Ambiguous, AlreadyCommitted, IdempotencyConflict
  <2>3. ASSUME NEW r \in results \ {Ok}, Catch(c, r) PROVE AnswerInv(P)'
    <3>1. msg[c].key = KeyOf[c] /\ msg[c].payload = P[c]
      BY <2>1 DEF Inv, LoopInv
    <3>2. ResultOK(msg[c], r)
      BY <2>1, <2>3
    <3> QED
      BY <2>1, <2>3, <3>1, <3>2, CatchTells DEF ResultOK, Consumed, Conflicting
  <2> QED
    BY <1>7, <2>2, <2>3 DEF PreflightFails
<1>8. CASE SendFails(c)
  BY <1>8, CatchTells DEF SendFails, Forwards, cluster, chain, Ambiguous, AlreadyCommitted,
     IdempotencyConflict
<1>9. CASE BlockHeightExceeded(c) \/ ConnectionLost(c)
  BY <1>9, CatchTells DEF BlockHeightExceeded, ConnectionLost, cluster, chain, Ambiguous,
     AlreadyCommitted, IdempotencyConflict
<1>10. CASE Confirmed(c)
  <2>1. PICK l \in landed : /\ l.msg = msg[c]
                            /\ IF l.result = Ok THEN Return(c, "committed") ELSE Catch(c, l.result)
    BY <1>10 DEF Confirmed
  <2>2. pc[c] = "confirm" /\ UNCHANGED <<landed, receipt>>
    BY <1>10 DEF Confirmed, cluster, chain
  <2>3. ResultOK(l.msg, l.result) /\ l.msg.key = KeyOf[c] /\ l.msg.payload = P[c]
    BY <2>1, <2>2 DEF Inv, AnswerInv, LoopInv
  <2>4. CASE l.result = Ok
    <3>1. Return(c, "committed") /\ Consumed(P, c)
      BY <2>1, <2>3, <2>4 DEF ResultOK, Consumed
    <3>2. ReplayOK(P, c)
      BY DEF Inv, AnswerInv
    <3>3. Len(status[c]) = 0
      BY <2>1, <2>2, <2>4, <3>2 DEF ReplayOK
    <3>4. /\ status' = [status EXCEPT ![c] = Append(@, "committed")]
          /\ pc' = [pc EXCEPT ![c] = "build"] /\ UNCHANGED msg
      BY <3>1, <3>3 DEF Return
    <3>5. UNCHANGED <<msg, landed, receipt>> /\ "committed" \in Answers /\ Len(status[c]) # 1
      BY <2>2, <3>3, <3>4 DEF Answers
    <3> QED
      BY <3>1, <3>3, <3>4, <3>5, Says
  <2>5. CASE l.result # Ok
    BY <2>1, <2>2, <2>3, <2>5, CatchTells DEF ResultOK, Consumed, Conflicting
  <2> QED
    BY <2>4, <2>5
<1> QED
  BY <1>1, <1>2, <1>3, <1>4, <1>5, <1>6, <1>7, <1>8, <1>9, <1>10
     DEF ClientStep, Prepares, SendAndConfirm

-----------------------------------------------------------------------------
(* How one client moves *)

\* Only the client's own entries change.
LEMMA OthersRest ==
  ASSUME NEW P, Inv(P), NEW c \in Clients, NEW results, ClientStep(P, c, results),
         NEW d \in Clients \ {c}
  PROVE  /\ pc'[d] = pc[d] /\ msg'[d] = msg[d] /\ status'[d] = status[d]
         /\ before'[d] = before[d] /\ after'[d] = after[d]
<1>1. ASSUME NEW what, Return(c, what) \/ Throw(c, what)
      PROVE  UNCHANGED <<msg, reads>> /\ pc'[d] = pc[d] /\ status'[d] = status[d]
  BY <1>1 DEF Return, Throw, loop, Inv, LoopInv, AnswerInv
<1>2. ASSUME NEW result, Catch(c, result)
      PROVE  UNCHANGED <<msg, reads>> /\ pc'[d] = pc[d] /\ status'[d] = status[d]
  <2>1. CASE Rebuild(c)
    BY <2>1 DEF Rebuild, Inv, LoopInv
  <2> QED
    BY <1>1, <1>2, <2>1 DEF Catch
<1>3. CASE SendAndConfirm(c, results) \/ ConnectionLost(c)
  <2>1. CASE Submit(c, results)
    BY <2>1 DEF Submit, loop, reads, Inv, LoopInv
  <2>2. CASE ~Submit(c, results)
    <3>1. Return(c, "committed") \/ \E result : Catch(c, result)
      BY <1>3, <2>2 DEF SendAndConfirm, PreflightFails, SendFails, Confirmed, BlockHeightExceeded,
         ConnectionLost
    <3> QED
      BY <1>1, <1>2, <3>1 DEF reads
  <2> QED
    BY <2>1, <2>2
<1>4. CASE Refuses(c) \/ ReadFails(c)
  BY <1>1, <1>4 DEF Refuses, ReadFails, reads
<1>5. CASE Looks(P, c) \/ \E m, next : Builds(c, m, next)
  BY <1>5 DEF Looks, Builds, reads, Inv, LoopInv
<1>6. CASE \E value : Begins(c, value) \/ Reports(c, value)
  BY <1>6 DEF Begins, Reports, loop, Inv, LoopInv, AnswerInv
<1> QED
  BY <1>3, <1>4, <1>5, <1>6 DEF ClientStep, Prepares

\* A client changes nothing of the chain; what it hands over is its message.
LEMMA ClientHandsOver ==
  ASSUME NEW P, NEW c, NEW results, ClientStep(P, c, results)
  PROVE  /\ UNCHANGED <<slot, landed, receipt, performed>>
         /\ inflight' = inflight \/ (pc[c] = "send" /\ inflight' = inflight \cup {msg[c]})
BY DEF ClientStep, Prepares, Begins, Builds, Looks, Refuses, ReadFails, Reports, SendAndConfirm,
   Submit, PreflightFails, SendFails, Confirmed, BlockHeightExceeded, ConnectionLost, Forwards,
   cluster, chain

\* An attempt keeps its message, waits for it, or is over.
LEMMA AttemptShape ==
  ASSUME NEW P, Inv(P), NEW c \in Clients, NEW results,
         SendAndConfirm(c, results) \/ ConnectionLost(c)
  PROVE  /\ UNCHANGED <<msg, before, after>> /\ pc[c] \in {"send", "confirm"}
         /\ \/ pc'[c] \in {"build", "report", "done"}
            \/ pc'[c] = "confirm" /\ Submit(c, results) /\ UNCHANGED status
<1>1. pc[c] \in {"send", "confirm"}
  BY DEF SendAndConfirm, Submit, PreflightFails, SendFails, Confirmed, BlockHeightExceeded,
     ConnectionLost
<1>2. CASE Submit(c, results)
  BY <1>1, <1>2 DEF Submit, loop, reads, Inv, LoopInv
<1>3. CASE ~Submit(c, results)
  <2>1. Return(c, "committed") \/ \E result : Catch(c, result)
    BY <1>3 DEF SendAndConfirm, PreflightFails, SendFails, Confirmed, BlockHeightExceeded,
       ConnectionLost
  <2>2. (\E what : Return(c, what) \/ Throw(c, what)) \/ Rebuild(c)
    BY <2>1 DEF Catch
  <2>3. UNCHANGED <<msg, before, after>> /\ pc'[c] \in {"build", "report", "done"}
    BY <2>2 DEF Return, Throw, Rebuild, loop, reads, Inv, LoopInv
  <2> QED
    BY <1>1, <2>3
<1> QED
  BY <1>2, <1>3

\* What is said is said from then on, and only what is added is new.
LEMMA Adds ==
  ASSUME NEW P, Inv(P), NEW c \in Clients, NEW what \in Answers,
         status' = [status EXCEPT ![c] = Append(@, what)]
  PROVE  \A w : Said(c, w)' => what = w \/ Said(c, w)
<1>1. status'[c] = Append(status[c], what) /\ status[c] \in Seq(Answers)
  BY DEF Inv, AnswerInv, ToldOK
<1> QED
  BY <1>1, AppendFacts DEF Said

\* The ends of a call: what it says follows from the result that it caught.
LEMMA CatchSays ==
  ASSUME NEW P, Inv(P), NEW c \in Clients, NEW result, Catch(c, result)
  PROVE  /\ Said(c, "committed")' => Said(c, "committed")
         /\ Said(c, "rejected")' /\ ~Said(c, "rejected") =>
              /\ result # Ambiguous
              /\ result.code \notin {AlreadyCommitted, IdempotencyConflict}
<1>1. CASE Rebuild(c)
  BY <1>1 DEF Rebuild, Said
<1>2. CASE ~Rebuild(c)
  <2>1. PICK what \in {"duplicate-blocked", "conflict", "gave-up", "rejected"} :
          /\ status' = [status EXCEPT ![c] = Append(@, what)]
          /\ what = "rejected" =>
               /\ result # Ambiguous
               /\ result.code \notin {AlreadyCommitted, IdempotencyConflict}
    <3>1. CASE result.code = AlreadyCommitted
      BY <3>1 DEF Catch, Classify, Return, AlreadyCommitted, IdempotencyConflict
    <3>2. CASE result.code = IdempotencyConflict
      BY <3>2 DEF Catch, Classify, Throw, AlreadyCommitted, IdempotencyConflict
    <3>3. CASE result.code \notin {AlreadyCommitted, IdempotencyConflict}
      <4>1. Throw(c, LastFailure(result))
        BY <1>2, <3>3 DEF Catch, Classify
      <4> QED
        BY <3>3, <4>1 DEF Throw, LastFailure
    <3> QED
      BY <3>1, <3>2, <3>3
  <2>2. what \in Answers
    BY DEF Answers
  <2> QED
    BY <2>1, <2>2, Adds
<1> QED
  BY <1>1, <1>2

\* A call says "committed" when its message's success has been seen, and a process ends with
\* "rejected" when preflight or the chain has refused its last message for the business.
LEMMA SaysWhy ==
  ASSUME NEW P, Inv(P), NEW c \in Clients, NEW results, ClientStep(P, c, results)
  PROVE  /\ Said(c, "committed")' /\ ~Said(c, "committed") =>
              pc[c] = "confirm" /\ \E l \in landed : l.msg = msg[c] /\ l.result = Ok
         /\ Said(c, "rejected")' /\ ~Said(c, "rejected") =>
              \E r : /\ r \notin {Ok, Ambiguous}
                     /\ r.code \notin {AlreadyCommitted, IdempotencyConflict}
                     /\ \/ pc[c] = "send" /\ r \in results
                        \/ pc[c] = "confirm" /\ \E l \in landed : l.msg = msg[c] /\ l.result = r
<1>1. CASE Submit(c, results) \/ Looks(P, c)
           \/ \E value, m, next : Begins(c, value) \/ Builds(c, m, next)
  <2>1. UNCHANGED status
    BY <1>1 DEF Submit, Looks, Begins, Builds
  <2> QED
    BY <2>1 DEF Said
<1>2. CASE Refuses(c) \/ ReadFails(c)
  <2>1. PICK why \in Refusals \cup {"rpc-error"} : Throw(c, why)
    BY <1>2 DEF Refuses, ReadFails
  <2>2. why \in Answers /\ why \notin {"committed", "rejected"}
    BY DEF Refusals, Answers
  <2> QED
    BY <2>1, <2>2, Adds DEF Throw
<1>3. CASE \E value : Reports(c, value)
  <2>1. PICK what \in {"ok", "replay-not-blocked"} : status' = [status EXCEPT ![c] = Append(@, what)]
    BY <1>3 DEF Reports
  <2>2. what \in Answers
    BY DEF Answers
  <2> QED
    BY <2>1, <2>2, Adds
<1>4. CASE SendFails(c) \/ BlockHeightExceeded(c) \/ ConnectionLost(c)
  BY <1>4, CatchSays DEF SendFails, BlockHeightExceeded, ConnectionLost
<1>5. CASE PreflightFails(c, results)
  <2>1. CASE Catch(c, Ambiguous)
    BY <2>1, CatchSays
  <2>2. ASSUME NEW r \in results \ {Ok}, Catch(c, r)
        PROVE  /\ Said(c, "committed")' => Said(c, "committed")
               /\ Said(c, "rejected")' /\ ~Said(c, "rejected") =>
                    r # Ambiguous /\ r.code \notin {AlreadyCommitted, IdempotencyConflict}
    BY <2>2, CatchSays
  <2>3. pc[c] = "send" /\ (Catch(c, Ambiguous) \/ \E r \in results \ {Ok} : Catch(c, r))
    BY <1>5 DEF PreflightFails
  <2> QED
    BY <2>1, <2>2, <2>3
<1>6. CASE Confirmed(c)
  <2>1. PICK l \in landed : /\ l.msg = msg[c]
                            /\ IF l.result = Ok THEN Return(c, "committed") ELSE Catch(c, l.result)
    BY <1>6 DEF Confirmed
  <2>2. pc[c] = "confirm"
    BY <1>6 DEF Confirmed
  <2>3. CASE l.result = Ok
    <3>1. status' = [status EXCEPT ![c] = Append(@, "committed")] /\ "committed" \in Answers
      BY <2>1, <2>3 DEF Return, Answers
    <3>2. Said(c, "rejected")' => Said(c, "rejected")
      BY <3>1, Adds
    <3> QED
      BY <2>1, <2>2, <2>3, <3>2
  <2>4. CASE l.result # Ok
    <3>1. /\ Said(c, "committed")' => Said(c, "committed")
          /\ Said(c, "rejected")' /\ ~Said(c, "rejected") =>
               /\ l.result # Ambiguous
               /\ l.result.code \notin {AlreadyCommitted, IdempotencyConflict}
      BY <2>1, <2>4, CatchSays
    <3> QED
      BY <2>1, <2>2, <2>4, <3>1
  <2> QED
    BY <2>3, <2>4
<1> QED
  BY <1>1, <1>2, <1>3, <1>4, <1>5, <1>6 DEF ClientStep, Prepares, SendAndConfirm

-----------------------------------------------------------------------------
(* Counting what has been performed *)

ConsumedKeys == {k \in Keys : receipt[k] # NoReceipt}

CountInv == IsFiniteSet(performed) /\ Cardinality(performed) = Cardinality(ConsumedKeys)

LEMMA KeysFinite ==
  ASSUME IsFiniteSet(Clients)
  PROVE  /\ IsFiniteSet(Keys) /\ Cardinality(Keys) \in Nat
         /\ IsFiniteSet(ConsumedKeys) /\ Cardinality(ConsumedKeys) \in Nat
         /\ Cardinality(ConsumedKeys) <= Cardinality(Keys)
<1>1. IsFiniteSet(Keys)
  <2> DEFINE f == [c \in Clients |-> KeyOf[c]]
  <2>1. f \in Surjection(Clients, Keys)
    BY DEF Surjection, Keys
  <2> QED
    BY <2>1, FS_Surjection
<1> QED
  BY <1>1, FS_Subset, FS_CardinalityType DEF ConsumedKeys

LEMMA CountInit ==
  ASSUME RetryInit
  PROVE  CountInv /\ ConsumedKeys = {}
<1>1. performed = {} /\ ConsumedKeys = {}
  BY DEF RetryInit, ConsumedKeys
<1> QED
  BY <1>1, FS_EmptySet DEF CountInv

LEMMA CountRests ==
  ASSUME UNCHANGED <<receipt, performed>>
  PROVE  ConsumedKeys' = ConsumedKeys /\ (CountInv => CountInv')
<1>1. ConsumedKeys' = ConsumedKeys
  BY DEF ConsumedKeys
<1> QED
  BY <1>1 DEF CountInv

\* Every success consumes one more key and performs one more action.
LEMMA LandCounts ==
  ASSUME NEW P, NoReceipt \notin Receipts(P), IsFiniteSet(Clients), BankInv(P), CountInv,
         NEW m \in inflight, NEW r, Land(m, r), r = Ok => receipt[m.key] = NoReceipt
  PROVE  /\ CountInv'
         /\ r = Ok => /\ Cardinality(ConsumedKeys)' = Cardinality(ConsumedKeys) + 1
                      /\ Cardinality(performed)' = Cardinality(performed) + 1
         /\ r # Ok => UNCHANGED <<receipt, performed, ConsumedKeys>>
<1>1. CASE r # Ok
  <2>1. UNCHANGED <<receipt, performed>>
    BY <1>1 DEF Land, chain
  <2> QED
    BY <1>1, <2>1, CountRests
<1>2. CASE r = Ok
  <2> DEFINE new == [payload |-> m.payload, slot |-> slot]
             e == [msg |-> m, slot |-> slot]
  <2>1. receipt' = [receipt EXCEPT ![m.key] = new] /\ performed' = performed \cup {e}
    BY <1>2 DEF Land
  <2>2. m.key \in Keys /\ new # NoReceipt /\ DOMAIN receipt = Keys
    BY MessageTyped DEF BankInv, Receipts
  <2>3. m.key \notin ConsumedKeys /\ ConsumedKeys' = ConsumedKeys \cup {m.key}
    BY <1>2, <2>1, <2>2 DEF ConsumedKeys
  <2>4. e \notin performed
    <3>1. PerformedFor(m.key) = {}
      BY <1>2, <2>2 DEF BankInv, KeyOK
    <3> QED
      BY <3>1 DEF PerformedFor
  <2>5. Cardinality(ConsumedKeys)' = Cardinality(ConsumedKeys) + 1
    BY <2>3, KeysFinite, FS_AddElement
  <2>6. IsFiniteSet(performed') /\ Cardinality(performed)' = Cardinality(performed) + 1
    BY <2>1, <2>4, FS_AddElement DEF CountInv
  <2> QED
    BY <1>2, <2>5, <2>6 DEF CountInv
<1> QED
  BY <1>1, <1>2
=============================================================================
