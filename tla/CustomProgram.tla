---------------------------- MODULE CustomProgram ----------------------------
(***************************************************************************)
(* examples/custom-program: a guarded increment of demo_counter.  Whether  *)
(* the counter must be created is read once, before the first attempt, and *)
(* every attempt of phase 1 relies on it.  Other transactions of the same  *)
(* owner increment the counter too.                                        *)
(* External: demo_counter's initialize and increment behind the guard.     *)
(***************************************************************************)
EXTENDS GuardedRetry

CONSTANT MaxOthers       \* Bound: increments by other transactions

VARIABLES
  counter,         \* The count, or Unread while the account does not exist
  others           \* History: increments by other transactions

vars == <<cluster, chain, client, counter, others>>

Init ==
  /\ RetryInit
  /\ counter \in {Unread, 0}
  /\ others = 0

\* initialize fails if the account exists, increment if it does not.
AlreadyInUse == BusinessError(0)
NotInitialized == BusinessError(3012)
Business(m) ==
  CASE m.initialize /\ counter # Unread -> {AlreadyInUse}
    [] ~m.initialize /\ counter = Unread -> {NotInitialized}
    [] OTHER -> {Ok}

Results(m) == GuardedResults(m, Business(m))

LandIncrement(m, r) ==
  /\ Land(m, r)
  /\ counter' = IF r = Ok THEN (IF m.initialize THEN 1 ELSE counter + 1) ELSE counter
  /\ UNCHANGED others

OtherIncrement ==
  /\ counter # Unread /\ others < MaxOthers
  /\ counter' = counter + 1
  /\ others' = others + 1
  /\ UNCHANGED <<cluster, chain, client>>

-----------------------------------------------------------------------------
(* The client *)

\* readCount before and after; the first one decides about initialize.
Begin(c) == Begins(c, counter)
needsInitialize(c) == before[c] = Unread

\* Mutant: the fingerprint contains the count that was read.
FingerprintWithCount(c) == <<IntentOf[c], before[c]>>
\* The program, the counter and the order; not the counter's current value.
Fingerprint(c) == <<IntentOf[c], 0>>

\* Phase 2 expects the counter to exist.
Build(c) ==
  Builds(c, [key |-> KeyOf[c], payload |-> Fingerprint(c), recent |-> slot, fee |-> fee[c],
             initialize |-> needsInitialize(c) /\ Len(status[c]) = 0], "send")

Attempt(c) == SendAndConfirm(c, Results(msg[c]))
Report(c) == Reports(c, counter)

Progress(c) == Begin(c) \/ Build(c) \/ ReadFails(c) \/ Attempt(c) \/ Report(c)

Next ==
  \/ NextSlot /\ UNCHANGED <<counter, others>>
  \/ \E m \in inflight : \E r \in Results(m) : LandIncrement(m, r)
  \/ OtherIncrement
  \/ \E c \in Clients : (Progress(c) \/ ConnectionLost(c)) /\ UNCHANGED <<counter, others>>

Spec == Init /\ [][Next]_vars

-----------------------------------------------------------------------------
(* Properties *)

\* The run's intents differ in nothing that a retry may change.
NoFalseConflict ==
  \A c \in Clients : Said(c, "conflict") =>
    \E d \in Clients : KeyOf[d] = KeyOf[c] /\ IntentOf[d] # IntentOf[c]

\* custom-program:343-346. Because the guard is in front of initialize, a duplicate is
\* never told that the account is in use: that answer means the key was still free.
InitializeNeverMasksGuard ==
  \A l \in landed : l.result.ix = "business" =>
    \A e \in PerformedFor(l.msg.key) : e.slot >= l.slot

\* custom-program:476. A snapshot that has become stale is harmless: once one attempt
\* has found the counter in use, no attempt of that process ever runs, now or later, so
\* an order that gave up on it may be submitted anew.
StaleSnapshotIsHarmless ==
  \A c \in Clients :
    (Said(c, "rejected") /\ \A d \in Clients \ {c} : KeyOf[d] # KeyOf[c])
    => receipt[KeyOf[c]] = NoReceipt

\* custom-program:571-574, "(one, not two)". The counter holds exactly the guarded
\* increments that were performed, once per key, and those of other transactions.
CountIsExact ==
  counter # Unread =>
    counter = others + Cardinality({k \in Keys : receipt[k] # NoReceipt})
=============================================================================
