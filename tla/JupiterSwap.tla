----------------------------- MODULE JupiterSwap -----------------------------
(***************************************************************************)
(* examples/jupiter-swap: the guard in front of a transaction that a swap  *)
(* API has built.  Each process has its own quote of the same intent.  A   *)
(* dry run composes and reports, and submits nothing.                      *)
(* External: the quotes, the swap program, the runtime's duplicate check.  *)
(***************************************************************************)
EXTENDS GuardedRetry, SequencesExt

CONSTANTS
  Quotes,        \* Supplied transactions: [ixs, feePayer, lifetime]
  Sizes,         \* Wire sizes that a composed transaction may have
  TX_LIMIT       \* 1232 bytes

VARIABLES
  swap,          \* The transaction supplied to each process
  dryRun,        \* DRY_RUN of each process
  printed        \* What a dry run printed about the composed size

input == <<swap, dryRun>>
vars == <<cluster, chain, client, input, printed>>

Init ==
  /\ RetryInit
  /\ swap \in [Clients -> Quotes]
  /\ dryRun \in [Clients -> BOOLEAN]
  /\ printed = [c \in Clients |-> [size |-> 0, said |-> {}]]

hasComputeBudgetInstruction(ixs, tag) == Contains(ixs, tag)

\* Mutant: the price instruction is added to whatever was supplied.
PrependBlindly(c) == <<"price", "guard">> \o swap[c].ixs
\* The supplied instructions unchanged, the guard in front of them, and a price only
\* if none was supplied.
buildGuardedMessage(c) ==
  LET guarded == <<"guard">> \o swap[c].ixs
  IN IF hasComputeBudgetInstruction(swap[c].ixs, "price") THEN guarded ELSE <<"price">> \o guarded

\* The runtime refuses two ComputeBudget instructions of a kind.
Sanitized(m) == Cardinality({i \in DOMAIN m.ixs : m.ixs[i] = "price"}) <= 1
Results(m) ==
  IF Sanitized(m) THEN GuardedResults(m, {Ok, BusinessError(1)}) ELSE {Ambiguous}

-----------------------------------------------------------------------------
(* The client *)

\* decodeSwapTransaction refuses a durable nonce; main then submits or dry-runs.
Begin(c) ==
  \/ swap[c].lifetime = "blockhash" /\ Begins(c, 0)
  \/ /\ pc[c] = "main" /\ swap[c].lifetime = "nonce"
     /\ Throw(c, "durable-nonce") /\ UNCHANGED <<cluster, chain>>

\* The request's mints, amount, slippage and order; nothing of the quote.
Fingerprint(c) == <<IntentOf[c], 0>>

\* The attempt's fee is in the message only where this example sets the price.
Build(c) ==
  /\ ~dryRun[c]
  /\ swap[c].feePayer = "authority"
  /\ Builds(c,
       [key |-> KeyOf[c], payload |-> Fingerprint(c), recent |-> slot,
        fee |-> IF hasComputeBudgetInstruction(swap[c].ixs, "price") THEN 0 ELSE fee[c],
        ixs |-> buildGuardedMessage(c)], "send")

WrongFeePayer(c) ==
  /\ pc[c] = "build" /\ swap[c].feePayer # "authority"
  /\ Throw(c, "fee-payer")
  /\ UNCHANGED <<cluster, chain>>

\* The estimate that a dry run prints: three quarters of the padded base64 length.
wireBytes(size) == (((size + 2) \div 3) * 4 * 3) \div 4

Over(size) == TX_LIMIT - wireBytes(size) < 0

\* What is said of the size. The closing lines say that it fits even below the warning.
SaidOf(size) == {"fits"} \cup (IF Over(size) THEN {"OVER"} ELSE {})

DryRun(c) ==
  /\ pc[c] = "build" /\ dryRun[c] /\ swap[c].feePayer = "authority"
  /\ \E size \in Sizes :
       printed' = [printed EXCEPT ![c] = [size |-> size, said |-> SaidOf(size)]]
  /\ Throw(c, "dry-run")
  /\ UNCHANGED <<cluster, chain>>

Attempt(c) == SendAndConfirm(c, Results(msg[c]))
Report(c) == Reports(c, 0)

Progress(c) ==
  Begin(c) \/ Build(c) \/ WrongFeePayer(c) \/ ReadFails(c) \/ Attempt(c) \/ Report(c)

Next ==
  \/ NextSlot /\ UNCHANGED <<input, printed>>
  \/ \E m \in inflight : \E r \in Results(m) : Land(m, r) /\ UNCHANGED <<input, printed>>
  \/ \E c \in Clients : (Progress(c) \/ ConnectionLost(c)) /\ UNCHANGED <<input, printed>>
  \/ \E c \in Clients : DryRun(c) /\ UNCHANGED input

Spec == Init /\ [][Next]_vars

-----------------------------------------------------------------------------
(* Properties *)

\* jupiter-swap:408-415. The supplied instructions keep their order and contents, the
\* guard runs before every instruction that is not a compute budget one, and what is
\* submitted is never refused for a second price.
ComposedWell ==
  \A m \in inflight :
    /\ Sanitized(m)
    /\ \E c \in Clients : IsSuffix(swap[c].ixs, m.ixs)
    /\ \A i \in DOMAIN m.ixs : m.ixs[i] \notin {"price", "limit", "guard"} =>
         \E j \in 1 .. i - 1 : m.ixs[j] = "guard"

\* jupiter-swap:629-634. Another quote of the same request is the same intent: it is
\* never reported as a conflict, however many quotes are retried.
RequoteIsSameIntent == \A c \in Clients : ~Said(c, "conflict")

\* jupiter-swap:721-722, 745-750. The dry run's size "is the number that decides whether the
\* integration works": although it is an estimate, no transaction that the cluster would refuse
\* goes without the warning that it "would be rejected". Nothing is said of the closing lines,
\* which state that it fits whatever the size.
OversizeIsReported == \A c \in Clients : printed[c].size > TX_LIMIT => "OVER" \in printed[c].said
=============================================================================
