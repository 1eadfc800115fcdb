------------------------------- MODULE MCDemos -------------------------------
(***************************************************************************)
(* The four scripts of apps/demo that submit transactions.  They are       *)
(* separate programs that run one at a time against a cluster of their     *)
(* own: an instance is one of them, and the variables of the others rest.  *)
(***************************************************************************)
EXTENDS Integers

CONSTANTS
  Idle,                                       \* No blockhash, no nonce, and what a script does not use
  Attempts,                                   \* --attempts
  ABRequests, RaceRequests, SEND_ATTEMPTS,    \* Tries of a request, and of a rate-limited call
  MAX_POLLS, MAX_READS, MAX_CLOSES,           \* Tries of a wait
  RETENTION, SLOTS_PER_TICK,
  MAX_PROCESSING_AGE, MAX_LAG, MAX_UNCONFIRMED,
  ABSlots, RaceSlots, LifecycleSlots, PolicySlots, MaxUnix    \* Bounds of the runs

\* concurrent-claim.ts:136 takes 2 to 20 attempts.
ASSUME DemosAssumption ==
  /\ Attempts \in Nat /\ Attempts >= 2
  /\ MAX_PROCESSING_AGE \in Nat \ {0}
  /\ {ABSlots, RaceSlots, LifecycleSlots, PolicySlots} \subseteq Nat

VARIABLES
  file,                                             \* Which script runs
  slot, inflight, landed, pc, exit, polls,
  confirmed, signed, sending, errors, results,      \* Transport
  step, previous,                                   \* ABDemo
  before, verdict,                                  \* Contention
  unix, receipt, lamports, deadline, close, why,    \* ReceiptLifecycle
  nonce, answers                                    \* NoncePolicy

shared == <<slot, inflight, landed, pc, exit, polls>>
transport == <<confirmed, signed, sending, errors, results>>
ab == <<step, previous>>
race == <<before, verdict>>
lifecycle == <<unix, receipt, lamports, deadline, close, why>>
policy == <<nonce, answers>>
vars == <<file, shared, transport, ab, race, lifecycle, policy>>

AB == INSTANCE ABDemo WITH None <- Idle, RPC_ATTEMPTS <- ABRequests, MaxSlot <- ABSlots
Race == INSTANCE Contention WITH None <- Idle, RPC_ATTEMPTS <- RaceRequests, MaxSlot <- RaceSlots
Lifecycle == INSTANCE ReceiptLifecycle WITH MaxSlot <- LifecycleSlots
Policy == INSTANCE NoncePolicy WITH None <- Idle, MaxSlot <- PolicySlots

NoTransport ==
  confirmed = Idle /\ signed = Idle /\ sending = Idle /\ errors = Idle /\ results = Idle
NoLifecycle ==
  unix = Idle /\ receipt = Idle /\ lamports = Idle /\ deadline = Idle /\ close = Idle /\ why = Idle
NoPolicy == nonce = Idle /\ answers = Idle

Init ==
  \/ /\ file = "commitonce-demo" /\ AB!Init
     /\ before = Idle /\ verdict = Idle /\ NoLifecycle /\ NoPolicy
  \/ /\ file = "concurrent-claim" /\ Race!Init
     /\ previous = Idle /\ NoLifecycle /\ NoPolicy
  \/ /\ file = "receipt-lifecycle" /\ Lifecycle!Init
     /\ NoTransport /\ step = Idle /\ previous = Idle /\ before = Idle /\ NoPolicy
  \/ /\ file = "nonce-policy" /\ Policy!Init
     /\ NoTransport /\ step = Idle /\ previous = Idle /\ before = Idle /\ verdict = Idle /\ NoLifecycle

Runs(name, others) == file = name /\ UNCHANGED <<file, others>>
RunsAB == Runs("commitonce-demo", <<race, lifecycle, policy>>)
RunsRace == Runs("concurrent-claim", <<previous, lifecycle, policy>>)
RunsLifecycle == Runs("receipt-lifecycle", <<transport, ab, before, policy>>)
RunsPolicy == Runs("nonce-policy", <<transport, ab, race, lifecycle>>)

Next ==
  \/ RunsAB /\ AB!Next
  \/ RunsRace /\ Race!Next
  \/ RunsLifecycle /\ Lifecycle!Next
  \/ RunsPolicy /\ Policy!Next

\* Node.js runs what the script waits for, and every wait that it sets has an end.
Main ==
  \/ RunsAB /\ AB!Main
  \/ RunsRace /\ Race!Main
  \/ RunsLifecycle /\ Lifecycle!Main
  \/ RunsPolicy /\ Policy!Main

\* Time passes for the script that waits for a deadline.
Tick == RunsLifecycle /\ Lifecycle!Tick

Spec == Init /\ [][Next]_vars /\ WF_vars(Main) /\ WF_vars(Tick)

-----------------------------------------------------------------------------
(* What the scripts have in common                                         *)

\* commitonce-demo:618-619, concurrent-claim:440-444 and 25-28, receipt-lifecycle:246. What a
\* script concludes is true of the confirmed chain, for good: exit 0 of the comparison, the
\* verdict of the race and what is said of its slots, and VERIFIED of a refund.
ConclusionsAreTrue ==
  /\ file = "commitonce-demo" => AB!ExitZeroIsTrue
  /\ file = "concurrent-claim" => Race!HoldsIsTrue /\ Race!RaceIsTrue
  /\ file = "receipt-lifecycle" => Lifecycle!VerifiedIsTrue

\* commitonce-demo:31-32, concurrent-claim:20-21. The guarded increment runs at most once,
\* however the run ends, in whatever order and fork its attempts land.
GuardedOnce ==
  /\ file = "commitonce-demo" => AB!GuardedOnce
  /\ file = "concurrent-claim" => Race!OneCommits

\* solana.ts:162-167. The two attempts of a scenario never share a blockhash.
AttemptsDiffer == file = "commitonce-demo" => AB!AttemptsDiffer

\* solana.ts:235-239. What a submission returned is confirmed and stays so.
ResultsAreFinal ==
  /\ file = "commitonce-demo" => AB!ResultsAreFinal
  /\ file = "concurrent-claim" => Race!ResultsAreFinal

\* solana.ts:178, 266, receipt-lifecycle:54. Every wait has an end: the scripts exit,
\* whatever the cluster does or does not do.
EveryRunEnds == <>(exit # AB!Running)

\* apps/demo/README.md:93-94. The script "waits for both deadlines to pass, then closes the
\* receipt": once it holds a receipt it does not end by an error of its own.
ClosesWhatItClaimed == file = "receipt-lifecycle" => Lifecycle!ClosesWhatItClaimed
=============================================================================
