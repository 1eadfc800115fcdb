------------------------------- MODULE ABDemo -------------------------------
(***************************************************************************)
(* apps/demo/commitonce-demo.ts: one intent sent twice without the guard   *)
(* (scenario A) and twice with it (scenario B), under fresh authorities,   *)
(* and the exit code that says whether the chain did what the demo claims. *)
(* External: the increments, which may also fail for reasons of their own. *)
(***************************************************************************)
EXTENDS Transport

CONSTANT None

VARIABLES
  step,          \* Where main stands in its script
  previous       \* The blockhash of the scenario's last attempt

demo == <<step, previous>>
vars == <<net, demo>>

\* main, runScenario: the funding, then for each scenario its counter and two attempts.
Step(kind, scenario, attempt) == [kind |-> kind, scenario |-> scenario, attempt |-> attempt]
Script ==
  <<Step("fund", "A", 0),
    Step("setup", "A", 0), Step("attempt", "A", 1), Step("attempt", "A", 2),
    Step("setup", "B", 0), Step("attempt", "B", 1), Step("attempt", "B", 2)>>
Now == Script[step]
Message(v) ==
  [recent |-> v, kind |-> Now.kind, scenario |-> Now.scenario, attempt |-> Now.attempt]

-----------------------------------------------------------------------------
(* The programs *)

Done(kind, s, upto) ==
  {l \in Seen(upto) : l.result = Ok /\ l.msg.kind = kind /\ l.msg.scenario = s}
Counter(s, upto) == Cardinality(Done("attempt", s, upto))
Receipt(upto) == Counter("B", upto) > 0

\* An attempt of scenario B carries the guard.
Results(m) ==
  IF m.kind = "attempt" /\ m.scenario = "B" /\ Receipt(slot)
  THEN {ClaimError(AlreadyCommitted)}
  ELSE {Ok, BusinessError(1)}

-----------------------------------------------------------------------------
(* The script *)

Init ==
  /\ TransportInit
  /\ step = 1 /\ previous = None

\* The setup transactions take any blockhash, a scenario's second attempt a new one.
Fetch ==
  /\ FetchFreshBlockhash(previous, [v \in Views |-> <<Message(v)>>])
  /\ previous' = IF pc' = "send" /\ Now.kind = "attempt" THEN signed'[1].recent ELSE previous
  /\ UNCHANGED step

Fails == Ends(1) /\ UNCHANGED demo

Kind(result) ==
  CASE ~result.failed -> "success"
    [] result.error.code = AlreadyCommitted -> "already-committed"
    [] OTHER -> "unexpected"

\* Mutant: an attempt is printed but not judged.
ExpectedAnything == Kind(results[1])
Expected == IF Now.scenario = "B" /\ Now.attempt = 2 THEN "already-committed" ELSE "success"
ExpectedFinal(s) == IF s = "A" THEN 2 ELSE 1

\* Funding and counter: a failure ends the run.
SetupReturned ==
  /\ pc = "returned" /\ Now.kind # "attempt"
  /\ \/ results[1].failed /\ Fails
     \/ /\ ~results[1].failed
        /\ pc' = "blockhash" /\ step' = step + 1 /\ previous' = None
        /\ UNCHANGED <<cluster, confirmed, exit, submission>>

\* Each attempt is followed by a read of the counter and judged.
AttemptReturned ==
  /\ pc = "returned" /\ Now.kind = "attempt"
  /\ \E v \in Views :
       IF Done("setup", Now.scenario, v) = {} \/ Kind(results[1]) # Expected
       THEN Fails
       ELSE /\ pc' = IF Now.attempt = 1 THEN "blockhash" ELSE "final"
            /\ step' = step + (IF Now.attempt = 1 THEN 1 ELSE 0)
            /\ UNCHANGED <<cluster, confirmed, exit, submission, previous>>

\* The last reads of a scenario: the counter, and for B the receipt.
FinalReadPasses(s, v) == Counter(s, v) = ExpectedFinal(s)

FinalReads ==
  /\ pc = "final"
  /\ \E v, w \in Views :
       IF ~FinalReadPasses(Now.scenario, v) \/ (Now.scenario = "B" /\ ~Receipt(w))
       THEN Fails
       ELSE IF step = Len(Script)
            THEN Ends(0) /\ UNCHANGED demo
            ELSE /\ pc' = "blockhash" /\ step' = step + 1 /\ previous' = None
                 /\ UNCHANGED <<cluster, confirmed, exit, submission>>

\* Bad arguments, no payer or too little in it: exit 2 before anything is signed.
Refused ==
  /\ pc = "blockhash" /\ step = 1 /\ polls = 0
  /\ Ends(2) /\ UNCHANGED demo

Main ==
  \/ Fetch
  \/ SameBlockhash(previous, 1) /\ UNCHANGED demo
  \/ Submits(1) /\ UNCHANGED demo
  \/ SetupReturned \/ AttemptReturned \/ FinalReads

Next ==
  \/ NextSlot /\ UNCHANGED demo
  \/ Confirms /\ UNCHANGED demo
  \/ Forks /\ UNCHANGED demo
  \/ \E m \in inflight : \E r \in Results(m) : Lands(m, r) /\ UNCHANGED demo
  \/ Main \/ Refused
  \/ RequestFails(1) /\ UNCHANGED demo

Spec == Init /\ [][Next]_vars

-----------------------------------------------------------------------------
(* Properties *)

\* commitonce-demo:618-619, "The demo will not report success on a counter it did not
\* observe". Exit 0 means that the chain holds, for good, both increments of A, one of
\* B, and B's second attempt refused by the guard, although nodes lag and blocks are
\* abandoned while it runs.
ExitZeroIsTrue ==
  exit = 0 =>
    /\ Counter("A", confirmed) = 2 /\ Counter("B", confirmed) = 1
    /\ \E l \in Seen(confirmed) :
         /\ l.msg.scenario = "B" /\ l.msg.attempt = 2
         /\ l.result = ClaimError(AlreadyCommitted)

\* commitonce-demo:31-32. Scenario B's increment runs at most once however the run ends:
\* resent, given up on, or landing after main has exited.
GuardedOnce == Counter("B", slot) <= 1

\* solana.ts:162-167. The two attempts of a scenario never share a blockhash, so the
\* network cannot connect them.
AttemptsDiffer ==
  \A m1, m2 \in inflight :
    m1.kind = "attempt" /\ m2.kind = "attempt" /\ m1.scenario = m2.scenario /\ m1 # m2
    => m1.recent # m2.recent
=============================================================================
