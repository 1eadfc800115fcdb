----------------------------- MODULE Contention -----------------------------
(***************************************************************************)
(* apps/demo/concurrent-claim.ts: several transactions with one key, built *)
(* on one blockhash and sent at once, and the verdict over what the chain  *)
(* did with them.                                                          *)
(* External: the increments, which may also fail for reasons of their own. *)
(***************************************************************************)
EXTENDS Transport

CONSTANTS
  Attempts,      \* --attempts
  None

VARIABLES
  step,          \* What main submits next
  before,        \* The counter before the attempts
  verdict        \* What main printed

demo == <<step, before, verdict>>
vars == <<net, demo>>

-----------------------------------------------------------------------------
(* The programs *)

Committed(upto) == {l \in Seen(upto) : l.msg.kind = "attempt" /\ l.result = Ok}
Counter(upto) == Cardinality(Committed(upto))
Initialized(upto) == \E l \in Seen(upto) : l.msg.kind = "init" /\ l.result = Ok

\* Mutant: the guard is not in front of the increment.
Unguarded(m) == {Ok, BusinessError(1)}
Results(m) ==
  IF m.kind = "attempt" /\ Committed(slot) # {}
  THEN {ClaimError(AlreadyCommitted)}
  ELSE {Ok, BusinessError(1)}

-----------------------------------------------------------------------------
(* The script *)

Init ==
  /\ TransportInit
  /\ step = "fund" /\ before = Unknown /\ verdict = {}

\* The attempts differ in their fee only, all other submissions are single.
Messages(v) ==
  IF step = "attempt"
  THEN [i \in 1 .. Attempts |-> [kind |-> step, recent |-> v, fee |-> i]]
  ELSE <<[kind |-> step, recent |-> v, fee |-> 0]>>

Fetch == FetchFreshBlockhash(None, [v \in Views |-> Messages(v)]) /\ UNCHANGED demo

Goes(to) == pc' = to /\ UNCHANGED <<cluster, confirmed, exit, submission>>

SetupReturned ==
  /\ pc = "returned" /\ step \in {"fund", "init"}
  /\ IF results[1].failed
     THEN Ends(2) /\ UNCHANGED demo
     ELSE /\ Goes(IF step = "fund" THEN "blockhash" ELSE "before")
          /\ step' = IF step = "fund" THEN "init" ELSE step
          /\ UNCHANGED <<before, verdict>>

ReadBefore ==
  /\ pc = "before"
  /\ \E v \in Views :
       IF ~Initialized(v)
       THEN Ends(2) /\ UNCHANGED demo
       ELSE /\ Goes("blockhash")
            /\ step' = "attempt" /\ before' = Counter(v)
            /\ UNCHANGED verdict

Succeeded == {i \in DOMAIN results : ~results[i].failed}
Blocked == {i \in DOMAIN results : results[i].failed /\ results[i].error.code = AlreadyCommitted}
Slots == {results[i].slot : i \in DOMAIN results}

Holds(delta) ==
  Cardinality(Succeeded) = 1 /\ Cardinality(Blocked) = Len(results) - 1 /\ delta = 1

\* The report, with a read of the counter, the verdict and the exit of a violation.
Verdict ==
  /\ pc = "returned" /\ step = "attempt"
  /\ \E v \in Views :
       LET after == IF Initialized(v) THEN Counter(v) ELSE 0
           race == IF Cardinality(Slots) = 1 THEN {"same-slot"} ELSE {"spread"}
       IN /\ verdict' = race \cup {IF Holds(after - before) THEN "HOLDS" ELSE "VIOLATION"}
          /\ UNCHANGED <<cluster, confirmed, submission, before>>
          /\ IF Holds(after - before)
             THEN pc' = "balance" /\ step' = "sweep" /\ UNCHANGED exit
             ELSE pc' = "done" /\ exit' = 1 /\ UNCHANGED step

\* The balance read is outside the try block; little enough is not swept.
Balance ==
  /\ pc = "balance"
  /\ Goes("blockhash") \/ Ends(0)
  /\ UNCHANGED demo

\* A failed sweep is printed, and so is one that throws.
Swept == pc = "returned" /\ step = "sweep" /\ Ends(0) /\ UNCHANGED demo

\* Bad arguments or too little in the payer.
Refused == pc = "blockhash" /\ step = "fund" /\ Ends(2) /\ UNCHANGED demo

\* An error ends main with 1, unless the sweep's try block catches it.
Thrown == IF step = "sweep" /\ pc # "balance" THEN 0 ELSE 1

Main ==
  \/ Fetch
  \/ Submits(Thrown) /\ UNCHANGED demo
  \/ SetupReturned \/ ReadBefore \/ Verdict \/ Balance \/ Swept

Next ==
  \/ NextSlot /\ UNCHANGED demo
  \/ Confirms /\ UNCHANGED demo
  \/ Forks /\ UNCHANGED demo
  \/ \E m \in inflight : \E r \in Results(m) : Lands(m, r) /\ UNCHANGED demo
  \/ Main \/ Refused
  \/ RequestFails(Thrown) /\ UNCHANGED demo

Spec == Init /\ [][Next]_vars

-----------------------------------------------------------------------------
(* Properties *)

\* concurrent-claim:440-444. "INVARIANT HOLDS" is printed only if, for good, one attempt
\* has committed and the guard has refused all the others.
HoldsIsTrue ==
  "HOLDS" \in verdict =>
    LET attempts == {l \in Seen(confirmed) : l.msg.kind = "attempt"}
    IN /\ Cardinality(attempts) = Attempts
       /\ Cardinality(Committed(confirmed)) = 1
       /\ \A l \in attempts \ Committed(confirmed) : l.result = ClaimError(AlreadyCommitted)

\* concurrent-claim:20-21. At most one attempt commits, in whatever order and fork
\* they land, and also when one send fails and main gives up on the rest of them.
OneCommits == Counter(slot) <= 1

\* concurrent-claim:25-28. The script "says plainly whether the race was same-slot or
\* spread": what it says is true for good of the blocks that the attempts landed in, as long
\* as it could fetch the details of all of them.
RaceIsTrue ==
  verdict # {} /\ Len(results) = Attempts /\ Unknown \notin Slots =>
    ("same-slot" \in verdict <=>
      \A l1, l2 \in Seen(confirmed) :
        l1.msg.kind = "attempt" /\ l2.msg.kind = "attempt" => l1.slot = l2.slot)
=============================================================================
