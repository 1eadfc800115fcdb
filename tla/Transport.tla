------------------------------ MODULE Transport ------------------------------
(***************************************************************************)
(* apps/demo/src/solana.ts: how the demo scripts reach the cluster.  Every *)
(* request is retried by the transport; a transaction is sent without      *)
(* preflight, its status polled until it is confirmed or time is up, and   *)
(* its details fetched.  A batch is sent concurrently and polled at once;  *)
(* a single submission is a batch of one that a rate limit ends sooner.    *)
(*                                                                         *)
(* Time is counted in polls.  Nodes lag behind, and blocks that are not    *)
(* confirmed may be abandoned.                                             *)
(***************************************************************************)
EXTENDS Cluster

CONSTANTS
  RPC_ATTEMPTS,      \* Requests that the transport makes for one call
  SEND_ATTEMPTS,     \* Calls that a rate-limited batch makes per transaction
  MAX_POLLS,         \* timeoutMs / pollMs
  MAX_LAG,           \* Bound: slots by which a node lags
  MAX_UNCONFIRMED    \* Bound: slots that are not confirmed yet

VARIABLES
  confirmed,     \* The last confirmed slot; later ones may be abandoned
  pc, exit,      \* Where the script stands, and its exit code
  signed,        \* The transactions of the submission under way
  sending,       \* For each: answered, or at which request of which call
  polls,         \* Polls of the wait under way
  errors,        \* For each: what the statuses said
  results        \* What the submission returned

script == <<pc, exit>>
submission == <<signed, sending, polls, errors, results>>
net == <<cluster, confirmed, script, submission>>

Running == -1
Pending == [ix |-> "pending", code |-> -1]
Unknown == -1

TransportInit ==
  /\ ClusterInit
  /\ confirmed = 0
  /\ pc = "blockhash" /\ exit = Running
  /\ signed = << >> /\ sending = << >> /\ polls = 0 /\ errors = << >> /\ results = << >>

Answered == [answered |-> TRUE, tries |-> 0, calls |-> 0]
FirstTry == [answered |-> FALSE, tries |-> 1, calls |-> 1]

-----------------------------------------------------------------------------
(* The cluster *)

\* What a node shows at commitment confirmed.
Views == {v \in 0 .. confirmed : v >= confirmed - MAX_LAG}
Seen(v) == {l \in landed : l.slot <= v}

Lands(m, r) == Executes(m, r) /\ UNCHANGED <<confirmed, script, submission>>

NextSlot ==
  /\ slot - confirmed < MAX_UNCONFIRMED
  /\ SlotAdvances /\ UNCHANGED <<confirmed, script, submission>>

Confirms ==
  /\ confirmed' \in confirmed + 1 .. slot - 1
  /\ UNCHANGED <<cluster, script, submission>>

\* The blocks from slot s on are abandoned; what they held may land again.
Forks ==
  /\ \E s \in confirmed + 1 .. slot : landed' = {l \in landed : l.slot < s}
  /\ landed' # landed
  /\ UNCHANGED <<slot, inflight, confirmed, script, submission>>

-----------------------------------------------------------------------------
(* Requests *)

Ends(code) ==
  /\ pc' = "done" /\ exit' = code
  /\ UNCHANGED <<cluster, confirmed, submission>>

\* A read whose request failed RPC_ATTEMPTS times, or in a way not worth a retry.
RequestFails(code) ==
  /\ pc \notin {"send", "returned", "done"}
  /\ Ends(code)

\* Mutant: any blockhash will do.
FreshAnyway(v, previous) == TRUE
IsFresh(v, previous) == v # previous

\* fetchFreshBlockhash: poll until a node offers another blockhash than the previous.
\* When it does, the script signs batch[v] and submits it.
FetchFreshBlockhash(previous, batch) ==
  /\ pc = "blockhash"
  /\ \E v \in Views :
       \/ /\ IsFresh(v, previous)
          /\ signed' = batch[v]
          /\ sending' = [i \in DOMAIN signed' |-> FirstTry]
          /\ errors' = [i \in DOMAIN signed' |-> Pending]
          /\ polls' = 0 /\ results' = << >>
          /\ pc' = "send" /\ UNCHANGED exit
       \/ /\ ~IsFresh(v, previous) /\ polls < MAX_POLLS
          /\ polls' = polls + 1
          /\ UNCHANGED <<script, signed, sending, errors, results>>
  /\ UNCHANGED <<cluster, confirmed>>

SameBlockhash(previous, code) ==
  /\ pc = "blockhash" /\ polls = MAX_POLLS
  /\ \E v \in Views : ~IsFresh(v, previous)
  /\ Ends(code)

-----------------------------------------------------------------------------
(* submitAndConfirm, submitManyAndConfirm *)

SetSending(i, s) ==
  /\ sending' = [sending EXCEPT ![i] = s]
  /\ UNCHANGED <<exit, signed, polls, errors, results>>

SendAnswered(i) ==
  /\ pc = "send" /\ ~sending[i].answered
  /\ Forwards(signed[i])
  /\ SetSending(i, Answered)
  /\ pc' = IF \A j \in DOMAIN signed : sending'[j].answered THEN "poll" ELSE "send"
  /\ UNCHANGED confirmed

\* What a failed request was, whether the node had taken the transaction, and whether
\* the transport tries again.
Failures == {"network", "rate-limit", "refused"}
MayForward(why) == why = "network"
isRetryableRpcFailure(why) == why # "refused"
isRateLimitError(why) == why = "rate-limit"

TriesAgain(i) == sending[i].tries < RPC_ATTEMPTS

SendRetries(i) ==
  /\ pc = "send" /\ ~sending[i].answered
  /\ \E why \in Failures :
       /\ \/ isRetryableRpcFailure(why) /\ TriesAgain(i)
             /\ SetSending(i, [sending[i] EXCEPT !.tries = @ + 1])
          \/ ~TriesAgain(i) /\ Len(signed) > 1
             /\ isRateLimitError(why) /\ sending[i].calls < SEND_ATTEMPTS
             /\ SetSending(i, [sending[i] EXCEPT !.tries = 1, !.calls = @ + 1])
       /\ UNCHANGED cluster \/ (MayForward(why) /\ Forwards(signed[i]))
  /\ UNCHANGED <<confirmed, pc>>

\* Promise.all rejects while the other transactions of the batch are on their way.
SendFails(i, code) ==
  /\ pc = "send" /\ ~sending[i].answered
  /\ \E why \in Failures :
       /\ isRetryableRpcFailure(why) => ~TriesAgain(i)
       /\ (isRateLimitError(why) /\ Len(signed) > 1) => sending[i].calls = SEND_ATTEMPTS
       /\ UNCHANGED cluster \/ (MayForward(why) /\ Forwards(signed[i]))
  /\ pc' = "done" /\ exit' = code
  /\ UNCHANGED <<confirmed, submission>>

\* Mutant: a processed status is taken for a confirmed one.
StatusesAtProcessed(v) == landed
\* getSignatureStatuses: what a node calls confirmed.
Statuses(v) == Seen(v)

\* One poll for all signatures.
Poll ==
  /\ pc = "poll"
  /\ \E v \in Views :
       errors' = [i \in DOMAIN signed |->
         IF errors[i] = Pending /\ \E l \in Statuses(v) : l.msg = signed[i]
         THEN (CHOOSE l \in Statuses(v) : l.msg = signed[i]).result
         ELSE errors[i]]
  /\ IF \A i \in DOMAIN signed : errors'[i] # Pending
     THEN pc' = "detail" /\ polls' = 0
     ELSE polls < MAX_POLLS /\ polls' = polls + 1 /\ UNCHANGED pc
  /\ UNCHANGED <<cluster, confirmed, exit, signed, sending, results>>

\* Mutant: the wait has no timeout.
WaitsForever(code) == FALSE
\* Never confirmed in time; the transaction may still land.
NeverConfirmed(code) ==
  /\ pc = "poll" /\ polls = MAX_POLLS
  /\ Ends(code)

\* getTransaction, which may stay null; then the slot and the logs are not known.
FetchDetails ==
  /\ pc = "detail"
  /\ \E known \in SUBSET DOMAIN signed :
       results' = [i \in DOMAIN signed |->
         [failed |-> errors[i] # Ok, error |-> errors[i],
          slot |-> IF \E l \in Seen(confirmed) : i \in known /\ l.msg = signed[i]
                   THEN (CHOOSE l \in Seen(confirmed) : l.msg = signed[i]).slot
                   ELSE Unknown]]
  /\ pc' = "returned"
  /\ UNCHANGED <<cluster, confirmed, exit, signed, sending, polls, errors>>

\* The submission and its failures, all of which the script's main lets through.
Submits(code) ==
  \/ \E i \in DOMAIN signed : SendAnswered(i) \/ SendRetries(i) \/ SendFails(i, code)
  \/ Poll \/ NeverConfirmed(code) \/ FetchDetails

-----------------------------------------------------------------------------
(* Properties of both scripts *)

\* solana.ts:235-239. What a submission returned is what the cluster has confirmed, and
\* stays so: no block that is abandoned later has decided it.
ResultsAreFinal ==
  pc = "returned" => \A i \in DOMAIN signed :
    \E l \in Seen(confirmed) : l.msg = signed[i] /\ l.result = results[i].error
=============================================================================
