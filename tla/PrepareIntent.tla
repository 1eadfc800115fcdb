---------------------------- MODULE PrepareIntent ----------------------------
(***************************************************************************)
(* packages/sdk/src/instructions.ts: prepareIntent turns the caller's      *)
(* retention into the u64 of the claim instruction, offline.  The program  *)
(* reads it back.                                                          *)
(***************************************************************************)
EXTENDS Integers

CONSTANTS
  MIN_RETENTION_SECONDS, MAX_RETENTION_SECONDS,
  DEFAULT_RETENTION_SECONDS,
  U64,                  \* How many values the retention field has (2^64)
  Digits,               \* Bound: what \d+ may say
  Numbers,              \* Bound: the integers a caller passes, negative ones too
  Addresses,            \* Where a deposit may go
  Authority, Receipt,   \* The intent's authority and its derived address
  Nothing

ASSUME PrepareAssumption ==
  /\ {Authority, Receipt} \subseteq Addresses /\ Authority # Receipt
  /\ {MIN_RETENTION_SECONDS, MAX_RETENTION_SECONDS, U64} \subseteq Nat
  /\ DEFAULT_RETENTION_SECONDS \in MIN_RETENTION_SECONDS .. MAX_RETENTION_SECONDS
  /\ MIN_RETENTION_SECONDS > 0 /\ MAX_RETENTION_SECONDS < U64
  /\ Digits \subseteq Nat /\ Numbers \subseteq Int
  /\ Nothing \notin {"sdk", "program"}

VARIABLES
  args,        \* What the caller passes
  stage,
  seconds,     \* What parseRetention made of it
  data,        \* The claim instruction: its u64 and its refund destination
  recorded,    \* What the program recorded, or Nothing
  error        \* Who refused: "sdk", "program", or Nothing

prepareVars == <<args, stage, seconds, data, recorded, error>>

PERMANENT_RETENTION == 0
UNIT_SECONDS == [s |-> 1, m |-> 60, h |-> 3600, d |-> 86400]

\* undefined, 'permanent', an integer, a number with a fraction, digits and a unit, other text.
Retention ==
  [form : {"undefined", "permanent", "fraction", "text"}] \cup
  [form : {"integer"}, value : Numbers] \cup
  [form : {"duration"}, digits : Digits, unit : DOMAIN UNIT_SECONDS]

-----------------------------------------------------------------------------
(* The SDK *)

Malformed(r) == r.form \in {"fraction", "text"}

parseRetention(r) ==
  CASE r.form = "undefined" -> DEFAULT_RETENTION_SECONDS
    [] r.form = "permanent" -> PERMANENT_RETENTION
    [] r.form = "integer" -> r.value
    [] r.form = "duration" -> r.digits * UNIT_SECONDS[r.unit]

InRange(n) == n = PERMANENT_RETENTION \/ n \in MIN_RETENTION_SECONDS .. MAX_RETENTION_SECONDS

\* Mutant: only the upper end is checked.
UpperEndOnly(n) == n <= MAX_RETENTION_SECONDS
assertValidRetention(n) == InRange(n)

\* DataView.setBigUint64 wraps, it does not throw.
setBigUint64(n) == n % U64

RefundOf(a) == IF a.refund = Nothing THEN Authority ELSE a.refund

Throws(who) == stage' = "done" /\ error' = who /\ UNCHANGED <<args, seconds, data, recorded>>

Parse ==
  /\ stage = "parse"
  /\ \/ Malformed(args.retention) /\ Throws("sdk")
     \/ /\ ~Malformed(args.retention)
        /\ seconds' = parseRetention(args.retention)
        /\ stage' = "prepare"
        /\ UNCHANGED <<args, data, recorded, error>>

\* prepareIntent after its parsing: the checks, then the bytes.
Prepare ==
  /\ stage = "prepare"
  /\ \/ /\ ~assertValidRetention(seconds) \/ RefundOf(args) = Receipt
        /\ Throws("sdk")
     \/ /\ assertValidRetention(seconds) /\ RefundOf(args) # Receipt
        /\ data' = [retention |-> setBigUint64(seconds), refund |-> RefundOf(args)]
        /\ stage' = "claim"
        /\ UNCHANGED <<args, seconds, recorded, error>>

-----------------------------------------------------------------------------
(* The program *)

\* handle_claim's argument checks; the default public key is not an address of the model.
Claim ==
  /\ stage = "claim"
  /\ \/ /\ ~InRange(data.retention) \/ data.refund = Receipt
        /\ Throws("program")
     \/ /\ InRange(data.retention) /\ data.refund # Receipt
        /\ recorded' = [retention |-> data.retention, refund |-> data.refund]
        /\ stage' = "done"
        /\ UNCHANGED <<args, seconds, data, error>>

PrepareInit ==
  /\ args \in [retention : Retention, refund : Addresses \cup {Nothing}]
  /\ stage = "parse" /\ seconds = Nothing /\ data = Nothing /\ recorded = Nothing /\ error = Nothing

PrepareNext == Parse \/ Prepare \/ Claim

PrepareSpec == PrepareInit /\ [][PrepareNext]_prepareVars

-----------------------------------------------------------------------------
(* Properties *)

\* instructions.ts:69-70. "a silently wrong retention would silently change the security
\* window": the window that the program records is the integer that was asked for, and never
\* what that integer wraps to in the field.
RecordsWhatWasAsked == recorded # Nothing => recorded.retention = seconds

\* instructions.ts:107-113. The SDK refuses what the program would refuse, so that a claim
\* prepared with a real refund destination is never rejected for its arguments.
PreparedIsAccepted == error # "program"
=============================================================================
