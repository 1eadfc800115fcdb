--------------------------- MODULE GuardedPrograms ---------------------------
(***************************************************************************)
(* Programs that call claim themselves: demo_counter's increment_guarded   *)
(* and increment_guarded_by_vault, and native_guard, next to the guard of  *)
(* a client in front of a plain increment.  A guarded instruction is two   *)
(* steps, the call and the action; the transaction is committed or rolled  *)
(* back.                                                                   *)
(***************************************************************************)
EXTENDS Integers, Sequences, FiniteSets

CONSTANTS
  Owners,          \* Signers; each has a counter, a vault and a native state
  Keys,
  MaxCount,        \* The largest count: u64 of a counter, u8 of a native state
  MaxInstructions  \* Bound: instructions of a transaction

VARIABLES
  receipts,     \* Claimed <<authority, key>> pairs, as the transaction sees them
  count,        \* The count of each owner's counter and native state
  done,         \* History: every action, with the count it made; rolled back with the rest
  saved,        \* The three, as they were when the transaction began
  tx,           \* The instructions that it has left
  called        \* The first of them has been through its call

bank == <<receipts, count, done>>
vars == <<bank, saved, tx, called>>

Bank == [receipts |-> receipts, count |-> count, done |-> done]

Missing == -1      \* A counter that has not been initialized

\* The client's own guard, a program's for its caller, a program's for its vault, and the
\* guard of a program without Anchor.
Guards == {"client", "cpi", "vault", "native"}
Instructions(owner) ==
  [guard : Guards, owner : {owner}, key : Keys] \cup [guard : {"initialize"}, owner : {owner}]

Programs == {"counter", "native"}
StateOf(ix) == <<IF ix.guard = "native" THEN "native" ELSE "counter", ix.owner>>

\* The signer's privilege passes through the call; a vault's exists only inside it.
Authority(ix) == IF ix.guard = "vault" THEN <<"vault", ix.owner>> ELSE <<"wallet", ix.owner>>
ReceiptOf(ix) == <<Authority(ix), ix.key>>

Begin ==
  /\ tx = <<>>
  /\ \E owner \in Owners, n \in 1 .. MaxInstructions : tx' \in [1 .. n -> Instructions(owner)]
  /\ saved' = Bank
  /\ UNCHANGED <<bank, called>>

Here == Head(tx)
Guarded == tx # <<>> /\ Here.guard # "initialize"

\* The transaction stops and nothing of it stays.
Abort ==
  /\ receipts' = saved.receipts /\ count' = saved.count /\ done' = saved.done
  /\ tx' = <<>> /\ called' = FALSE
  /\ UNCHANGED saved

\* commit_once::cpi::claim, or invoke: an existing receipt is AlreadyCommitted and goes up by "?".
Claims ==
  /\ Guarded /\ ~called
  /\ IF ReceiptOf(Here) \in receipts THEN Abort
     ELSE /\ receipts' = receipts \cup {ReceiptOf(Here)}
          /\ called' = TRUE
          /\ UNCHANGED <<count, done, saved, tx>>

\* init: fails if the account exists, and the count begins at 0.
Initializes ==
  /\ tx # <<>> /\ Here.guard = "initialize"
  /\ IF count[StateOf(Here)] # Missing THEN Abort
     ELSE /\ count' = [count EXCEPT ![StateOf(Here)] = 0]
          /\ tx' = Tail(tx)
          /\ UNCHANGED <<receipts, done, saved, called>>

\* checked_add: no value when the count is at its end, or there is no account to hold one.
CheckedAdd(s) == IF count[s] \in 0 .. MaxCount - 1 THEN {count[s] + 1} ELSE {}

Acts ==
  /\ Guarded /\ called
  /\ IF CheckedAdd(StateOf(Here)) = {} THEN Abort
     ELSE /\ \E n \in CheckedAdd(StateOf(Here)) :
               /\ count' = [count EXCEPT ![StateOf(Here)] = n]
               /\ done' = done \cup {[ix |-> Here, count |-> n]}
          /\ tx' = Tail(tx) /\ called' = FALSE
          /\ UNCHANGED <<receipts, saved>>

Init ==
  /\ receipts = {} /\ done = {}
  /\ count = [s \in Programs \X Owners |-> IF s[1] = "counter" THEN Missing ELSE 0]
  /\ saved = Bank /\ tx = <<>> /\ called = FALSE

Next == Begin \/ Claims \/ Initializes \/ Acts

Spec == Init /\ [][Next]_vars

-----------------------------------------------------------------------------
(* Properties *)

Settled == tx = <<>>
Receipts == ({"wallet", "vault"} \X Owners) \X Keys

\* demo-counter/src/lib.rs:74-76, native-guard/src/lib.rs:185-187. The call and the action are
\* one: between transactions every receipt stands for one action and the counts have gone up by
\* as much, also when an action overflows behind its call, a later instruction
\* fails, or the counter is initialized late or twice.
ReceiptsAreActions ==
  Settled =>
    /\ \A r \in Receipts :
         Cardinality({d \in done : ReceiptOf(d.ix) = r}) = IF r \in receipts THEN 1 ELSE 0
    /\ \A s \in Programs \X Owners :
         Cardinality({d \in done : StateOf(d.ix) = s}) = IF count[s] = Missing THEN 0 ELSE count[s]

\* demo-counter/src/lib.rs:60-65. A wallet's key is used up by whichever form of guard comes
\* first: the client's, the program's and the native one are interchangeable, in one
\* transaction and across several.
OneActionPerKey ==
  \A owner \in Owners, key \in Keys :
    Cardinality({d \in done : d.ix.guard # "vault" /\ d.ix.owner = owner /\ d.ix.key = key}) <= 1
=============================================================================
