---------------------------- MODULE IntentLedger ----------------------------
(***************************************************************************)
(* What CommitOnce promises, with no accounts, transactions or messages:   *)
(* each intent is free or held by one grant; performing an intent takes a  *)
(* grant, and a grant is given up only when its retention is over on both  *)
(* clocks. One step may settle several intents, as one transaction does.   *)
(***************************************************************************)
EXTENDS Integers

CONSTANTS
  Intents,             \* (authority, namespace, key) tuples
  Payloads,            \* Payload fingerprints
  Free,                \* The intent is not held
  SLOTS_PER_SECOND     \* How a retention in seconds is counted in slots

PERMANENT_RETENTION == 0

\* The grant under which an intent was performed; retention 0 is forever.
Grant == [payload: Payloads, retention: Nat, slot: Nat, unix: Nat]

VARIABLES
  slot, unix,          \* The two clocks
  live,                \* The grant that holds each intent, or Free
  performed            \* Every grant under which each intent was performed

vars == <<slot, unix, live, performed>>

Over(g) ==
  /\ g.retention # PERMANENT_RETENTION
  /\ slot >= g.slot + g.retention * SLOTS_PER_SECOND
  /\ unix >= g.unix + g.retention

Init ==
  /\ slot = 0 /\ unix = 0
  /\ live = [i \in Intents |-> Free]
  /\ performed = [i \in Intents |-> {}]

Tick ==
  /\ slot' \in Nat /\ unix' \in Nat
  /\ slot' >= slot /\ unix' >= unix
  /\ UNCHANGED <<live, performed>>

Keep(i) == live'[i] = live[i] /\ performed'[i] = performed[i]

Release(i) ==
  /\ live[i] # Free /\ Over(live[i])
  /\ live'[i] = Free
  /\ performed'[i] = performed[i]

Perform(i) ==
  /\ live[i] # Free => Over(live[i])
  /\ live'[i] \in Grant
  /\ live'[i].slot = slot /\ live'[i].unix = unix
  /\ performed'[i] = performed[i] \cup {live'[i]}

Settle ==
  /\ live' = [i \in Intents |-> live'[i]]
  /\ performed' = [i \in Intents |-> performed'[i]]
  /\ \A i \in Intents : Keep(i) \/ Release(i) \/ Perform(i)
  /\ UNCHANGED <<slot, unix>>

Next == Tick \/ Settle

Spec == Init /\ [][Next]_vars
=============================================================================
