-------------------------- MODULE CommitOnceLedger --------------------------
(* CommitOnce implements IntentLedger: the committed receipts are the live *)
(* grants, and only the end of a successful transaction changes them.      *)
EXTENDS CommitOnce

\* The grant that a receipt records; its retention is the span of its deadlines.
GrantOf(d) ==
  [ payload |-> d.payload_hash,
    retention |-> IF IsPermanent(d) THEN PERMANENT_RETENTION
                  ELSE d.expires_at_unix_ts - d.created_unix_ts,
    slot |-> d.created_slot, unix |-> d.created_unix_ts ]

LiveGrant(accounts, r) ==
  IF accounts[r].data = NoData THEN NoData ELSE GrantOf(accounts[r].data)
GrantsOf(cs, r) == {GrantOf(c.data) : c \in {d \in cs : d.addr = r}}

Ledger == INSTANCE IntentLedger WITH
  Intents <- Receipts,
  Free <- NoData,
  live <- [r \in Receipts |-> LiveGrant(saved.account, r)],
  performed <- [r \in Receipts |-> GrantsOf(saved.commits, r)]

\* A placeholder is not a grant.
ASSUME LedgerAssumption == NoData \notin Ledger!Grant

\* lib.rs:19-35. Seen through its receipts, the program with its transactions,
\* duplicates, failures and cleanups does nothing that the ledger of intents,
\* which performs each intent once per retention, does not allow.
ImplementsLedger == Ledger!Spec
=============================================================================
