----------------------------- MODULE ClientProofs -----------------------------
(***************************************************************************)
(* The programs that call the guard, apart from the examples: the reads,   *)
(* the builders, the search for an error code and the scan for events of   *)
(* the SDK, for every value of their parameters, and the scripts of        *)
(* apps/demo, for any number of attempts, requests, polls and slots, any   *)
(* age of a blockhash and any lag of a node.                               *)
(***************************************************************************)
EXTENDS MCDemos, ReceiptReads, PrepareIntent, ErrorSearch, EventScan,
        FiniteSetTheorems, SequenceTheorems, TLAPS

-----------------------------------------------------------------------------
(* ReceiptReads *)

Clocks == [slot : Nat, unix : Nat]
Receipts == [payload : Payloads, created : Nat, expires : Clocks]
States == [unix : Nat, receipt : Receipts \cup {None, Prefunded}]

ChainOK ==
  /\ chain \in Seq(States) /\ Slot >= 1
  /\ \A i, j \in 1 .. Slot : i <= j => chain[i].unix <= chain[j].unix

\* A receipt goes away only once both its deadlines have passed, and every one stood once.
Lapsed(r) ==
  r.expires.slot # 0 /\ r.expires.slot <= Slot /\ r.expires.unix <= Latest.unix
Kept(r) == r = Latest.receipt \/ Lapsed(r)
HistoryOK ==
  \A i \in 1 .. Slot : chain[i].receipt \in Receipts => Kept(chain[i].receipt)

\* A clock is a moment that the chain has reached.
Reached(c) == c \in Clocks /\ c.slot <= Slot /\ c.unix <= Latest.unix

\* A summary follows from the receipt it shows, and an "expired" from moments reached.
AnswerOK ==
  /\ answer.receipt \in Receipts /\ Kept(answer.receipt)
  /\ answer.permanent = isPermanentReceipt(answer.receipt)
  /\ answer.matchesIntent = (answer.receipt.payload = answer.intent)
  /\ answer.status = "expired" =>
       Reached(answer.receipt.expires) /\ ~isPermanentReceipt(answer.receipt)

ReadsInv ==
  /\ ChainOK /\ HistoryOK
  /\ request \in {"getSlot", "getBlockTime", "inspect", "done"}
  /\ request = "getBlockTime" => slotRead \in 1 .. Slot
  /\ clock # None => Reached(clock)
  /\ Summarised => AnswerOK

LEMMA LatestTyped ==
  ASSUME ChainOK
  PROVE  Slot \in Nat /\ Slot >= 1 /\ Latest \in States /\ Latest.unix \in Nat
<1>1. Slot \in Nat /\ Slot >= 1
  BY DEF ChainOK, Slot
<1>2. Slot \in 1 .. Len(chain)
  BY <1>1 DEF Slot
<1>3. chain[Slot] \in States
  BY <1>2 DEF ChainOK
<1> QED
  BY <1>1, <1>3 DEF Latest, States

\* A block adds a later moment and keeps every earlier one.
LEMMA ChainGrows ==
  ASSUME ChainOK, NEW time \in Nat, time >= Latest.unix,
         NEW r \in Receipts \cup {None, Prefunded}, Produces(time, r)
  PROVE  /\ ChainOK' /\ Slot' = Slot + 1
         /\ Latest'.unix = time /\ Latest'.receipt = r
         /\ \A i \in 1 .. Slot : chain'[i] = chain[i]
<1> DEFINE s == [unix |-> time, receipt |-> r]
<1>1. s \in States /\ chain' = Append(chain, s)
  BY DEF Produces, States
<1>2. chain' \in Seq(States) /\ Len(chain') = Len(chain) + 1
  BY <1>1 DEF ChainOK
<1>3. \A i \in 1 .. Len(chain) : chain'[i] = chain[i]
  BY <1>1 DEF ChainOK
<1>4. chain'[Len(chain) + 1] = s
  BY <1>1 DEF ChainOK
<1>5. Len(chain) \in Nat /\ Len(chain) >= 1
  BY DEF ChainOK, Slot
<1>6. \A i \in 1 .. Len(chain) : chain[i].unix \in Nat /\ chain[i].unix <= time
  <2> TAKE i \in 1 .. Len(chain)
  <2>1. chain[i] \in States /\ chain[Len(chain)] \in States
    BY <1>5 DEF ChainOK
  <2>2. chain[i].unix <= chain[Len(chain)].unix
    BY <1>5 DEF ChainOK, Slot
  <2> QED
    BY <2>1, <2>2 DEF States, Latest, Slot
<1>7. \A i, j \in 1 .. Len(chain') : i <= j => chain'[i].unix <= chain'[j].unix
  <2> TAKE i, j \in 1 .. Len(chain')
  <2> HAVE i <= j
  <2>1. CASE j <= Len(chain)
    BY <2>1, <1>2, <1>3, <1>5 DEF ChainOK, Slot
  <2>2. CASE j = Len(chain) + 1 /\ i <= Len(chain)
    <3>1. chain'[j].unix = time
      BY <2>2, <1>4
    <3>2. chain'[i] = chain[i] /\ chain[i].unix <= time
      BY <2>2, <1>3, <1>6
    <3> QED
      BY <3>1, <3>2
  <2>3. CASE j = Len(chain) + 1 /\ i = Len(chain) + 1
    BY <2>3, <1>4
  <2> QED
    BY <2>1, <2>2, <2>3, <1>2, <1>5
<1> QED
  BY <1>2, <1>3, <1>4, <1>5, <1>7 DEF ChainOK, Slot, Latest

LEMMA NewReceiptType ==
  ASSUME ChainOK, NEW p \in Payloads, NEW s \in Retentions
  PROVE  NewReceipt(p, s) \in Receipts
<1>1. Latest.unix \in Nat /\ Slot + 1 \in Nat
  BY LatestTyped
<1>2. s \in Nat
  BY ReadsAssumption
<1>3. s * SLOTS_PER_SECOND \in Nat
  BY <1>2 DEF SLOTS_PER_SECOND
<1>4. Expires(s, Slot + 1, Latest.unix) \in Clocks
  BY <1>1, <1>2, <1>3 DEF Expires, Clocks
<1> QED
  BY <1>1, <1>4 DEF NewReceipt, Receipts

LEMMA ReadsStart == ReadsInit => ReadsInv
<1> SUFFICES ASSUME ReadsInit PROVE ReadsInv
  OBVIOUS
<1>1. [unix |-> 0, receipt |-> None] \in States
  BY DEF States
<1>2. chain \in Seq(States) /\ Len(chain) = 1
  BY <1>1 DEF ReadsInit
<1>3. ChainOK
  BY <1>2 DEF ReadsInit, ChainOK, Slot
<1> QED
  BY <1>2, <1>3, ReadsAssumption
     DEF ReadsInit, ReadsInv, HistoryOK, Slot, Receipts, Clocks, Summarised

\* What a slot does to the receipt: it stays, it is written where there was none, or it is
\* removed after its deadlines.
LEMMA NextReceipt ==
  ASSUME ReadsInv, NextSlot
  PROVE  \E time \in Latest.unix .. Latest.unix + 1, r \in Receipts \cup {None, Prefunded} :
           /\ Produces(time, r)
           /\ \/ r = Latest.receipt
              \/ DataIsEmpty(Latest.receipt)
              \/ Closes(Latest.receipt, Slot + 1, time)
<1>1. Latest \in States
  BY LatestTyped DEF ReadsInv
<1>2. Latest.receipt \in Receipts \cup {None, Prefunded}
  BY <1>1 DEF States
<1>3. \A p \in Payloads, s \in Retentions : NewReceipt(p, s) \in Receipts
  BY NewReceiptType DEF ReadsInv
<1>4. PICK time \in Latest.unix .. Latest.unix + 1 :
        \/ Produces(time, Latest.receipt)
        \/ /\ DataIsEmpty(Latest.receipt)
           /\ \/ Produces(time, Prefunded)
              \/ \E p \in Payloads, s \in Retentions : Produces(time, NewReceipt(p, s))
        \/ Closes(Latest.receipt, Slot + 1, time) /\ Produces(time, None)
  BY DEF NextSlot
<1> QED
  BY <1>2, <1>3, <1>4

LEMMA NextSlotStep == ReadsInv /\ NextSlot => ReadsInv'
<1> SUFFICES ASSUME ReadsInv, NextSlot PROVE ReadsInv'
  OBVIOUS
<1>1. Latest \in States /\ Latest.unix \in Nat
  BY LatestTyped DEF ReadsInv
<1>2. PICK time \in Latest.unix .. Latest.unix + 1, r \in Receipts \cup {None, Prefunded} :
        /\ Produces(time, r)
        /\ \/ r = Latest.receipt
           \/ DataIsEmpty(Latest.receipt)
           \/ Closes(Latest.receipt, Slot + 1, time)
  BY NextReceipt
<1>3. time \in Nat /\ time >= Latest.unix
  BY <1>1, <1>2
<1>4. /\ ChainOK' /\ Slot' = Slot + 1
      /\ Latest'.unix = time /\ Latest'.receipt = r
      /\ \A i \in 1 .. Slot : chain'[i] = chain[i]
  BY <1>2, <1>3, ChainGrows DEF ReadsInv
<1>5. Slot \in Nat /\ Slot >= 1
  BY DEF ReadsInv, ChainOK, Slot
<1>6. UNCHANGED <<request, slotRead, clock, answer>>
  BY DEF NextSlot, reader
<1>7. \A c : Reached(c) => c \in Clocks /\ c.slot <= Slot' /\ c.unix <= Latest'.unix
  BY <1>1, <1>3, <1>4, <1>5 DEF Reached, Clocks
<1> DEFINE lapses(q) ==
      q.expires.slot # 0 /\ q.expires.slot <= Slot' /\ q.expires.unix <= Latest'.unix
<1>8. \A q \in Receipts : Kept(q) => q = Latest'.receipt \/ lapses(q)
  <2> TAKE q \in Receipts
  <2> HAVE Kept(q)
  <2>1. q.expires \in Clocks /\ q.expires.slot \in Nat /\ q.expires.unix \in Nat
    BY DEF Receipts, Clocks
  <2>2. CASE Lapsed(q)
    BY <1>1, <1>3, <1>4, <1>5, <2>1, <2>2 DEF Lapsed
  <2>3. CASE q = Latest.receipt
    <3>1. ~DataIsEmpty(q)
      BY ReadsAssumption DEF DataIsEmpty, Receipts, Clocks
    <3>2. CASE r = q
      BY <1>4, <3>2
    <3>3. CASE Closes(q, Slot + 1, time)
      BY <1>3, <1>4, <1>5, <2>1, <3>3 DEF Closes
    <3> QED
      BY <1>2, <2>3, <3>1, <3>2, <3>3
  <2> QED
    BY <2>2, <2>3 DEF Kept
<1>9. HistoryOK'
  <2> SUFFICES ASSUME NEW i \in 1 .. Slot', chain'[i].receipt \in Receipts
               PROVE  chain'[i].receipt = Latest'.receipt \/ lapses(chain'[i].receipt)
    BY DEF HistoryOK, Kept, Lapsed
  <2>1. CASE i \in 1 .. Slot
    <3>1. chain'[i] = chain[i]
      BY <1>4, <2>1
    <3>2. Kept(chain[i].receipt)
      BY <2>1, <3>1 DEF ReadsInv, HistoryOK
    <3> QED
      BY <1>8, <3>1, <3>2
  <2>2. CASE i = Slot'
    BY <2>2 DEF Latest
  <2> QED
    BY <1>4, <1>5, <2>1, <2>2
<1>10. AnswerOK => AnswerOK'
  <2> SUFFICES ASSUME AnswerOK PROVE AnswerOK'
    OBVIOUS
  <2>1. answer.receipt = Latest'.receipt \/ lapses(answer.receipt)
    BY <1>8 DEF AnswerOK
  <2>2. Kept(answer.receipt)'
    BY <1>6, <2>1 DEF Kept, Lapsed
  <2> QED
    BY <1>6, <1>7, <2>2 DEF AnswerOK, Reached, isPermanentReceipt
<1>11. Reached(clock) => Reached(clock)'
  BY <1>6, <1>7 DEF Reached
<1>12. request = "getBlockTime" => slotRead \in 1 .. Slot + 1
  BY <1>5 DEF ReadsInv
<1> QED
  BY <1>4, <1>6, <1>9, <1>10, <1>11, <1>12 DEF ReadsInv, Summarised

LEMMA ReaderStep ==
  ASSUME ReadsInv, GetSlot \/ GetBlockTime \/ WithoutClock \/ Inspect
  PROVE  ReadsInv'
<1>1. UNCHANGED chain
  BY DEF GetSlot, GetBlockTime, WithoutClock, Inspect
<1>2. ChainOK' /\ HistoryOK' /\ Slot' = Slot /\ Latest' = Latest
  BY <1>1 DEF ReadsInv, ChainOK, HistoryOK, Kept, Lapsed, Slot, Latest
<1>3. \A v \in Views : v \in 1 .. Slot
  BY ReadsAssumption DEF Views, ReadsInv, ChainOK, Slot
<1>4. CASE GetSlot
  BY <1>1, <1>2, <1>3, <1>4 DEF GetSlot, ReadsInv, Summarised, Reached
<1>5. CASE GetBlockTime
  <2>1. slotRead \in 1 .. Slot
    BY <1>5 DEF GetBlockTime, ReadsInv
  <2>2. chain[slotRead] \in States /\ Slot \in Nat /\ Slot \in 1 .. Slot
    BY <2>1 DEF ReadsInv, ChainOK, Slot
  <2>3. chain[slotRead].unix <= Latest.unix
    BY <2>1, <2>2 DEF ReadsInv, ChainOK, Latest
  <2>4. Reached([slot |-> slotRead, unix |-> chain[slotRead].unix])
    BY <2>1, <2>2, <2>3 DEF Reached, Clocks, States
  <2> QED
    BY <1>1, <1>2, <1>5, <2>4 DEF GetBlockTime, ReadsInv, Summarised, Reached
<1>6. CASE WithoutClock
  BY <1>1, <1>2, <1>6 DEF WithoutClock, ReadsInv, Summarised, Reached
<1>7. CASE Inspect
  <2>1. PICK v \in Views, intent \in Payloads : answer' = Shown(chain[v].receipt, intent)
    BY <1>7 DEF Inspect
  <2>2. request' = "done" /\ UNCHANGED <<slotRead, clock>>
    BY <1>7 DEF Inspect
  <2> DEFINE r == chain[v].receipt
  <2>3. CASE DataIsEmpty(r)
    <3>1. answer'.status \in {"unclaimed", "threw"}
      BY <2>1, <2>3 DEF Shown, DataIsEmpty
    <3> QED
      BY <1>1, <1>2, <2>2, <3>1 DEF ReadsInv, Summarised, Reached
  <2>4. CASE ~DataIsEmpty(r)
    <3>1. r \in Receipts /\ Kept(r)
      <4>1. v \in 1 .. Len(chain)
        BY <1>3 DEF Slot
      <4>2. chain[v] \in States
        BY <4>1 DEF ReadsInv, ChainOK
      <4>3. r \in Receipts
        BY <2>4, <4>2 DEF States, DataIsEmpty
      <4> QED
        BY <4>1, <4>3 DEF ReadsInv, HistoryOK, Slot
    <3>2. answer' = Summary(r, intent)
      BY <2>1, <2>4 DEF Shown, DataIsEmpty
    <3>3. /\ answer'.receipt = r /\ answer'.intent = intent
          /\ answer'.permanent = isPermanentReceipt(r)
          /\ answer'.matchesIntent = (r.payload = intent)
      BY <3>2 DEF Summary
    <3>4. ASSUME answer'.status = "expired" PROVE clock # None /\ isClosable(r, clock)
      BY <3>2, <3>4, ReadsAssumption DEF Summary, isClosable, isPermanentReceipt
    <3>5. ASSUME isClosable(r, clock), Reached(clock)
          PROVE  Reached(r.expires) /\ ~isPermanentReceipt(r)
      <4>1. r.expires \in Clocks /\ clock \in Clocks
        BY <3>1, <3>5 DEF Receipts, Reached
      <4>2. Slot \in Nat /\ Latest.unix \in Nat
        BY LatestTyped DEF ReadsInv
      <4> QED
        BY <3>5, <4>1, <4>2 DEF isClosable, Reached, Clocks
    <3>6. answer'.status = "expired" => Reached(r.expires) /\ ~isPermanentReceipt(r)
      BY <3>4, <3>5 DEF ReadsInv
    <3>7. AnswerOK'
      <4>1. Kept(answer.receipt)'
        BY <1>2, <3>1, <3>3 DEF Kept, Lapsed
      <4> QED
        BY <1>2, <3>1, <3>3, <3>6, <4>1 DEF AnswerOK, Reached, isPermanentReceipt
    <3> QED
      BY <1>1, <1>2, <2>2, <3>7 DEF ReadsInv, Summarised, Reached
  <2> QED
    BY <2>3, <2>4
<1> QED
  BY <1>4, <1>5, <1>6, <1>7

LEMMA ReadsStep == ReadsInv /\ [ReadsNext]_readsVars => ReadsInv'
<1> SUFFICES ASSUME ReadsInv, [ReadsNext]_readsVars PROVE ReadsInv'
  OBVIOUS
<1>1. CASE UNCHANGED readsVars
  BY <1>1 DEF readsVars, reader, ReadsInv, ChainOK, HistoryOK, Kept, Lapsed, Slot, Latest,
     Reached, Summarised, AnswerOK, isPermanentReceipt
<1> QED
  BY <1>1, NextSlotStep, ReaderStep DEF ReadsNext

\* An "expired" is final: while the receipt it was read from stands, the next slot's
\* close_receipt accepts it, however far the two nodes lag behind (accounts.ts:126-143).
THEOREM ExpiredIsFinal == ReadsSpec => []ExpiredCanBeClosed
<1>1. ReadsInv => ExpiredCanBeClosed
  <2> SUFFICES ASSUME ReadsInv, Summarised, answer.status = "expired"
               PROVE  /\ ~answer.permanent
                      /\ Latest.receipt = answer.receipt =>
                           Closes(Latest.receipt, Slot + 1, Latest.unix)
    BY DEF ExpiredCanBeClosed
  <2>1. AnswerOK
    BY DEF ReadsInv
  <2>2. Slot \in Nat /\ Latest.unix \in Nat
    BY LatestTyped DEF ReadsInv
  <2>3. ~isPermanentReceipt(answer.receipt) /\ Reached(answer.receipt.expires)
    BY <2>1 DEF AnswerOK
  <2>4. ~answer.permanent
    BY <2>1, <2>3 DEF AnswerOK
  <2>5. /\ answer.receipt.expires \in Clocks /\ answer.receipt.expires.slot # 0
        /\ answer.receipt.expires.slot <= Slot /\ answer.receipt.expires.unix <= Latest.unix
    BY <2>3 DEF Reached, isPermanentReceipt
  <2>6. Closes(answer.receipt, Slot + 1, Latest.unix)
    BY <2>2, <2>5 DEF Closes, Clocks
  <2> QED
    BY <2>4, <2>6
<1> QED
  BY <1>1, ReadsStart, ReadsStep, PTL DEF ReadsSpec

\* What inspect said of a receipt, old as the node may be, is what claim answers that intent
\* until both deadlines have passed, and for good if it is permanent (client.ts:62-76): it
\* takes that no receipt goes away before (HistoryOK) and that claim never replaces one.
THEOREM MatchesHold == ReadsSpec => []MatchHoldsWhileRetained
<1>1. ReadsInv => MatchHoldsWhileRetained
  <2> SUFFICES ASSUME ReadsInv, Summarised,
                      \/ answer.permanent
                      \/ Slot < answer.receipt.expires.slot
                      \/ Latest.unix < answer.receipt.expires.unix
               PROVE  ClaimAnswer(Latest.receipt, answer.intent) =
                        IF answer.matchesIntent THEN "AlreadyCommitted"
                        ELSE "IdempotencyConflict"
    BY DEF MatchHoldsWhileRetained
  <2>1. AnswerOK
    BY DEF ReadsInv
  <2>2. Slot \in Nat /\ Latest.unix \in Nat
    BY LatestTyped DEF ReadsInv
  <2>3. answer.receipt.expires \in Clocks
    BY <2>1 DEF AnswerOK, Receipts
  <2>4. ~Lapsed(answer.receipt)
    <3>1. CASE answer.permanent
      BY <2>1, <3>1 DEF AnswerOK, Lapsed, isPermanentReceipt
    <3>2. CASE Slot < answer.receipt.expires.slot \/ Latest.unix < answer.receipt.expires.unix
      BY <2>2, <2>3, <3>2 DEF Lapsed, Clocks
    <3> QED
      BY <3>1, <3>2
  <2>5. Latest.receipt = answer.receipt
    BY <2>1, <2>4 DEF AnswerOK, Kept
  <2>6. ~DataIsEmpty(answer.receipt)
    BY <2>1, ReadsAssumption DEF AnswerOK, DataIsEmpty, Receipts, Clocks
  <2> QED
    BY <2>1, <2>5, <2>6 DEF AnswerOK, ClaimAnswer
<1> QED
  BY <1>1, ReadsStart, ReadsStep, PTL DEF ReadsSpec

-----------------------------------------------------------------------------
(* PrepareIntent *)

Accepted(n, refund) == InRange(n) /\ refund # Receipt

\* What each step leaves for the next: a message that is handed to the program holds the
\* retention that was asked for, in range, and a refund destination that is not the receipt.
PrepareInv ==
  /\ stage \in {"parse", "prepare", "claim", "done"}
  /\ stage # "done" => recorded = Nothing /\ error = Nothing
  /\ stage = "claim" => data.retention = seconds /\ Accepted(data.retention, data.refund)
  /\ RecordsWhatWasAsked
  /\ PreparedIsAccepted

\* A retention that assertValidRetention lets through is far inside the field and does not wrap.
LEMMA InRangeFits ==
  ASSUME NEW n, InRange(n)
  PROVE  setBigUint64(n) = n
<1>1. n \in 0 .. U64 - 1
  BY PrepareAssumption DEF InRange, PERMANENT_RETENTION
<1>2. U64 \in Nat /\ U64 > 0
  BY PrepareAssumption
<1> QED
  BY <1>1, <1>2 DEF setBigUint64

LEMMA PreparedInit == PrepareInit => PrepareInv
BY PrepareAssumption DEF PrepareInit, PrepareInv, RecordsWhatWasAsked, PreparedIsAccepted

LEMMA PreparedStep == PrepareInv /\ [PrepareNext]_prepareVars => PrepareInv'
<1> SUFFICES ASSUME PrepareInv, [PrepareNext]_prepareVars PROVE PrepareInv'
  OBVIOUS
<1> USE DEF PrepareInv, RecordsWhatWasAsked, PreparedIsAccepted, Accepted
<1>1. CASE Parse
  BY <1>1, PrepareAssumption DEF Parse, Throws
<1>2. CASE Prepare
  <2>1. CASE Throws("sdk") /\ stage = "prepare"
    BY <2>1, PrepareAssumption DEF Throws
  <2>2. CASE /\ stage = "prepare"
             /\ assertValidRetention(seconds) /\ RefundOf(args) # Receipt
             /\ data' = [retention |-> setBigUint64(seconds), refund |-> RefundOf(args)]
             /\ stage' = "claim"
             /\ UNCHANGED <<args, seconds, recorded, error>>
    <3>1. setBigUint64(seconds) = seconds
      BY <2>2, InRangeFits DEF assertValidRetention
    <3> QED
      BY <2>2, <3>1 DEF assertValidRetention, InRange
  <2> QED
    BY <1>2, <2>1, <2>2 DEF Prepare
<1>3. CASE Claim
  <2>1. InRange(data.retention) /\ data.refund # Receipt
    BY <1>3 DEF Claim
  <2>2. /\ recorded' = [retention |-> data.retention, refund |-> data.refund]
        /\ stage' = "done" /\ UNCHANGED <<args, seconds, data, error>>
    BY <1>3, <2>1 DEF Claim
  <2> QED
    BY <1>3, <2>1, <2>2 DEF Claim
<1>4. CASE UNCHANGED prepareVars
  BY <1>4 DEF prepareVars, InRange
<1> QED
  BY <1>1, <1>2, <1>3, <1>4 DEF PrepareNext

\* Whatever the caller passes, the retention that the program records is the one that was asked
\* for: what would wrap in the u64 is refused before it is written (instructions.ts:69-70, 206).
THEOREM RetentionIsKept == PrepareSpec => []RecordsWhatWasAsked
<1>1. PrepareInv => RecordsWhatWasAsked
  BY DEF PrepareInv
<1> QED
  BY <1>1, PreparedInit, PreparedStep, PTL DEF PrepareSpec

\* The program never refuses the arguments of a claim that the SDK has prepared
\* (instructions.ts:107-113, 239-246 against claim.rs:65-84).
THEOREM PreparedClaimsPass == PrepareSpec => []PreparedIsAccepted
<1>1. PrepareInv => PreparedIsAccepted
  BY DEF PrepareInv
<1> QED
  BY <1>1, PreparedInit, PreparedStep, PTL DEF PrepareSpec

-----------------------------------------------------------------------------
(* The scripts: the cluster that they reach, and a submission *)

\* What no fork takes back.
Final == {l \in landed : l.slot <= confirmed}

\* Messages that were handed over land, each once.
NetInv ==
  /\ slot \in Nat /\ confirmed \in Nat
  /\ \A l \in landed : l.msg \in inflight /\ l.slot \in Nat /\ l.slot <= slot
  /\ \A l1, l2 \in landed : l1.msg = l2.msg => l1 = l2

Busy == {"send", "poll", "detail", "returned"}

Told(i, e) == \E l \in Final : l.msg = signed[i] /\ l.result = e
InSlot(i, s) == \E l \in Final : l.msg = signed[i] /\ l.slot = s

\* What a submission returns: for each message what the confirmed chain holds.
Returned ==
  /\ DOMAIN results = DOMAIN signed
  /\ results = [i \in DOMAIN results |-> results[i]]
  /\ \A i \in DOMAIN signed :
       /\ Told(i, results[i].error)
       /\ results[i].failed = (results[i].error # AB!Ok)
       /\ results[i].slot # AB!Unknown => InSlot(i, results[i].slot)

SubmissionInv ==
  /\ pc \in Busy => \A i \in DOMAIN signed : errors[i] # AB!Pending => Told(i, errors[i])
  /\ pc = "detail" => \A i \in DOMAIN signed : errors[i] # AB!Pending
  /\ pc = "returned" => Returned

\* How a transaction of a script ends.
Outcomes == {AB!Ok, AB!BusinessError(1), AB!ClaimError(AB!AlreadyCommitted)}


\* The cluster moves: blocks are produced, confirmed, abandoned, and a message lands.
LandsAs(m, r) ==
  /\ \A l \in landed : l.msg # m
  /\ landed' = landed \cup {[msg |-> m, result |-> r, slot |-> slot]}
  /\ UNCHANGED <<slot, confirmed>>

Moves ==
  /\ UNCHANGED <<inflight, pc, signed, errors, results>>
  /\ \/ slot' = slot + 1 /\ UNCHANGED <<landed, confirmed>>
     \/ confirmed' \in Nat /\ confirmed' > confirmed /\ UNCHANGED <<slot, landed>>
     \/ /\ \E s \in Nat : s > confirmed /\ landed' = {l \in landed : l.slot < s}
        /\ UNCHANGED <<slot, confirmed>>
     \/ \E m \in inflight : \E r : LandsAs(m, r)

chainVars == <<slot, inflight, landed, confirmed>>

\* A script goes from one submission to the next.
Signs(batch) ==
  /\ pc = "blockhash" /\ pc' = "send"
  /\ signed' = batch /\ results' = << >>
  /\ errors' = [i \in DOMAIN signed' |-> AB!Pending]
  /\ UNCHANGED chainVars

HandsOver ==
  /\ pc = "send" /\ pc' \in {"send", "poll", "done"}
  /\ \E i \in DOMAIN signed : inflight' \in {inflight, inflight \cup {signed[i]}}
  /\ UNCHANGED <<slot, landed, confirmed, signed, errors, results>>

Polls ==
  /\ pc = "poll" /\ pc' \in {"poll", "detail"}
  /\ \A i \in DOMAIN signed : errors'[i] = errors[i] \/ Told(i, errors'[i])
  /\ pc' = "detail" => \A i \in DOMAIN signed : errors'[i] # AB!Pending
  /\ UNCHANGED <<chainVars, signed, results>>

Details ==
  /\ pc = "detail" /\ pc' = "returned" /\ Returned'
  /\ UNCHANGED <<chainVars, signed, errors>>

Rests ==
  /\ pc' = pc \/ pc' \notin Busy
  /\ UNCHANGED <<chainVars, signed, errors, results>>

\* What is final stays.
LEMMA MovesKeep ==
  ASSUME NetInv, Moves
  PROVE  NetInv' /\ Final \subseteq Final'
<1>1. inflight' = inflight
  BY DEF Moves
<1>2. CASE slot' = slot + 1 /\ UNCHANGED <<landed, confirmed>>
  BY <1>1, <1>2 DEF NetInv, Final
<1>3. CASE confirmed' \in Nat /\ confirmed' > confirmed /\ UNCHANGED <<slot, landed>>
  BY <1>1, <1>3 DEF NetInv, Final
<1>4. ASSUME NEW s \in Nat, s > confirmed, landed' = {l \in landed : l.slot < s},
             UNCHANGED <<slot, confirmed>>
      PROVE  NetInv' /\ Final \subseteq Final'
  BY <1>1, <1>4 DEF NetInv, Final
<1>5. ASSUME NEW m \in inflight, NEW r, LandsAs(m, r)
      PROVE  NetInv' /\ Final \subseteq Final'
  BY <1>1, <1>5 DEF NetInv, Final, LandsAs
<1> QED
  BY <1>2, <1>3, <1>4, <1>5 DEF Moves

\* While the messages of a submission stay, so does what was told of them.
LEMMA ToldStays ==
  ASSUME Final \subseteq Final', UNCHANGED signed
  PROVE  /\ \A i, e : Told(i, e) => Told(i, e)'
         /\ UNCHANGED results /\ Returned => Returned'
<1>1. \A i, e : Told(i, e) => Told(i, e)'
  BY DEF Told
<1>2. \A i, s : InSlot(i, s) => InSlot(i, s)'
  BY DEF InSlot
<1>3. ASSUME UNCHANGED results, Returned PROVE Returned'
  BY <1>1, <1>2, <1>3 DEF Returned, AB!Unknown, AB!Ok, Told, InSlot
<1> QED
  BY <1>1, <1>3

LEMMA SubmissionStep ==
  ASSUME NetInv, SubmissionInv,
         Moves \/ (\E batch : Signs(batch)) \/ HandsOver \/ Polls \/ Details \/ Rests
  PROVE  NetInv' /\ SubmissionInv' /\ Final \subseteq Final'
<1>1. CASE Moves
  <2>1. NetInv' /\ Final \subseteq Final' /\ UNCHANGED <<pc, signed, errors, results>>
    BY <1>1, MovesKeep DEF Moves
  <2> QED
    BY <2>1, ToldStays DEF SubmissionInv, Told, AB!Pending
<1>2. ASSUME NEW batch, Signs(batch) PROVE NetInv' /\ SubmissionInv' /\ Final \subseteq Final'
  BY <1>2 DEF Signs, chainVars, NetInv, Final, SubmissionInv, Busy, AB!Pending
<1>3. CASE HandsOver
  <2>1. NetInv' /\ Final \subseteq Final'
    BY <1>3 DEF HandsOver, NetInv, Final
  <2> QED
    BY <1>3, <2>1, ToldStays DEF HandsOver, SubmissionInv, Told, Busy, AB!Pending
<1>4. CASE Polls
  <2>1. NetInv' /\ Final \subseteq Final'
    BY <1>4 DEF Polls, chainVars, NetInv, Final
  <2> QED
    BY <1>4, <2>1, ToldStays DEF Polls, SubmissionInv, Told, Busy, AB!Pending
<1>5. CASE Details
  <2>1. NetInv' /\ Final \subseteq Final'
    BY <1>5 DEF Details, chainVars, NetInv, Final
  <2> QED
    BY <1>5, <2>1, ToldStays DEF Details, SubmissionInv, Told, Busy, AB!Pending
<1>6. CASE Rests
  <2>1. NetInv' /\ Final \subseteq Final'
    BY <1>6 DEF Rests, chainVars, NetInv, Final
  <2> QED
    BY <1>6, <2>1, ToldStays DEF Rests, chainVars, SubmissionInv, Told, Busy, AB!Pending
<1> QED
  BY <1>1, <1>2, <1>3, <1>4, <1>5, <1>6

-----------------------------------------------------------------------------
(* What the two scripts do to the cluster and to a submission is of that form *)

LEMMA ABChain ==
  ASSUME NetInv,
         \/ AB!NextSlot \/ AB!Confirms \/ AB!Forks
         \/ \E m \in inflight : \E r : AB!Lands(m, r)
  PROVE  Moves /\ UNCHANGED exit
<1> USE DEF AB!script, AB!submission, AB!cluster
<1>1. CASE AB!NextSlot
  BY <1>1 DEF AB!NextSlot, AB!SlotAdvances, Moves
<1>2. CASE AB!Confirms
  BY <1>2 DEF AB!Confirms, NetInv, Moves
<1>3. CASE AB!Forks
  BY <1>3 DEF AB!Forks, NetInv, Moves
<1>4. ASSUME NEW m \in inflight, NEW r, AB!Lands(m, r) PROVE Moves /\ UNCHANGED exit
  <2>1. LandsAs(m, r)
    BY <1>4 DEF AB!Lands, AB!Executes, AB!Processed, LandsAs
  <2> QED
    BY <1>4, <2>1 DEF AB!Lands, AB!Executes, Moves
<1> QED
  BY <1>1, <1>2, <1>3, <1>4

LEMMA ABFetches ==
  ASSUME NEW old, NEW batch, AB!FetchFreshBlockhash(old, batch)
  PROVE  /\ UNCHANGED exit
         /\ \/ \E v \in AB!Views : Signs(batch[v]) /\ AB!IsFresh(v, old)
            \/ Rests /\ pc' = pc
<1>1. ASSUME NEW v \in AB!Views, AB!IsFresh(v, old), signed' = batch[v],
             errors' = [i \in DOMAIN signed' |-> AB!Pending], results' = << >>,
             pc' = "send", pc = "blockhash", UNCHANGED <<AB!cluster, confirmed>>
      PROVE  Signs(batch[v])
  BY <1>1 DEF Signs, chainVars, AB!cluster, AB!Pending, AB!Pending
<1> QED
  BY <1>1 DEF AB!FetchFreshBlockhash, Rests, chainVars, AB!cluster, AB!script

LEMMA ABEnds ==
  ASSUME NEW code, AB!Ends(code)
  PROVE  Rests /\ pc' = "done" /\ exit' = code
BY DEF AB!Ends, AB!cluster, AB!submission, Rests, chainVars, Busy

LEMMA ABPolls ==
  ASSUME NetInv, AB!Poll
  PROVE  Polls /\ UNCHANGED exit
<1>1. PICK v \in AB!Views :
        errors' = [i \in DOMAIN signed |->
          IF errors[i] = AB!Pending /\ \E l \in AB!Statuses(v) : l.msg = signed[i]
          THEN (CHOOSE l \in AB!Statuses(v) : l.msg = signed[i]).result
          ELSE errors[i]]
  BY DEF AB!Poll
<1>2. AB!Statuses(v) \subseteq Final
  BY DEF AB!Statuses, AB!Seen, AB!Views, Final, NetInv
<1>3. ASSUME NEW i \in DOMAIN signed PROVE errors'[i] = errors[i] \/ Told(i, errors'[i])
  <2>1. CASE errors[i] = AB!Pending /\ \E l \in AB!Statuses(v) : l.msg = signed[i]
    <3> DEFINE found == CHOOSE l \in AB!Statuses(v) : l.msg = signed[i]
    <3>1. found \in AB!Statuses(v) /\ found.msg = signed[i]
      BY <2>1
    <3>2. errors'[i] = found.result
      BY <1>1, <2>1
    <3> QED
      BY <1>2, <3>1, <3>2 DEF Told
  <2>2. CASE ~(errors[i] = AB!Pending /\ \E l \in AB!Statuses(v) : l.msg = signed[i])
    BY <1>1, <2>2
  <2> QED
    BY <2>1, <2>2
<1>4. pc' \in {"poll", "detail"} /\ (pc' = "detail" => \A i \in DOMAIN signed : errors'[i] # AB!Pending)
  BY DEF AB!Poll, AB!Pending, AB!Pending
<1> QED
  BY <1>3, <1>4 DEF AB!Poll, AB!cluster, Polls, chainVars

LEMMA ABFetchesDetails ==
  ASSUME SubmissionInv, AB!FetchDetails
  PROVE  Details /\ UNCHANGED exit
<1>1. PICK known \in SUBSET DOMAIN signed :
        results' = [i \in DOMAIN signed |->
          [failed |-> errors[i] # AB!Ok, error |-> errors[i],
           slot |-> IF \E l \in AB!Seen(confirmed) : i \in known /\ l.msg = signed[i]
                    THEN (CHOOSE l \in AB!Seen(confirmed) : l.msg = signed[i]).slot
                    ELSE AB!Unknown]]
  BY DEF AB!FetchDetails
<1>2. pc = "detail" /\ pc' = "returned"
      /\ UNCHANGED <<slot, inflight, landed, confirmed, signed, errors, exit>>
  BY DEF AB!FetchDetails, AB!cluster
<1>3. AB!Seen(confirmed) = Final /\ Final' = Final
  BY <1>2 DEF AB!Seen, Final
<1>4. ASSUME NEW i \in DOMAIN signed
      PROVE  /\ Told(i, errors[i])
             /\ results'[i].error = errors[i]
             /\ results'[i].failed = (errors[i] # AB!Ok)
             /\ results'[i].slot # AB!Unknown => InSlot(i, results'[i].slot)
  <2>1. Told(i, errors[i])
    BY <1>2 DEF SubmissionInv, Busy
  <2>2. results'[i].error = errors[i] /\ results'[i].failed = (errors[i] # AB!Ok)
    BY <1>1 DEF AB!Ok, AB!Ok
  <2>3. CASE \E l \in Final : i \in known /\ l.msg = signed[i]
    <3> DEFINE found == CHOOSE l \in Final : l.msg = signed[i]
    <3>1. found \in Final /\ found.msg = signed[i]
      BY <2>3
    <3>2. results'[i].slot = found.slot
      BY <1>1, <1>3, <2>3
    <3> QED
      BY <2>1, <2>2, <3>1, <3>2 DEF InSlot
  <2>4. CASE ~\E l \in Final : i \in known /\ l.msg = signed[i]
    <3>1. results'[i].slot = AB!Unknown
      BY <1>1, <1>3, <2>4
    <3> QED
      BY <2>1, <2>2, <3>1 DEF AB!Unknown, AB!Unknown
  <2> QED
    BY <2>3, <2>4
<1>5. DOMAIN results' = DOMAIN signed /\ results' = [i \in DOMAIN results' |-> results'[i]]
  BY <1>1
<1>6. Returned'
  BY <1>2, <1>3, <1>4, <1>5 DEF Returned, Told, InSlot, AB!Unknown, AB!Ok
<1> QED
  BY <1>2, <1>6 DEF Details, chainVars

LEMMA ABSubmits ==
  ASSUME NetInv, SubmissionInv, NEW code, AB!Submits(code)
  PROVE  \/ HandsOver /\ (UNCHANGED exit \/ (pc' = "done" /\ exit' = code))
         \/ (Polls \/ Details) /\ UNCHANGED exit
         \/ Rests /\ pc' = "done" /\ exit' = code
<1>1. ASSUME NEW i \in DOMAIN signed, AB!SendAnswered(i) \/ AB!SendRetries(i) \/ AB!SendFails(i, code)
      PROVE  HandsOver /\ (UNCHANGED exit \/ (pc' = "done" /\ exit' = code))
  <2> USE DEF HandsOver, AB!SetSending, AB!Forwards, AB!cluster, AB!submission
  <2>1. CASE AB!SendAnswered(i)
    BY <2>1 DEF AB!SendAnswered
  <2>2. CASE AB!SendRetries(i)
    BY <2>2 DEF AB!SendRetries
  <2>3. CASE AB!SendFails(i, code)
    BY <2>3 DEF AB!SendFails
  <2> QED
    BY <1>1, <2>1, <2>2, <2>3
<1>2. CASE AB!NeverConfirmed(code)
  BY <1>2, ABEnds DEF AB!NeverConfirmed
<1> QED
  BY <1>1, <1>2, ABPolls, ABFetchesDetails DEF AB!Submits

LEMMA RaceChain ==
  ASSUME NetInv,
         \/ Race!NextSlot \/ Race!Confirms \/ Race!Forks
         \/ \E m \in inflight : \E r : Race!Lands(m, r)
  PROVE  Moves /\ UNCHANGED exit
<1> USE DEF Race!script, Race!submission, Race!cluster
<1>1. CASE Race!NextSlot
  BY <1>1 DEF Race!NextSlot, Race!SlotAdvances, Moves
<1>2. CASE Race!Confirms
  BY <1>2 DEF Race!Confirms, NetInv, Moves
<1>3. CASE Race!Forks
  BY <1>3 DEF Race!Forks, NetInv, Moves
<1>4. ASSUME NEW m \in inflight, NEW r, Race!Lands(m, r) PROVE Moves /\ UNCHANGED exit
  <2>1. LandsAs(m, r)
    BY <1>4 DEF Race!Lands, Race!Executes, Race!Processed, LandsAs
  <2> QED
    BY <1>4, <2>1 DEF Race!Lands, Race!Executes, Moves
<1> QED
  BY <1>1, <1>2, <1>3, <1>4

LEMMA RaceFetches ==
  ASSUME NEW old, NEW batch, Race!FetchFreshBlockhash(old, batch)
  PROVE  /\ UNCHANGED exit
         /\ \/ \E v \in Race!Views : Signs(batch[v]) /\ Race!IsFresh(v, old)
            \/ Rests /\ pc' = pc
<1>1. ASSUME NEW v \in Race!Views, Race!IsFresh(v, old), signed' = batch[v],
             errors' = [i \in DOMAIN signed' |-> Race!Pending], results' = << >>,
             pc' = "send", pc = "blockhash", UNCHANGED <<Race!cluster, confirmed>>
      PROVE  Signs(batch[v])
  BY <1>1 DEF Signs, chainVars, Race!cluster, Race!Pending, AB!Pending
<1> QED
  BY <1>1 DEF Race!FetchFreshBlockhash, Rests, chainVars, Race!cluster, Race!script

LEMMA RaceEnds ==
  ASSUME NEW code, Race!Ends(code)
  PROVE  Rests /\ pc' = "done" /\ exit' = code
BY DEF Race!Ends, Race!cluster, Race!submission, Rests, chainVars, Busy

LEMMA RacePolls ==
  ASSUME NetInv, Race!Poll
  PROVE  Polls /\ UNCHANGED exit
<1>1. PICK v \in Race!Views :
        errors' = [i \in DOMAIN signed |->
          IF errors[i] = Race!Pending /\ \E l \in Race!Statuses(v) : l.msg = signed[i]
          THEN (CHOOSE l \in Race!Statuses(v) : l.msg = signed[i]).result
          ELSE errors[i]]
  BY DEF Race!Poll
<1>2. Race!Statuses(v) \subseteq Final
  BY DEF Race!Statuses, Race!Seen, Race!Views, Final, NetInv
<1>3. ASSUME NEW i \in DOMAIN signed PROVE errors'[i] = errors[i] \/ Told(i, errors'[i])
  <2>1. CASE errors[i] = Race!Pending /\ \E l \in Race!Statuses(v) : l.msg = signed[i]
    <3> DEFINE found == CHOOSE l \in Race!Statuses(v) : l.msg = signed[i]
    <3>1. found \in Race!Statuses(v) /\ found.msg = signed[i]
      BY <2>1
    <3>2. errors'[i] = found.result
      BY <1>1, <2>1
    <3> QED
      BY <1>2, <3>1, <3>2 DEF Told
  <2>2. CASE ~(errors[i] = Race!Pending /\ \E l \in Race!Statuses(v) : l.msg = signed[i])
    BY <1>1, <2>2
  <2> QED
    BY <2>1, <2>2
<1>4. pc' \in {"poll", "detail"} /\ (pc' = "detail" => \A i \in DOMAIN signed : errors'[i] # AB!Pending)
  BY DEF Race!Poll, Race!Pending, AB!Pending
<1> QED
  BY <1>3, <1>4 DEF Race!Poll, Race!cluster, Polls, chainVars

LEMMA RaceFetchesDetails ==
  ASSUME SubmissionInv, Race!FetchDetails
  PROVE  Details /\ UNCHANGED exit
<1>1. PICK known \in SUBSET DOMAIN signed :
        results' = [i \in DOMAIN signed |->
          [failed |-> errors[i] # Race!Ok, error |-> errors[i],
           slot |-> IF \E l \in Race!Seen(confirmed) : i \in known /\ l.msg = signed[i]
                    THEN (CHOOSE l \in Race!Seen(confirmed) : l.msg = signed[i]).slot
                    ELSE Race!Unknown]]
  BY DEF Race!FetchDetails
<1>2. pc = "detail" /\ pc' = "returned"
      /\ UNCHANGED <<slot, inflight, landed, confirmed, signed, errors, exit>>
  BY DEF Race!FetchDetails, Race!cluster
<1>3. Race!Seen(confirmed) = Final /\ Final' = Final
  BY <1>2 DEF Race!Seen, Final
<1>4. ASSUME NEW i \in DOMAIN signed
      PROVE  /\ Told(i, errors[i])
             /\ results'[i].error = errors[i]
             /\ results'[i].failed = (errors[i] # AB!Ok)
             /\ results'[i].slot # AB!Unknown => InSlot(i, results'[i].slot)
  <2>1. Told(i, errors[i])
    BY <1>2 DEF SubmissionInv, Busy
  <2>2. results'[i].error = errors[i] /\ results'[i].failed = (errors[i] # AB!Ok)
    BY <1>1 DEF Race!Ok, AB!Ok
  <2>3. CASE \E l \in Final : i \in known /\ l.msg = signed[i]
    <3> DEFINE found == CHOOSE l \in Final : l.msg = signed[i]
    <3>1. found \in Final /\ found.msg = signed[i]
      BY <2>3
    <3>2. results'[i].slot = found.slot
      BY <1>1, <1>3, <2>3
    <3> QED
      BY <2>1, <2>2, <3>1, <3>2 DEF InSlot
  <2>4. CASE ~\E l \in Final : i \in known /\ l.msg = signed[i]
    <3>1. results'[i].slot = Race!Unknown
      BY <1>1, <1>3, <2>4
    <3> QED
      BY <2>1, <2>2, <3>1 DEF Race!Unknown, AB!Unknown
  <2> QED
    BY <2>3, <2>4
<1>5. DOMAIN results' = DOMAIN signed /\ results' = [i \in DOMAIN results' |-> results'[i]]
  BY <1>1
<1>6. Returned'
  BY <1>2, <1>3, <1>4, <1>5 DEF Returned, Told, InSlot, AB!Unknown, AB!Ok
<1> QED
  BY <1>2, <1>6 DEF Details, chainVars

LEMMA RaceSubmits ==
  ASSUME NetInv, SubmissionInv, NEW code, Race!Submits(code)
  PROVE  \/ HandsOver /\ (UNCHANGED exit \/ (pc' = "done" /\ exit' = code))
         \/ (Polls \/ Details) /\ UNCHANGED exit
         \/ Rests /\ pc' = "done" /\ exit' = code
<1>1. ASSUME NEW i \in DOMAIN signed, Race!SendAnswered(i) \/ Race!SendRetries(i) \/ Race!SendFails(i, code)
      PROVE  HandsOver /\ (UNCHANGED exit \/ (pc' = "done" /\ exit' = code))
  <2> USE DEF HandsOver, Race!SetSending, Race!Forwards, Race!cluster, Race!submission
  <2>1. CASE Race!SendAnswered(i)
    BY <2>1 DEF Race!SendAnswered
  <2>2. CASE Race!SendRetries(i)
    BY <2>2 DEF Race!SendRetries
  <2>3. CASE Race!SendFails(i, code)
    BY <2>3 DEF Race!SendFails
  <2> QED
    BY <1>1, <2>1, <2>2, <2>3
<1>2. CASE Race!NeverConfirmed(code)
  BY <1>2, RaceEnds DEF Race!NeverConfirmed
<1> QED
  BY <1>1, <1>2, RacePolls, RaceFetchesDetails DEF Race!Submits

-----------------------------------------------------------------------------
(* commitonce-demo.ts *)

\* m was signed at step j of the script.
Made(m, j) ==
  /\ m.kind = AB!Script[j].kind
  /\ m.scenario = AB!Script[j].scenario /\ m.attempt = AB!Script[j].attempt

\* Every step signs one message, and only a step that was reached.
StepsInv ==
  /\ step \in 1 .. 7
  /\ pc \in Busy \cup {"blockhash", "final", "done"}
  /\ pc = "final" => step \in {4, 7}
  /\ \A m \in inflight : \E j \in 1 .. step : Made(m, j)
  /\ \A m1, m2 \in inflight : \A j \in 1 .. 7 : Made(m1, j) /\ Made(m2, j) => m1 = m2
  /\ pc = "blockhash" => \A m \in inflight : ~Made(m, step)
  /\ pc \in Busy \cup {"final"} =>
       /\ DOMAIN signed = {1} /\ Made(signed[1], step)
       /\ \A m \in inflight : Made(m, step) => m = signed[1]

\* The second attempt of a scenario is built on another blockhash than the first.
BlockhashInv ==
  /\ step \in {3, 6} /\ pc \in Busy => previous = signed[1].recent
  /\ step \in {4, 7} /\ pc = "blockhash" =>
       \A m \in inflight : Made(m, step - 1) => m.recent = previous
  /\ step \in {4, 7} /\ pc \in Busy =>
       \A m \in inflight : Made(m, step - 1) => m.recent # signed[1].recent
  /\ \A m1, m2 \in inflight : \A j \in {4, 7} :
       Made(m1, j - 1) /\ Made(m2, j) => m1.recent # m2.recent

GuardedOk(l) == l.msg.kind = "attempt" /\ l.msg.scenario = "B" /\ l.result = AB!Ok

\* The guard lets one increment of B through.
GuardInv ==
  /\ \A l \in landed : l.result \in Outcomes
  /\ \A l1, l2 \in landed : GuardedOk(l1) /\ GuardedOk(l2) => l1 = l2

FinalAttempt(s, n, r) ==
  \E l \in Final :
    /\ l.msg.kind = "attempt" /\ l.msg.scenario = s /\ l.msg.attempt = n
    /\ l.result = r

BothRan == FinalAttempt("A", 1, AB!Ok) /\ FinalAttempt("A", 2, AB!Ok)
OneRan == FinalAttempt("B", 1, AB!Ok) \/ FinalAttempt("B", 2, AB!Ok)
SecondRefused == FinalAttempt("B", 2, AB!ClaimError(AB!AlreadyCommitted))

\* What the script has read stays true.
PassedInv ==
  /\ step >= 5 => BothRan
  /\ step = 7 /\ pc = "final" => SecondRefused
  /\ exit = 0 => BothRan /\ OneRan /\ SecondRefused

ABInv == NetInv /\ SubmissionInv /\ StepsInv /\ BlockhashInv /\ GuardInv /\ PassedInv


LEMMA ScriptIs ==
  /\ Len(AB!Script) = 7
  /\ AB!Script[1] = [kind |-> "fund", scenario |-> "A", attempt |-> 0]
  /\ AB!Script[2] = [kind |-> "setup", scenario |-> "A", attempt |-> 0]
  /\ AB!Script[3] = [kind |-> "attempt", scenario |-> "A", attempt |-> 1]
  /\ AB!Script[4] = [kind |-> "attempt", scenario |-> "A", attempt |-> 2]
  /\ AB!Script[5] = [kind |-> "setup", scenario |-> "B", attempt |-> 0]
  /\ AB!Script[6] = [kind |-> "attempt", scenario |-> "B", attempt |-> 1]
  /\ AB!Script[7] = [kind |-> "attempt", scenario |-> "B", attempt |-> 2]
BY DEF AB!Script, AB!Step

\* What the steps sign.
LEMMA MadeIs ==
  ASSUME NEW m
  PROVE  /\ Made(m, 1) => m.kind = "fund"
         /\ Made(m, 2) => m.kind = "setup" /\ m.scenario = "A"
         /\ Made(m, 3) => m.kind = "attempt" /\ m.scenario = "A" /\ m.attempt = 1
         /\ Made(m, 4) => m.kind = "attempt" /\ m.scenario = "A" /\ m.attempt = 2
         /\ Made(m, 5) => m.kind = "setup" /\ m.scenario = "B"
         /\ Made(m, 6) => m.kind = "attempt" /\ m.scenario = "B" /\ m.attempt = 1
         /\ Made(m, 7) => m.kind = "attempt" /\ m.scenario = "B" /\ m.attempt = 2
BY ScriptIs DEF Made

\* A message tells its step.
LEMMA StepsDiffer ==
  \A m : \A i, j \in 1 .. 7 : Made(m, i) /\ Made(m, j) => i = j
<1> SUFFICES ASSUME NEW m, NEW i \in 1 .. 7, NEW j \in 1 .. 7, Made(m, i), Made(m, j)
             PROVE  i = j
  OBVIOUS
<1>1. \A k \in 1 .. 7 : k = 1 \/ k = 2 \/ k = 3 \/ k = 4 \/ k = 5 \/ k = 6 \/ k = 7
  OBVIOUS
<1> QED
  BY <1>1, MadeIs

\* An attempt was made at the step of its scenario and number.
LEMMA AttemptSteps ==
  ASSUME NEW m, NEW j \in 1 .. 7, Made(m, j), m.kind = "attempt"
  PROVE  /\ m.scenario = "A" => (j = 3 /\ m.attempt = 1) \/ (j = 4 /\ m.attempt = 2)
         /\ m.scenario = "B" => (j = 6 /\ m.attempt = 1) \/ (j = 7 /\ m.attempt = 2)
         /\ m.scenario \in {"A", "B"}
<1>1. j = 1 \/ j = 2 \/ j = 3 \/ j = 4 \/ j = 5 \/ j = 6 \/ j = 7
  OBVIOUS
<1> QED
  BY <1>1, MadeIs

\* A step that leaves the messages alone.
LEMMA ABQuiet ==
  ASSUME StepsInv, BlockhashInv, UNCHANGED <<inflight, signed, step, previous>>,
         pc' = pc \/ pc' = "done" \/ {pc, pc'} \subseteq Busy
  PROVE  StepsInv' /\ BlockhashInv'
<1>1. /\ pc' \in Busy => pc \in Busy
      /\ pc' = "blockhash" => pc = "blockhash"
      /\ pc' = "final" => pc = "final"
      /\ pc' \in Busy \cup {"blockhash", "final", "done"}
  BY DEF StepsInv, Busy
<1>2. StepsInv'
  BY <1>1 DEF StepsInv, Made
<1>3. BlockhashInv'
  BY <1>1 DEF BlockhashInv, Made
<1> QED
  BY <1>2, <1>3

\* A message is signed, on another blockhash than the scenario's last one.
LEMMA ABSigns ==
  ASSUME StepsInv, BlockhashInv, NEW v, v # previous, Signs(<<AB!Message(v)>>),
         UNCHANGED step,
         previous' = IF AB!Now.kind = "attempt" THEN v ELSE previous
  PROVE  StepsInv' /\ BlockhashInv'
<1>1. /\ DOMAIN signed' = {1} /\ signed'[1] = AB!Message(v)
      /\ pc = "blockhash" /\ pc' = "send" /\ inflight' = inflight /\ step' = step
      /\ step \in 1 .. 7
  BY DEF Signs, chainVars, StepsInv
<1>2. Made(signed'[1], step) /\ signed'[1].recent = v
  BY <1>1 DEF Made, AB!Message, AB!Now
<1>3. StepsInv'
  BY <1>1, <1>2 DEF StepsInv, Made, Busy
<1>4. step \in {3, 6} => previous' = v
  BY ScriptIs DEF AB!Now
<1>5. step \in {4, 7} => \A m \in inflight : Made(m, step - 1) => m.recent # v
  BY <1>1 DEF BlockhashInv
<1>6. BlockhashInv'
  <2>1. (step \in {3, 6} /\ pc \in Busy => previous = signed[1].recent)'
    BY <1>1, <1>2, <1>4
  <2>2. (step \in {4, 7} /\ pc = "blockhash" =>
           \A m \in inflight : Made(m, step - 1) => m.recent = previous)'
    BY <1>1
  <2>3. (step \in {4, 7} /\ pc \in Busy =>
           \A m \in inflight : Made(m, step - 1) => m.recent # signed[1].recent)'
    BY <1>1, <1>2, <1>5 DEF Made
  <2>4. (\A m1, m2 \in inflight : \A j \in {4, 7} :
           Made(m1, j - 1) /\ Made(m2, j) => m1.recent # m2.recent)'
    BY <1>1 DEF BlockhashInv, Made
  <2> QED
    BY <2>1, <2>2, <2>3, <2>4 DEF BlockhashInv
<1> QED
  BY <1>3, <1>6

\* It is handed over, perhaps not for the first time.
LEMMA ABHandsOver ==
  ASSUME StepsInv, BlockhashInv, HandsOver, UNCHANGED <<step, previous>>
  PROVE  StepsInv' /\ BlockhashInv'
<1>1. /\ pc \in Busy /\ pc = "send" /\ pc' \in {"send", "poll", "done"} /\ signed' = signed
      /\ step \in 1 .. 7 /\ DOMAIN signed = {1} /\ Made(signed[1], step)
  BY DEF HandsOver, Busy, StepsInv
<1>2. inflight' \subseteq inflight \cup {signed[1]}
  BY <1>1 DEF HandsOver
<1>3. \A m \in inflight' : Made(m, step) => m = signed[1]
  BY <1>1, <1>2 DEF StepsInv
<1>4. \A m \in inflight' : m \in inflight \/ (m = signed[1] /\ \A j \in 1 .. 7 : Made(m, j) => j = step)
  BY <1>1, <1>2, StepsDiffer
<1>5. StepsInv'
  <2>1. (\A m \in inflight : \E j \in 1 .. step : Made(m, j))'
    BY <1>1, <1>4 DEF StepsInv, Made
  <2>2. (\A m1, m2 \in inflight : \A j \in 1 .. 7 : Made(m1, j) /\ Made(m2, j) => m1 = m2)'
    <3> SUFFICES ASSUME NEW m1 \in inflight', NEW m2 \in inflight', NEW j \in 1 .. 7,
                        Made(m1, j), Made(m2, j)
                 PROVE  m1 = m2
      BY DEF Made
    <3>1. CASE j = step
      BY <1>3, <3>1
    <3>2. CASE j # step
      BY <1>4, <3>2 DEF StepsInv
    <3> QED
      BY <3>1, <3>2
  <2>3. (pc \in Busy \cup {"final"} =>
          /\ DOMAIN signed = {1} /\ Made(signed[1], step)
          /\ \A m \in inflight : Made(m, step) => m = signed[1])'
    BY <1>1, <1>3 DEF Made
  <2> QED
    BY <1>1, <2>1, <2>2, <2>3 DEF StepsInv, Busy
<1>6. BlockhashInv'
  <2>1. (step \in {4, 7} /\ pc \in Busy =>
           \A m \in inflight : Made(m, step - 1) => m.recent # signed[1].recent)'
    <3> SUFFICES ASSUME step \in {4, 7}, NEW m \in inflight', Made(m, step - 1)
                 PROVE  m.recent # signed[1].recent
      BY <1>1 DEF Made
    <3>1. m \in inflight
      BY <1>4
    <3> QED
      BY <1>1, <3>1 DEF BlockhashInv
  <2>2. (\A m1, m2 \in inflight : \A j \in {4, 7} :
           Made(m1, j - 1) /\ Made(m2, j) => m1.recent # m2.recent)'
    <3> SUFFICES ASSUME NEW m1 \in inflight', NEW m2 \in inflight', NEW j \in {4, 7},
                        Made(m1, j - 1), Made(m2, j)
                 PROVE  m1.recent # m2.recent
      BY DEF Made
    <3>1. CASE m1 \in inflight /\ m2 \in inflight
      BY <3>1 DEF BlockhashInv
    <3>2. CASE m2 = signed[1] /\ j = step
      <4>1. m1 \in inflight
        BY <1>4, <3>2
      <4> QED
        BY <1>1, <3>2, <4>1 DEF BlockhashInv
    <3>3. CASE m1 = signed[1] /\ m2 \in inflight /\ j - 1 = step
      <4>1. PICK k \in 1 .. step : Made(m2, k)
        BY <3>3 DEF StepsInv
      <4>2. k = j
        BY <1>1, <4>1, StepsDiffer
      <4> QED
        BY <1>1, <3>3, <4>1, <4>2
    <3> QED
      BY <1>4, <3>1, <3>2, <3>3
  <2> QED
    BY <1>1, <2>1, <2>2 DEF BlockhashInv, Busy
<1> QED
  BY <1>5, <1>6

\* The script goes on to its next step.
LEMMA ABGoesOn ==
  ASSUME StepsInv, BlockhashInv, UNCHANGED <<inflight, signed>>,
         pc \in {"returned", "final"}, pc' = "blockhash", step' = step + 1, step < 7,
         step \in {3, 6} => pc = "returned" /\ previous' = previous
  PROVE  StepsInv' /\ BlockhashInv'
<1>1. pc \in Busy \cup {"final"} /\ step \in 1 .. 7 /\ step + 1 \in 1 .. 7
  BY DEF Busy, StepsInv
<1>2. \A m \in inflight : \E j \in 1 .. step : Made(m, j)
  BY DEF StepsInv
<1>3. \A m \in inflight : ~Made(m, step + 1)
  <2> SUFFICES ASSUME NEW m \in inflight, Made(m, step + 1) PROVE FALSE
    OBVIOUS
  <2>1. PICK j \in 1 .. step : Made(m, j)
    BY <1>2
  <2>2. j = step + 1
    BY <1>1, <2>1, StepsDiffer
  <2> QED
    BY <1>1, <2>2
<1>4. StepsInv'
  BY <1>1, <1>2, <1>3 DEF StepsInv, Made, Busy
<1>5. BlockhashInv'
  <2>1. (step \in {4, 7} /\ pc = "blockhash" =>
           \A m \in inflight : Made(m, step - 1) => m.recent = previous)'
    <3> SUFFICES ASSUME step + 1 \in {4, 7}, NEW m \in inflight, Made(m, step)
                 PROVE  m.recent = previous'
      BY <1>1 DEF Made
    <3>1. step \in {3, 6}
      BY <1>1
    <3>2. pc \in Busy
      BY <3>1 DEF Busy
    <3>3. m = signed[1]
      BY <3>2 DEF StepsInv
    <3> QED
      BY <3>1, <3>2, <3>3 DEF BlockhashInv
  <2>2. (\A m1, m2 \in inflight : \A j \in {4, 7} :
           Made(m1, j - 1) /\ Made(m2, j) => m1.recent # m2.recent)'
    BY DEF BlockhashInv, Made
  <2> QED
    BY <2>1, <2>2 DEF BlockhashInv, Busy
<1> QED
  BY <1>4, <1>5

\* It reads the counter of a scenario that is over.
LEMMA ABReads ==
  ASSUME StepsInv, BlockhashInv, UNCHANGED <<inflight, signed, step, previous>>,
         pc = "returned", pc' = "final", step \in {4, 7}
  PROVE  StepsInv' /\ BlockhashInv'
<1>1. StepsInv'
  BY DEF StepsInv, Made, Busy
<1>2. BlockhashInv'
  BY DEF BlockhashInv, Made, Busy
<1> QED
  BY <1>1, <1>2

\* The instances count as this module does.
LEMMA DemosCount ==
  \A S : AB!Cardinality(S) = Cardinality(S) /\ Race!Cardinality(S) = Cardinality(S)
BY DEF AB!Cardinality, Race!Cardinality, Cardinality

LEMMA AtMostOne ==
  ASSUME NEW S, \A x, y \in S : x = y
  PROVE  IF S = {} THEN Cardinality(S) = 0 ELSE Cardinality(S) = 1
<1>1. CASE S = {}
  BY <1>1, FS_EmptySet
<1>2. ASSUME NEW x \in S PROVE Cardinality(S) = 1
  <2>1. S = {x}
    OBVIOUS
  <2> QED
    BY <2>1, FS_Singleton
<1> QED
  BY <1>1, <1>2

\* B's counter is at most one, and not zero once a guarded increment has run.
LEMMA GuardedCount ==
  ASSUME GuardInv, NEW v
  PROVE  /\ AB!Counter("B", v) \in {0, 1}
         /\ AB!Counter("B", v) = 1 <=> \E l \in AB!Seen(v) : GuardedOk(l)
<1> DEFINE D == AB!Done("attempt", "B", v)
<1>1. D = {l \in AB!Seen(v) : GuardedOk(l)}
  BY DEF AB!Done, GuardedOk
<1>2. \A x, y \in D : x = y
  BY <1>1 DEF GuardInv, AB!Seen
<1>3. AB!Counter("B", v) = Cardinality(D)
  BY DemosCount DEF AB!Counter
<1>4. IF D = {} THEN Cardinality(D) = 0 ELSE Cardinality(D) = 1
  BY <1>2, AtMostOne
<1> QED
  BY <1>1, <1>3, <1>4

LEMMA GuardLands ==
  ASSUME NetInv, GuardInv, NEW m \in inflight, NEW r \in AB!Results(m), LandsAs(m, r)
  PROVE  GuardInv'
<1> DEFINE new == [msg |-> m, result |-> r, slot |-> slot]
<1>1. landed' = landed \cup {new}
  BY DEF LandsAs
<1>2. r \in Outcomes
  BY DEF AB!Results, Outcomes
<1>3. \A l \in landed' : l.result \in Outcomes
  BY <1>1, <1>2 DEF GuardInv, Outcomes, AB!Ok, AB!BusinessError, AB!ClaimError, AB!AlreadyCommitted
<1>4. ASSUME NEW l \in landed, GuardedOk(l) PROVE ~GuardedOk(new)
  <2>1. l \in AB!Seen(slot)
    BY DEF NetInv, AB!Seen
  <2>2. AB!Receipt(slot)
    BY <1>4, <2>1, GuardedCount DEF AB!Receipt
  <2>3. m.kind = "attempt" /\ m.scenario = "B" => r # AB!Ok
    BY <2>2 DEF AB!Results, AB!ClaimError, AB!Ok
  <2> QED
    BY <2>3 DEF GuardedOk
<1>5. \A l1, l2 \in landed' : GuardedOk(l1) /\ GuardedOk(l2) => l1 = l2
  BY <1>1, <1>4 DEF GuardInv
<1> QED
  BY <1>3, <1>5 DEF GuardInv, GuardedOk, Outcomes, AB!Ok, AB!BusinessError, AB!ClaimError,
     AB!AlreadyCommitted

LEMMA GuardRests ==
  ASSUME GuardInv, landed' \subseteq landed
  PROVE  GuardInv'
BY DEF GuardInv, GuardedOk, Outcomes, AB!Ok, AB!BusinessError, AB!ClaimError, AB!AlreadyCommitted

\* Two messages of one step are one, and so is what became of them.
LEMMA SameAttempt ==
  ASSUME NetInv, StepsInv, NEW l1 \in landed, NEW l2 \in landed,
         l1.msg.kind = "attempt", l2.msg.kind = "attempt",
         l1.msg.scenario = l2.msg.scenario, l1.msg.attempt = l2.msg.attempt
  PROVE  l1 = l2
<1>1. l1.msg \in inflight /\ l2.msg \in inflight /\ step \in 1 .. 7
  BY DEF NetInv, StepsInv
<1>2. PICK i \in 1 .. 7, j \in 1 .. 7 : Made(l1.msg, i) /\ Made(l2.msg, j)
  BY <1>1 DEF StepsInv
<1>3. i = j
  BY <1>2, AttemptSteps
<1> QED
  BY <1>1, <1>2, <1>3 DEF NetInv, StepsInv

LEMMA AttemptNumbers ==
  ASSUME NetInv, StepsInv, NEW l \in landed, l.msg.kind = "attempt"
  PROVE  l.msg.attempt \in {1, 2} /\ l.msg.scenario \in {"A", "B"}
<1>1. l.msg \in inflight /\ step \in 1 .. 7
  BY DEF NetInv, StepsInv
<1>2. PICK j \in 1 .. 7 : Made(l.msg, j)
  BY <1>1 DEF StepsInv
<1> QED
  BY <1>2, AttemptSteps

\* A counter of two is read only when both attempts have run for good ...
LEMMA TwoMeansBoth ==
  ASSUME NetInv, StepsInv, NEW v \in AB!Views, AB!Counter("A", v) = 2
  PROVE  BothRan
<1> DEFINE D == AB!Done("attempt", "A", v)
<1>1. \A l \in D : l \in Final /\ l \in landed /\ l.result = AB!Ok
                   /\ l.msg.kind = "attempt" /\ l.msg.scenario = "A"
  BY DEF AB!Done, AB!Seen, AB!Views, Final, NetInv
<1>2. Cardinality(D) = 2
  BY DemosCount DEF AB!Counter
<1>3. ASSUME NEW n \in {1, 2}, ~\E l \in D : l.msg.attempt = n
      PROVE  FALSE
  <2>1. \A l1, l2 \in D : l1.msg.attempt = l2.msg.attempt
    BY <1>1, <1>3, AttemptNumbers
  <2>2. \A l1, l2 \in D : l1 = l2
    BY <1>1, <2>1, SameAttempt
  <2>3. Cardinality(D) = 0 \/ Cardinality(D) = 1
    BY <2>2, AtMostOne
  <2> QED
    BY <1>2, <2>3
<1>4. \A n \in {1, 2} : FinalAttempt("A", n, AB!Ok)
  BY <1>1, <1>3 DEF FinalAttempt
<1> QED
  BY <1>4 DEF BothRan

\* ... and then the counter is two for good.
LEMMA BothMeansTwo ==
  ASSUME NetInv, StepsInv, BothRan
  PROVE  AB!Counter("A", confirmed) = 2
<1> DEFINE D == AB!Done("attempt", "A", confirmed)
<1>1. PICK l1 \in Final, l2 \in Final :
        /\ l1.msg.kind = "attempt" /\ l1.msg.scenario = "A" /\ l1.msg.attempt = 1 /\ l1.result = AB!Ok
        /\ l2.msg.kind = "attempt" /\ l2.msg.scenario = "A" /\ l2.msg.attempt = 2 /\ l2.result = AB!Ok
  BY DEF BothRan, FinalAttempt
<1>2. l1 \in D /\ l2 \in D /\ l1 # l2
  BY <1>1 DEF AB!Done, AB!Seen, Final
<1>3. ASSUME NEW l \in D PROVE l = l1 \/ l = l2
  <2>1. l \in landed /\ l.msg.kind = "attempt" /\ l.msg.scenario = "A"
    BY DEF AB!Done, AB!Seen
  <2>2. l1 \in landed /\ l2 \in landed
    BY DEF Final
  <2>3. l.msg.attempt = 1 \/ l.msg.attempt = 2
    BY <2>1, AttemptNumbers
  <2> QED
    BY <1>1, <2>1, <2>2, <2>3, SameAttempt
<1>4. D = {l1} \cup {l2}
  BY <1>2, <1>3
<1>5. Cardinality({l1} \cup {l2}) = 2
  <2>1. IsFiniteSet({l1}) /\ Cardinality({l1}) = 1 /\ l2 \notin {l1}
    BY <1>2, FS_Singleton
  <2> QED
    BY <2>1, FS_AddElement
<1> QED
  BY <1>4, <1>5, DemosCount DEF AB!Counter

\* What was read stays true; only the two final reads add to it.
LEMMA PassedStays ==
  ASSUME PassedInv, Final \subseteq Final', step \in 1 .. 7,
         step' = step \/ (step' = step + 1 /\ (step = 4 => BothRan)),
         step' = 7 /\ pc' = "final" => SecondRefused,
         exit' = 0 => exit = 0 \/ (BothRan /\ OneRan /\ SecondRefused)
  PROVE  PassedInv'
<1>1. \A s, n, r : FinalAttempt(s, n, r) => FinalAttempt(s, n, r)'
  BY DEF FinalAttempt
<1>2. (BothRan => BothRan') /\ (OneRan => OneRan') /\ (SecondRefused => SecondRefused')
  BY <1>1 DEF BothRan, OneRan, SecondRefused, AB!Ok, AB!ClaimError, AB!AlreadyCommitted
<1>3. step' >= 5 => step >= 5 \/ (step = 4 /\ BothRan)
  OBVIOUS
<1> QED
  BY <1>2, <1>3 DEF PassedInv

LEMMA ABInit == AB!Init => ABInv
<1> SUFFICES ASSUME AB!Init PROVE ABInv
  OBVIOUS
<1>1. /\ slot = 0 /\ confirmed = 0 /\ inflight = {} /\ landed = {} /\ pc = "blockhash"
      /\ exit = -1 /\ step = 1
  BY DEF AB!Init, AB!TransportInit, AB!ClusterInit, AB!Running
<1> QED
  BY <1>1 DEF ABInv, NetInv, SubmissionInv, StepsInv, BlockhashInv, GuardInv, PassedInv, Busy

\* A step of the program that changes no message and ends nothing well.
LEMMA ABKeeps ==
  ASSUME ABInv, UNCHANGED <<step, previous>>,
         \/ Moves /\ GuardInv' /\ UNCHANGED exit
         \/ HandsOver /\ (exit' = exit \/ exit' # 0)
         \/ (Polls \/ Details) /\ UNCHANGED exit
         \/ Rests /\ pc' = pc /\ UNCHANGED exit
         \/ Rests /\ pc' = "done" /\ exit' # 0
         \/ UNCHANGED <<chainVars, pc, exit, signed, errors, results>>
  PROVE  ABInv'
<1>1. \/ Moves \/ HandsOver \/ Polls \/ Details \/ Rests
  BY DEF Rests, chainVars
<1>2. NetInv' /\ SubmissionInv' /\ Final \subseteq Final'
  BY <1>1, SubmissionStep DEF ABInv
<1>3. HandsOver \/ (UNCHANGED <<inflight, signed>> /\ (pc' = pc \/ pc' = "done" \/ {pc, pc'} \subseteq Busy))
  BY DEF Moves, Polls, Details, Rests, chainVars, Busy
<1>4. StepsInv' /\ BlockhashInv'
  BY <1>3, ABHandsOver, ABQuiet DEF ABInv
<1>5. GuardInv'
  BY GuardRests DEF ABInv, HandsOver, Polls, Details, Rests, chainVars
<1>6. PassedInv'
  <2>1. pc' = "final" => pc = "final"
    BY DEF Moves, HandsOver, Polls, Details, Rests
  <2>2. exit' = 0 => exit = 0
    BY DEF HandsOver, Polls, Details, Rests
  <2> QED
    BY <1>2, <2>1, <2>2, PassedStays DEF ABInv, StepsInv, PassedInv
<1> QED
  BY <1>2, <1>4, <1>5, <1>6 DEF ABInv

LEMMA ABFails ==
  ASSUME ABInv, NEW code, code # 0, AB!Ends(code), UNCHANGED AB!demo
  PROVE  ABInv'
BY ABEnds, ABKeeps DEF AB!demo

\* Where main stands when it looks at a result.
LEMMA ABStands ==
  ASSUME ABInv, pc \in {"returned", "final"}
  PROVE  /\ step \in 1 .. 7
         /\ AB!Now.kind # "attempt" => step \in {1, 2, 5}
         /\ AB!Now.kind = "attempt" /\ AB!Now.attempt = 1 => step \in {3, 6}
         /\ AB!Now.kind = "attempt" /\ AB!Now.attempt # 1 => step \in {4, 7}
<1>1. step \in 1 .. 7
  BY DEF ABInv, StepsInv
<1>2. step = 1 \/ step = 2 \/ step = 3 \/ step = 4 \/ step = 5 \/ step = 6 \/ step = 7
  BY <1>1
<1> QED
  BY <1>1, <1>2, ScriptIs DEF AB!Now

\* main goes on to the next step, when nothing is left to learn from the last one.
LEMMA ABContinues ==
  ASSUME ABInv, pc \in {"returned", "final"}, pc' = "blockhash", step' = step + 1, step < 7,
         UNCHANGED <<AB!cluster, confirmed, exit, AB!submission>>,
         step \in {3, 6} => pc = "returned" /\ previous' = previous,
         step = 4 => BothRan
  PROVE  ABInv'
<1>1. Rests
  BY DEF Rests, chainVars, AB!cluster, AB!submission, Busy
<1>2. NetInv' /\ SubmissionInv' /\ Final \subseteq Final'
  BY <1>1, SubmissionStep DEF ABInv
<1>3. StepsInv' /\ BlockhashInv'
  BY ABGoesOn DEF ABInv, AB!cluster, AB!submission
<1>4. GuardInv'
  BY GuardRests DEF ABInv, AB!cluster
<1>5. PassedInv'
  BY <1>2, PassedStays DEF ABInv, StepsInv
<1> QED
  BY <1>2, <1>3, <1>4, <1>5 DEF ABInv

LEMMA ABFetch ==
  ASSUME ABInv, AB!Fetch
  PROVE  ABInv'
<1> DEFINE batch == [v \in AB!Views |-> <<AB!Message(v)>>]
<1>1. AB!FetchFreshBlockhash(previous, batch) /\ UNCHANGED step
  BY DEF AB!Fetch
<1>2. UNCHANGED exit /\ ((\E v \in AB!Views : Signs(batch[v]) /\ AB!IsFresh(v, previous))
                         \/ (Rests /\ pc' = pc))
  BY <1>1, ABFetches
<1>3. ASSUME NEW v \in AB!Views, Signs(<<AB!Message(v)>>), v # previous
      PROVE  ABInv'
  <2>1. previous' = IF AB!Now.kind = "attempt" THEN v ELSE previous
    BY <1>3 DEF AB!Fetch, Signs, AB!Message
  <2>2. StepsInv' /\ BlockhashInv'
    BY <1>1, <1>3, <2>1, ABSigns DEF ABInv
  <2>3. NetInv' /\ SubmissionInv' /\ Final \subseteq Final'
    BY <1>3, SubmissionStep DEF ABInv
  <2>4. GuardInv'
    BY <1>3, GuardRests DEF ABInv, Signs, chainVars
  <2>5. PassedInv'
    BY <1>1, <1>2, <1>3, <2>3, PassedStays DEF ABInv, StepsInv, Signs
  <2> QED
    BY <2>2, <2>3, <2>4, <2>5 DEF ABInv
<1>4. CASE Rests /\ pc' = pc
  <2>1. pc = "blockhash" /\ previous' = previous
    BY <1>4 DEF AB!Fetch, AB!FetchFreshBlockhash
  <2> QED
    BY <1>1, <1>2, <1>4, <2>1, ABKeeps
<1> QED
  BY <1>2, <1>3, <1>4 DEF AB!IsFresh

LEMMA ABJudges ==
  ASSUME ABInv, AB!AttemptReturned
  PROVE  ABInv'
<1>1. PICK v \in AB!Views :
        IF AB!Done("setup", AB!Now.scenario, v) = {} \/ AB!Kind(results[1]) # AB!Expected
        THEN AB!Fails
        ELSE /\ pc' = IF AB!Now.attempt = 1 THEN "blockhash" ELSE "final"
             /\ step' = step + (IF AB!Now.attempt = 1 THEN 1 ELSE 0)
             /\ UNCHANGED <<AB!cluster, confirmed, exit, AB!submission, previous>>
  BY DEF AB!AttemptReturned
<1>2. pc = "returned" /\ AB!Now.kind = "attempt"
  BY DEF AB!AttemptReturned
<1>3. CASE AB!Fails
  BY <1>3, ABFails DEF AB!Fails
<1>4. CASE /\ AB!Kind(results[1]) = AB!Expected
           /\ pc' = IF AB!Now.attempt = 1 THEN "blockhash" ELSE "final"
           /\ step' = step + (IF AB!Now.attempt = 1 THEN 1 ELSE 0)
           /\ UNCHANGED <<AB!cluster, confirmed, exit, AB!submission, previous>>
  <2>1. CASE AB!Now.attempt = 1
    <3>1. step \in {3, 6}
      BY <1>2, <2>1, ABStands
    <3> QED
      BY <1>2, <1>4, <2>1, <3>1, ABContinues
  <2>2. CASE AB!Now.attempt # 1
    <3>1. step \in {4, 7}
      BY <1>2, <2>2, ABStands
    <3>2. step' = step /\ pc' = "final"
      BY <1>4, <2>2, <3>1
    <3>3. step = 7 => SecondRefused
      <4> SUFFICES ASSUME step = 7 PROVE SecondRefused
        OBVIOUS
      <4>1. AB!Kind(results[1]) = "already-committed"
        BY <1>4, ScriptIs DEF AB!Expected, AB!Now
      <4>2. results[1].error.code = AB!AlreadyCommitted
        BY <4>1 DEF AB!Kind
      <4>3. DOMAIN signed = {1} /\ Made(signed[1], 7)
        BY <1>2 DEF ABInv, StepsInv, Busy
      <4>4. PICK l \in Final : l.msg = signed[1] /\ l.result = results[1].error
        BY <1>2, <4>3 DEF ABInv, SubmissionInv, Returned, Told
      <4>5. l.result = AB!ClaimError(AB!AlreadyCommitted)
        BY <4>2, <4>4 DEF ABInv, GuardInv, Final, Outcomes, AB!Ok, AB!BusinessError,
           AB!ClaimError, AB!AlreadyCommitted
      <4> QED
        BY <4>3, <4>4, <4>5, MadeIs DEF SecondRefused, FinalAttempt
    <3>4. Rests
      BY <1>4, <3>2 DEF Rests, chainVars, AB!cluster, AB!submission, Busy
    <3>5. NetInv' /\ SubmissionInv' /\ Final \subseteq Final'
      BY <3>4, SubmissionStep DEF ABInv
    <3>6. StepsInv' /\ BlockhashInv'
      BY <1>2, <1>4, <3>1, <3>2, ABReads DEF ABInv, AB!cluster, AB!submission
    <3>7. GuardInv'
      BY <1>4, GuardRests DEF ABInv, AB!cluster
    <3>8. PassedInv'
      BY <1>4, <3>1, <3>2, <3>3, <3>5, PassedStays DEF ABInv
    <3> QED
      BY <3>5, <3>6, <3>7, <3>8 DEF ABInv
  <2> QED
    BY <2>1, <2>2
<1> QED
  BY <1>1, <1>3, <1>4

LEMMA ABFinalReads ==
  ASSUME ABInv, AB!FinalReads
  PROVE  ABInv'
<1>1. PICK v \in AB!Views, w \in AB!Views :
        IF ~AB!FinalReadPasses(AB!Now.scenario, v) \/ (AB!Now.scenario = "B" /\ ~AB!Receipt(w))
        THEN AB!Fails
        ELSE IF step = Len(AB!Script)
             THEN AB!Ends(0) /\ UNCHANGED AB!demo
             ELSE /\ pc' = "blockhash" /\ step' = step + 1 /\ previous' = Idle
                  /\ UNCHANGED <<AB!cluster, confirmed, exit, AB!submission>>
  BY DEF AB!FinalReads
<1>2. pc = "final" /\ step \in {4, 7}
  BY DEF AB!FinalReads, ABInv, StepsInv
<1>3. CASE AB!Fails
  BY <1>3, ABFails DEF AB!Fails
<1>4. CASE AB!FinalReadPasses(AB!Now.scenario, v) /\ step = 4
           /\ pc' = "blockhash" /\ step' = step + 1 /\ previous' = Idle
           /\ UNCHANGED <<AB!cluster, confirmed, exit, AB!submission>>
  <2>1. AB!Counter("A", v) = 2
    BY <1>4, ScriptIs DEF AB!FinalReadPasses, AB!ExpectedFinal, AB!Now
  <2>2. BothRan
    BY <2>1, TwoMeansBoth DEF ABInv
  <2> QED
    BY <1>2, <1>4, <2>2, ABContinues
<1>5. CASE AB!FinalReadPasses(AB!Now.scenario, v) /\ step = 7 /\ AB!Ends(0) /\ UNCHANGED AB!demo
  <2>1. AB!Counter("B", v) = 1
    BY <1>5, ScriptIs DEF AB!FinalReadPasses, AB!ExpectedFinal, AB!Now
  <2>2. PICK l \in AB!Seen(v) : GuardedOk(l)
    BY <2>1, GuardedCount DEF ABInv
  <2>3. l \in Final /\ l \in landed
    BY DEF AB!Seen, AB!Views, Final, ABInv, NetInv
  <2>4. l.msg.attempt \in {1, 2}
    BY <2>2, <2>3, AttemptNumbers DEF ABInv, GuardedOk
  <2>5. OneRan
    BY <2>2, <2>3, <2>4 DEF OneRan, FinalAttempt, GuardedOk
  <2>6. BothRan /\ SecondRefused
    BY <1>2, <1>5 DEF ABInv, PassedInv
  <2>7. Rests /\ pc' = "done" /\ exit' = 0
    BY <1>5, ABEnds
  <2>8. NetInv' /\ SubmissionInv' /\ Final \subseteq Final'
    BY <2>7, SubmissionStep DEF ABInv
  <2>9. StepsInv' /\ BlockhashInv'
    BY <1>5, <2>7, ABQuiet DEF ABInv, Rests, chainVars, AB!demo
  <2>10. GuardInv'
    BY <2>7, GuardRests DEF ABInv, Rests, chainVars
  <2>11. PassedInv'
    BY <1>5, <2>5, <2>6, <2>7, <2>8, PassedStays DEF AB!demo, ABInv
  <2> QED
    BY <2>8, <2>9, <2>10, <2>11 DEF ABInv
<1> QED
  BY <1>1, <1>2, <1>3, <1>4, <1>5, ScriptIs

LEMMA ABStep == ABInv /\ [AB!Next]_AB!vars => ABInv'
<1> SUFFICES ASSUME ABInv, [AB!Next]_AB!vars PROVE ABInv'
  OBVIOUS
<1>1. CASE UNCHANGED AB!vars
  BY <1>1, ABKeeps DEF AB!vars, AB!net, AB!cluster, AB!script, AB!submission, AB!demo, chainVars
<1>2. CASE (AB!NextSlot \/ AB!Confirms \/ AB!Forks) /\ UNCHANGED AB!demo
  <2>1. Moves /\ UNCHANGED exit
    BY <1>2, ABChain DEF ABInv
  <2>2. landed' \subseteq landed
    BY <1>2 DEF AB!NextSlot, AB!SlotAdvances, AB!Confirms, AB!Forks, AB!cluster
  <2>3. GuardInv'
    BY <2>2, GuardRests DEF ABInv
  <2> QED
    BY <1>2, <2>1, <2>3, ABKeeps DEF AB!demo
<1>3. ASSUME NEW m \in inflight, NEW r \in AB!Results(m), AB!Lands(m, r), UNCHANGED AB!demo
      PROVE  ABInv'
  <2>1. Moves /\ UNCHANGED exit
    BY <1>3, ABChain DEF ABInv
  <2>2. LandsAs(m, r)
    BY <1>3 DEF AB!Lands, AB!Executes, AB!Processed, LandsAs
  <2>3. GuardInv'
    BY <2>2, GuardLands DEF ABInv
  <2> QED
    BY <1>3, <2>1, <2>3, ABKeeps DEF AB!demo
<1>4. CASE AB!Submits(1) /\ UNCHANGED AB!demo
  <2>1. \/ HandsOver /\ (UNCHANGED exit \/ (pc' = "done" /\ exit' = 1))
        \/ (Polls \/ Details) /\ UNCHANGED exit
        \/ Rests /\ pc' = "done" /\ exit' = 1
    BY <1>4, ABSubmits DEF ABInv
  <2> QED
    BY <1>4, <2>1, ABKeeps DEF AB!demo
<1>5. CASE AB!SetupReturned
  <2>1. pc = "returned" /\ AB!Now.kind # "attempt"
    BY <1>5 DEF AB!SetupReturned
  <2>2. step \in {1, 2, 5}
    BY <2>1, ABStands
  <2>3. CASE AB!Fails
    BY <2>3, ABFails DEF AB!Fails
  <2>4. CASE pc' = "blockhash" /\ step' = step + 1
             /\ UNCHANGED <<AB!cluster, confirmed, exit, AB!submission>>
    BY <2>1, <2>2, <2>4, ABContinues
  <2> QED
    BY <1>5, <2>3, <2>4 DEF AB!SetupReturned
<1>6. CASE \/ AB!SameBlockhash(previous, 1) /\ UNCHANGED AB!demo
           \/ AB!Refused
           \/ AB!RequestFails(1) /\ UNCHANGED AB!demo
  BY <1>6, ABFails DEF AB!SameBlockhash, AB!Refused, AB!RequestFails
<1> QED
  BY <1>1, <1>2, <1>3, <1>4, <1>5, <1>6, ABFetch, ABJudges, ABFinalReads DEF AB!Next, AB!Main

\* What the invariant says of the comparison.
LEMMA ABGives ==
  ABInv => AB!ExitZeroIsTrue /\ AB!GuardedOnce /\ AB!AttemptsDiffer /\ AB!ResultsAreFinal
<1> SUFFICES ASSUME ABInv
             PROVE  AB!ExitZeroIsTrue /\ AB!GuardedOnce /\ AB!AttemptsDiffer /\ AB!ResultsAreFinal
  OBVIOUS
<1>1. AB!Seen(confirmed) = Final
  BY DEF AB!Seen, Final
<1>2. AB!ExitZeroIsTrue
  <2> SUFFICES ASSUME exit = 0
               PROVE  /\ AB!Counter("A", confirmed) = 2 /\ AB!Counter("B", confirmed) = 1
                      /\ \E l \in AB!Seen(confirmed) :
                           /\ l.msg.scenario = "B" /\ l.msg.attempt = 2
                           /\ l.result = AB!ClaimError(AB!AlreadyCommitted)
    BY DEF AB!ExitZeroIsTrue
  <2>1. BothRan /\ OneRan /\ SecondRefused
    BY DEF ABInv, PassedInv
  <2>2. AB!Counter("A", confirmed) = 2
    BY <2>1, BothMeansTwo DEF ABInv
  <2>3. AB!Counter("B", confirmed) = 1
    BY <1>1, <2>1, GuardedCount DEF ABInv, OneRan, FinalAttempt, GuardedOk
  <2> QED
    BY <1>1, <2>1, <2>2, <2>3 DEF SecondRefused, FinalAttempt
<1>3. AB!GuardedOnce
  BY GuardedCount DEF ABInv, AB!GuardedOnce
<1>4. AB!AttemptsDiffer
  <2> SUFFICES ASSUME NEW m1 \in inflight, NEW m2 \in inflight,
                      m1.kind = "attempt", m2.kind = "attempt", m1.scenario = m2.scenario, m1 # m2
               PROVE  m1.recent # m2.recent
    BY DEF AB!AttemptsDiffer
  <2>1. step \in 1 .. 7
    BY DEF ABInv, StepsInv
  <2>2. PICK i \in 1 .. 7, j \in 1 .. 7 : Made(m1, i) /\ Made(m2, j)
    BY <2>1 DEF ABInv, StepsInv
  <2>3. i # j
    BY <2>2 DEF ABInv, StepsInv
  <2>4. (j \in {4, 7} /\ i = j - 1) \/ (i \in {4, 7} /\ j = i - 1)
    BY <2>2, <2>3, AttemptSteps
  <2> QED
    BY <2>2, <2>4 DEF ABInv, BlockhashInv
<1>5. AB!ResultsAreFinal
  BY <1>1 DEF AB!ResultsAreFinal, ABInv, SubmissionInv, Returned, Told
<1> QED
  BY <1>2, <1>3, <1>4, <1>5


-----------------------------------------------------------------------------
(* concurrent-claim.ts *)

IsAttempt(m) == m.kind = "attempt"

\* The submission under way, or the last one, is that of the attempts.
IsBatch ==
  /\ DOMAIN signed = 1 .. Attempts
  /\ \A i \in 1 .. Attempts : IsAttempt(signed[i]) /\ signed[i].fee = i

\* The attempts are signed once, one for each fee.
BatchInv ==
  /\ step \in {"fund", "init", "attempt", "sweep"}
  /\ pc \in Busy \cup {"blockhash", "before", "balance", "done"}
  /\ pc = "before" => step = "init"
  /\ pc = "balance" => step = "sweep"
  /\ \A m \in inflight : IsAttempt(m) => m.fee \in 1 .. Attempts
  /\ \A m1, m2 \in inflight : IsAttempt(m1) /\ IsAttempt(m2) /\ m1.fee = m2.fee => m1 = m2
  /\ step \in {"fund", "init"} \/ (step = "attempt" /\ pc = "blockhash") =>
       \A m \in inflight : ~IsAttempt(m)
  /\ IsBatch => \A m \in inflight : IsAttempt(m) => \E i \in 1 .. Attempts : m = signed[i]
  /\ pc \in Busy => IF step = "attempt" THEN IsBatch
                    ELSE DOMAIN signed = {1} /\ signed[1].kind = step

AttemptOk(l) == IsAttempt(l.msg) /\ l.result = AB!Ok

\* The guard lets one attempt through.
RaceGuardInv ==
  /\ \A l \in landed : l.result \in Outcomes
  /\ \A l1, l2 \in landed : AttemptOk(l1) /\ AttemptOk(l2) => l1 = l2

\* One attempt has committed for good, and all the others are refused.
Held ==
  \E k \in 1 .. Attempts : \A i \in 1 .. Attempts : \E l \in Final :
    /\ IsAttempt(l.msg) /\ l.msg.fee = i
    /\ l.result = IF i = k THEN AB!Ok ELSE AB!ClaimError(AB!AlreadyCommitted)

\* What the verdict says stays true.
VerdictInv ==
  /\ verdict # {} => step = "sweep" \/ pc = "done"
  /\ "HOLDS" \in verdict => Held
  /\ verdict # {} /\ Len(results) = Attempts =>
       /\ IsBatch /\ Returned
       /\ "same-slot" \in verdict <=> Cardinality(Race!Slots) = 1

RaceInv == NetInv /\ SubmissionInv /\ BatchInv /\ RaceGuardInv /\ VerdictInv

LEMMA LenIs ==
  ASSUME NEW s, NEW n \in Nat, s = [i \in 1 .. n |-> s[i]]
  PROVE  Len(s) = n
<1> DEFINE S == {s[i] : i \in 1 .. n}
<1>1. s \in [1 .. n -> S]
  OBVIOUS
<1>2. s \in Seq(S)
  BY <1>1, SeqDef
<1>3. Len(s) \in Nat /\ DOMAIN s = 1 .. Len(s)
  BY <1>2, LenProperties
<1>4. 1 .. Len(s) = 1 .. n
  BY <1>1, <1>3
<1> QED
  BY <1>3, <1>4

LEMMA SomeAttempts ==
  Attempts \in Nat /\ Attempts >= 2 /\ 1 \in 1 .. Attempts /\ 2 \in 1 .. Attempts
BY DemosAssumption

\* A step that leaves the messages alone.
LEMMA RaceQuiet ==
  ASSUME BatchInv, UNCHANGED <<inflight, signed>>,
         pc' \in Busy \cup {"blockhash", "before", "balance", "done"},
         step' \in {"fund", "init", "attempt", "sweep"},
         pc' \in Busy => pc \in Busy /\ step' = step,
         pc' = "before" => step' = "init",
         pc' = "balance" => step' = "sweep",
         step' \in {"fund", "init"} => step \in {"fund", "init"},
         step' = "attempt" /\ pc' = "blockhash" =>
           step \in {"fund", "init"} \/ (step = "attempt" /\ pc = "blockhash")
  PROVE  BatchInv'
<1>1. IsBatch' <=> IsBatch
  BY DEF IsBatch, IsAttempt
<1> QED
  BY <1>1 DEF BatchInv, IsAttempt

\* A batch is signed, on any blockhash.
LEMMA RaceSigns ==
  ASSUME BatchInv, NEW v, Signs(Race!Messages(v)), UNCHANGED step
  PROVE  BatchInv'
<1>1. /\ signed' = Race!Messages(v) /\ pc = "blockhash" /\ pc' = "send"
      /\ inflight' = inflight /\ step' = step
  BY DEF Signs, chainVars
<1>2. CASE step = "attempt"
  <2>1. IsBatch'
    BY <1>1, <1>2 DEF IsBatch, IsAttempt, Race!Messages
  <2>2. \A m \in inflight : ~IsAttempt(m)
    BY <1>1, <1>2 DEF BatchInv
  <2> QED
    BY <1>1, <1>2, <2>1, <2>2 DEF BatchInv, IsAttempt, Busy
<1>3. CASE step # "attempt"
  <2>1. DOMAIN signed' = {1} /\ signed'[1].kind = step
    BY <1>1, <1>3 DEF Race!Messages
  <2>2. ~IsBatch'
    BY <1>3, <2>1, SomeAttempts DEF IsBatch, IsAttempt
  <2> QED
    BY <1>1, <1>3, <2>1, <2>2 DEF BatchInv, IsAttempt, Busy
<1> QED
  BY <1>2, <1>3

\* A message is handed over, perhaps not for the first time.
LEMMA RaceHandsOver ==
  ASSUME BatchInv, HandsOver, UNCHANGED step
  PROVE  BatchInv'
<1>1. /\ pc = "send" /\ pc \in Busy /\ pc' \in {"send", "poll", "done"}
      /\ signed' = signed /\ step' = step
  BY DEF HandsOver, Busy
<1>2. PICK i \in DOMAIN signed : inflight' \subseteq inflight \cup {signed[i]}
  BY DEF HandsOver
<1>3. IsBatch' <=> IsBatch
  BY <1>1 DEF IsBatch, IsAttempt
<1>4. CASE step = "attempt"
  <2>1. IsBatch /\ i \in 1 .. Attempts /\ IsAttempt(signed[i]) /\ signed[i].fee = i
    BY <1>1, <1>4 DEF BatchInv, IsBatch
  <2>2. \A m \in inflight' : IsAttempt(m) => \E j \in 1 .. Attempts : m = signed[j]
    BY <1>2, <2>1 DEF BatchInv
  <2>3. \A m \in inflight' : IsAttempt(m) => m.fee \in 1 .. Attempts
    BY <2>1, <2>2 DEF IsBatch
  <2>4. \A m1, m2 \in inflight' : IsAttempt(m1) /\ IsAttempt(m2) /\ m1.fee = m2.fee => m1 = m2
    BY <2>1, <2>2 DEF IsBatch
  <2> QED
    BY <1>1, <1>3, <1>4, <2>1, <2>2, <2>3, <2>4 DEF BatchInv, IsAttempt, Busy
<1>5. CASE step # "attempt"
  <2>1. DOMAIN signed = {1} /\ signed[1].kind = step
    BY <1>1, <1>5 DEF BatchInv
  <2>2. ~IsBatch
    BY <1>5, <2>1, SomeAttempts DEF IsBatch, IsAttempt
  <2>3. \A m \in inflight' : IsAttempt(m) => m \in inflight
    BY <1>2, <1>5, <2>1 DEF IsAttempt
  <2> QED
    BY <1>1, <1>3, <1>5, <2>1, <2>2, <2>3 DEF BatchInv, IsAttempt, Busy
<1> QED
  BY <1>4, <1>5

LEMMA RaceGuardLands ==
  ASSUME NetInv, RaceGuardInv, NEW m \in inflight, NEW r \in Race!Results(m), LandsAs(m, r)
  PROVE  RaceGuardInv'
<1> DEFINE new == [msg |-> m, result |-> r, slot |-> slot]
<1> USE DEF AB!Ok, AB!BusinessError, AB!ClaimError, AB!AlreadyCommitted
<1>1. landed' = landed \cup {new}
  BY DEF LandsAs
<1>2. r \in Outcomes
  BY DEF Race!Results, Outcomes, Race!Ok, Race!BusinessError, Race!ClaimError, Race!AlreadyCommitted
<1>3. \A l \in landed' : l.result \in Outcomes
  BY <1>1, <1>2 DEF RaceGuardInv, Outcomes
<1>4. ASSUME NEW l \in landed, AttemptOk(l) PROVE ~AttemptOk(new)
  <2>1. l \in Race!Committed(slot)
    BY <1>4 DEF NetInv, Race!Seen, Race!Committed, AttemptOk, IsAttempt, Race!Ok
  <2>2. IsAttempt(m) => r # AB!Ok
    BY <2>1 DEF Race!Results, Race!ClaimError, Race!AlreadyCommitted, IsAttempt
  <2> QED
    BY <2>2 DEF AttemptOk
<1>5. \A l1, l2 \in landed' : AttemptOk(l1) /\ AttemptOk(l2) => l1 = l2
  BY <1>1, <1>4 DEF RaceGuardInv
<1> QED
  BY <1>3, <1>5 DEF RaceGuardInv, AttemptOk, IsAttempt, Outcomes

LEMMA RaceGuardRests ==
  ASSUME RaceGuardInv, landed' \subseteq landed
  PROVE  RaceGuardInv'
BY DEF RaceGuardInv, AttemptOk, IsAttempt, Outcomes, AB!Ok, AB!BusinessError, AB!ClaimError,
   AB!AlreadyCommitted

LEMMA HeldStays ==
  ASSUME Final \subseteq Final', Held
  PROVE  Held'
BY DEF Held, IsAttempt, AB!Ok, AB!ClaimError, AB!AlreadyCommitted

\* The verdict is about a submission that stays, or that another one has replaced.
LEMMA VerdictStays ==
  ASSUME VerdictInv, Final \subseteq Final', UNCHANGED verdict,
         verdict # {} => step' = step /\ (pc = "done" => pc' = "done"),
         verdict # {} => UNCHANGED <<signed, results>> \/ Len(results') # Attempts
  PROVE  VerdictInv'
<1>1. "HOLDS" \in verdict => Held'
  BY HeldStays DEF VerdictInv
<1>2. ASSUME verdict # {}, UNCHANGED <<signed, results>>, Len(results) = Attempts
      PROVE  IsBatch' /\ Returned' /\ ("same-slot" \in verdict <=> Cardinality(Race!Slots') = 1)
  <2>1. IsBatch /\ Returned /\ ("same-slot" \in verdict <=> Cardinality(Race!Slots) = 1)
    BY <1>2 DEF VerdictInv
  <2>2. IsBatch' /\ Race!Slots' = Race!Slots
    BY <1>2, <2>1 DEF IsBatch, IsAttempt, Race!Slots
  <2> QED
    BY <1>2, <2>1, <2>2, ToldStays
<1> QED
  BY <1>1, <1>2 DEF VerdictInv

\* The verdict says HOLDS of a batch that holds for good.
LEMMA HoldsMeansHeld ==
  ASSUME RaceGuardInv, IsBatch, Returned, NEW delta, Race!Holds(delta)
  PROVE  Held
<1>1. DOMAIN results = 1 .. Attempts /\ Len(results) = Attempts
  BY LenIs, SomeAttempts DEF IsBatch, Returned
<1>2. IsFiniteSet(1 .. Attempts) /\ Cardinality(1 .. Attempts) = Attempts
  BY FS_Interval, SomeAttempts
<1>3. PICK k : Race!Succeeded = {k}
  <2>1. Race!Succeeded \subseteq 1 .. Attempts
    BY <1>1 DEF Race!Succeeded
  <2>2. IsFiniteSet(Race!Succeeded)
    BY <1>2, <2>1, FS_Subset
  <2>3. Cardinality(Race!Succeeded) = 1
    BY DemosCount DEF Race!Holds
  <2> QED
    BY <2>2, <2>3, FS_Singleton
<1>4. k \in 1 .. Attempts /\ ~results[k].failed
  BY <1>1, <1>3 DEF Race!Succeeded
<1>5. Race!Blocked = (1 .. Attempts) \ {k}
  <2>1. Race!Blocked \subseteq (1 .. Attempts) \ {k}
    BY <1>1, <1>4 DEF Race!Blocked
  <2>2. /\ IsFiniteSet((1 .. Attempts) \ {k})
        /\ Cardinality((1 .. Attempts) \ {k}) = Attempts - 1
    BY <1>2, <1>4, FS_RemoveElement
  <2>3. Cardinality(Race!Blocked) = Attempts - 1
    BY <1>1, DemosCount DEF Race!Holds
  <2> QED
    BY <2>1, <2>2, <2>3, FS_Subset
<1>6. ASSUME NEW i \in 1 .. Attempts
      PROVE  \E l \in Final :
               /\ IsAttempt(l.msg) /\ l.msg.fee = i
               /\ l.result = IF i = k THEN AB!Ok ELSE AB!ClaimError(AB!AlreadyCommitted)
  <2>1. PICK l \in Final : l.msg = signed[i] /\ l.result = results[i].error
    BY DEF IsBatch, Returned, Told
  <2>2. IsAttempt(l.msg) /\ l.msg.fee = i
    BY <2>1 DEF IsBatch
  <2>3. results[i].failed = (results[i].error # AB!Ok)
    BY DEF IsBatch, Returned
  <2>4. CASE i = k
    BY <1>4, <2>1, <2>2, <2>3, <2>4
  <2>5. CASE i # k
    <3>1. i \in Race!Blocked
      BY <1>5, <2>5
    <3>2. l.result.code = AB!AlreadyCommitted
      BY <2>1, <3>1 DEF Race!Blocked, Race!AlreadyCommitted, AB!AlreadyCommitted
    <3>3. l.result = AB!ClaimError(AB!AlreadyCommitted)
      BY <3>2 DEF RaceGuardInv, Final, Outcomes, AB!Ok, AB!BusinessError, AB!ClaimError,
         AB!AlreadyCommitted
    <3> QED
      BY <2>1, <2>2, <2>5, <3>3
  <2> QED
    BY <2>4, <2>5
<1> QED
  BY <1>4, <1>6 DEF Held

\* Two attempts with one fee are one, and so is what became of them.
LEMMA SameFee ==
  ASSUME NetInv, BatchInv, NEW l1 \in landed, NEW l2 \in landed,
         IsAttempt(l1.msg), IsAttempt(l2.msg), l1.msg.fee = l2.msg.fee
  PROVE  l1 = l2
BY DEF NetInv, BatchInv

LEMMA HeldGives ==
  ASSUME NetInv, BatchInv, Held
  PROVE  LET attempts == {l \in Race!Seen(confirmed) : l.msg.kind = "attempt"}
         IN /\ Race!Cardinality(attempts) = Attempts
            /\ Race!Cardinality(Race!Committed(confirmed)) = 1
            /\ \A l \in attempts \ Race!Committed(confirmed) :
                 l.result = Race!ClaimError(Race!AlreadyCommitted)
<1> DEFINE A == {l \in Final : IsAttempt(l.msg)}
           f == [l \in A |-> l.msg.fee]
<1>1. PICK k \in 1 .. Attempts : \A i \in 1 .. Attempts : \E l \in Final :
        /\ IsAttempt(l.msg) /\ l.msg.fee = i
        /\ l.result = IF i = k THEN AB!Ok ELSE AB!ClaimError(AB!AlreadyCommitted)
  BY DEF Held
<1>2. ASSUME NEW l \in A
      PROVE  /\ l \in landed /\ l.msg.fee \in 1 .. Attempts
             /\ l.result = IF l.msg.fee = k THEN AB!Ok ELSE AB!ClaimError(AB!AlreadyCommitted)
  <2>1. l \in landed /\ IsAttempt(l.msg)
    BY DEF Final
  <2>2. l.msg.fee \in 1 .. Attempts
    BY <2>1 DEF NetInv, BatchInv
  <2>3. PICK x \in Final :
          /\ IsAttempt(x.msg) /\ x.msg.fee = l.msg.fee
          /\ x.result = IF l.msg.fee = k THEN AB!Ok ELSE AB!ClaimError(AB!AlreadyCommitted)
    BY <1>1, <2>2
  <2>4. x = l
    BY <2>1, <2>3, SameFee DEF Final
  <2> QED
    BY <2>1, <2>2, <2>3, <2>4
<1>3. Cardinality(A) = Attempts
  <2>1. f \in Injection(A, 1 .. Attempts)
    BY <1>2, SameFee DEF Injection, IsInjective
  <2>2. f \in Surjection(A, 1 .. Attempts)
    <3>1. ASSUME NEW i \in 1 .. Attempts PROVE \E l \in A : f[l] = i
      BY <1>1
    <3> QED
      BY <1>2, <3>1 DEF Surjection
  <2>3. IsFiniteSet(1 .. Attempts) /\ Cardinality(1 .. Attempts) = Attempts
    BY FS_Interval, SomeAttempts
  <2> QED
    BY <2>1, <2>2, <2>3, FS_Injection
<1>4. Race!Committed(confirmed) = {l \in A : l.result = AB!Ok}
  BY DEF Race!Committed, Race!Seen, Final, IsAttempt, Race!Ok, AB!Ok
<1>5. Cardinality(Race!Committed(confirmed)) = 1
  <2>1. PICK l \in A : l.msg.fee = k /\ l.result = AB!Ok
    BY <1>1
  <2>2. \A x \in A : x.result = AB!Ok => x.msg.fee = k
    BY <1>2 DEF AB!Ok, AB!ClaimError, AB!AlreadyCommitted
  <2>3. \A x, y \in Race!Committed(confirmed) : x = y
    BY <1>2, <1>4, <2>2, SameFee
  <2> QED
    BY <1>4, <2>1, <2>3, AtMostOne
<1>6. \A l \in A \ Race!Committed(confirmed) : l.result = Race!ClaimError(Race!AlreadyCommitted)
  BY <1>2, <1>4 DEF Race!ClaimError, Race!AlreadyCommitted, AB!ClaimError, AB!AlreadyCommitted
<1>7. A = {l \in Race!Seen(confirmed) : l.msg.kind = "attempt"}
  BY DEF Race!Seen, Final, IsAttempt
<1> QED
  BY <1>3, <1>5, <1>6, <1>7, DemosCount

\* With the details of all the attempts, their slots are those of the results.
LEMMA SlotsAreTheirs ==
  ASSUME NetInv, BatchInv, IsBatch, Returned, Race!Unknown \notin Race!Slots
  PROVE  /\ \A l \in Final : IsAttempt(l.msg) => l.slot \in Race!Slots
         /\ \A s \in Race!Slots : \E l \in Final : IsAttempt(l.msg) /\ l.slot = s
<1>1. DOMAIN results = 1 .. Attempts
  BY DEF IsBatch, Returned
<1>2. ASSUME NEW i \in 1 .. Attempts
      PROVE  results[i].slot \in Race!Slots /\ InSlot(i, results[i].slot)
  <2>1. results[i].slot \in Race!Slots
    BY <1>1 DEF Race!Slots
  <2> QED
    BY <2>1 DEF IsBatch, Returned, AB!Unknown, Race!Unknown
<1>3. ASSUME NEW l \in Final, IsAttempt(l.msg) PROVE l.slot \in Race!Slots
  <2>1. l \in landed /\ l.msg \in inflight
    BY DEF Final, NetInv
  <2>2. PICK i \in 1 .. Attempts : l.msg = signed[i]
    BY <1>3, <2>1 DEF BatchInv
  <2>3. PICK x \in Final : x.msg = signed[i] /\ x.slot = results[i].slot
    BY <1>2 DEF InSlot
  <2>4. x = l
    BY <2>1, <2>2, <2>3 DEF Final, NetInv
  <2> QED
    BY <1>2, <2>3, <2>4
<1>4. ASSUME NEW s \in Race!Slots PROVE \E l \in Final : IsAttempt(l.msg) /\ l.slot = s
  <2>1. PICK i \in 1 .. Attempts : s = results[i].slot
    BY <1>1 DEF Race!Slots
  <2> QED
    BY <1>2, <2>1 DEF InSlot, IsBatch
<1> QED
  BY <1>3, <1>4

\* What the invariant says of the race.
LEMMA RaceGives ==
  RaceInv => Race!HoldsIsTrue /\ Race!RaceIsTrue /\ Race!OneCommits /\ Race!ResultsAreFinal
<1> SUFFICES ASSUME RaceInv
             PROVE  Race!HoldsIsTrue /\ Race!RaceIsTrue /\ Race!OneCommits /\ Race!ResultsAreFinal
  OBVIOUS
<1>1. Race!Seen(confirmed) = Final
  BY DEF Race!Seen, Final
<1>2. Race!HoldsIsTrue
  BY HeldGives DEF Race!HoldsIsTrue, RaceInv, VerdictInv
<1>3. Race!RaceIsTrue
  <2> SUFFICES ASSUME verdict # {}, Len(results) = Attempts, Race!Unknown \notin Race!Slots
               PROVE  "same-slot" \in verdict <=>
                        \A l1, l2 \in Final : IsAttempt(l1.msg) /\ IsAttempt(l2.msg)
                                              => l1.slot = l2.slot
    BY <1>1 DEF Race!RaceIsTrue, IsAttempt
  <2>1. IsBatch /\ Returned /\ ("same-slot" \in verdict <=> Cardinality(Race!Slots) = 1)
    BY DEF RaceInv, VerdictInv
  <2>2. /\ \A l \in Final : IsAttempt(l.msg) => l.slot \in Race!Slots
        /\ \A s \in Race!Slots : \E l \in Final : IsAttempt(l.msg) /\ l.slot = s
    BY <2>1, SlotsAreTheirs DEF RaceInv
  <2>3. results[1].slot \in Race!Slots
    BY <2>1, SomeAttempts DEF IsBatch, Returned, Race!Slots
  <2>4. IsFiniteSet(Race!Slots)
    <3>1. IsFiniteSet(1 .. Attempts)
      BY FS_Interval, SomeAttempts
    <3>2. Race!Slots = {results[i].slot : i \in 1 .. Attempts}
      BY <2>1 DEF IsBatch, Returned, Race!Slots
    <3> DEFINE f == [i \in 1 .. Attempts |-> results[i].slot]
    <3>3. f \in Surjection(1 .. Attempts, Race!Slots)
      BY <3>2 DEF Surjection
    <3> QED
      BY <3>1, <3>3, FS_Surjection
  <2>5. Cardinality(Race!Slots) = 1 <=> \A x, y \in Race!Slots : x = y
    <3>1. ASSUME Cardinality(Race!Slots) = 1 PROVE \A x, y \in Race!Slots : x = y
      BY <2>4, <3>1, FS_Singleton
    <3>2. ASSUME \A x, y \in Race!Slots : x = y PROVE Cardinality(Race!Slots) = 1
      BY <2>3, <3>2, AtMostOne
    <3> QED
      BY <3>1, <3>2
  <2> QED
    BY <2>1, <2>2, <2>5
<1>4. Race!OneCommits
  <2>1. \A x, y \in Race!Committed(slot) : x = y
    BY DEF Race!Committed, Race!Seen, RaceInv, RaceGuardInv, AttemptOk, IsAttempt, Race!Ok, AB!Ok
  <2> QED
    BY <2>1, AtMostOne, DemosCount DEF Race!OneCommits, Race!Counter
<1>5. Race!ResultsAreFinal
  BY <1>1 DEF Race!ResultsAreFinal, RaceInv, SubmissionInv, Returned, Told
<1> QED
  BY <1>2, <1>3, <1>4, <1>5

LEMMA RaceInit == Race!Init => RaceInv
<1> SUFFICES ASSUME Race!Init PROVE RaceInv
  OBVIOUS
<1>1. /\ slot = 0 /\ confirmed = 0 /\ inflight = {} /\ landed = {} /\ pc = "blockhash"
      /\ step = "fund" /\ verdict = {} /\ signed = << >>
  BY DEF Race!Init, Race!TransportInit, Race!ClusterInit
<1> QED
  BY <1>1 DEF RaceInv, NetInv, SubmissionInv, BatchInv, RaceGuardInv, VerdictInv, Busy

\* Nothing but the report has printed a verdict.
LEMMA NoVerdictYet ==
  ASSUME VerdictInv, step # "sweep", pc # "done"
  PROVE  verdict = {}
BY DEF VerdictInv

\* A step of the script that goes on without a verdict.
LEMMA RaceGoesOn ==
  ASSUME RaceInv, Rests, UNCHANGED verdict,
         pc' \in {"blockhash", "before", "balance", "done"},
         step' = step \/ (step \in {"fund", "init"} /\ pc # "done"
                          /\ step' \in {"fund", "init", "attempt", "sweep"}),
         pc' = "before" => step' = "init",
         pc' = "balance" => step' = "sweep",
         step' = "attempt" /\ pc' = "blockhash" => step \in {"fund", "init"},
         pc = "done" => pc' = "done"
  PROVE  RaceInv'
<1>1. NetInv' /\ SubmissionInv' /\ Final \subseteq Final'
  BY SubmissionStep DEF RaceInv
<1>2. /\ UNCHANGED <<inflight, landed, signed, results>>
      /\ step \in {"fund", "init", "attempt", "sweep"}
  BY DEF Rests, chainVars, RaceInv, BatchInv
<1>3. pc' \notin Busy
  BY DEF Busy
<1>4. BatchInv'
  BY <1>2, <1>3, RaceQuiet DEF RaceInv
<1>5. RaceGuardInv'
  BY <1>2, RaceGuardRests DEF RaceInv
<1>6. VerdictInv'
  BY <1>1, <1>2, NoVerdictYet, VerdictStays DEF RaceInv
<1> QED
  BY <1>1, <1>4, <1>5, <1>6 DEF RaceInv

\* A step that is not main's own.
LEMMA RaceKeeps ==
  ASSUME RaceInv, UNCHANGED <<step, verdict>>,
         \/ Moves /\ RaceGuardInv'
         \/ \E v : Signs(Race!Messages(v))
         \/ HandsOver \/ Polls \/ Details
         \/ Rests /\ (pc' = pc \/ pc' = "done")
         \/ UNCHANGED <<chainVars, pc, signed, errors, results>>
  PROVE  RaceInv'
<1>1. \/ Moves \/ (\E batch : Signs(batch)) \/ HandsOver \/ Polls \/ Details \/ Rests
  BY DEF Rests, chainVars
<1>2. NetInv' /\ SubmissionInv' /\ Final \subseteq Final'
  BY <1>1, SubmissionStep DEF RaceInv
<1>3. \/ HandsOver \/ (\E v : Signs(Race!Messages(v)))
      \/ UNCHANGED <<inflight, signed>> /\ (pc' = pc \/ pc' = "done" \/ {pc, pc'} \subseteq Busy)
  BY DEF Moves, Polls, Details, Rests, chainVars, Busy
<1>4. ASSUME UNCHANGED <<inflight, signed>>, pc' = pc \/ pc' = "done" \/ {pc, pc'} \subseteq Busy
      PROVE  BatchInv'
  BY <1>4, RaceQuiet DEF RaceInv, BatchInv, Busy
<1>5. BatchInv'
  BY <1>3, <1>4, RaceSigns, RaceHandsOver DEF RaceInv
<1>6. RaceGuardInv'
  BY RaceGuardRests DEF RaceInv, Signs, HandsOver, Polls, Details, Rests, chainVars
<1>7. pc = "done" => pc' = "done"
  BY DEF Moves, Signs, HandsOver, Polls, Details, Rests
<1>8. verdict # {} => UNCHANGED <<signed, results>> \/ Len(results') # Attempts
  <2>1. CASE \E v : Signs(Race!Messages(v))
    <3>1. Len(results') = 0
      BY <2>1 DEF Signs
    <3> QED
      BY <3>1, SomeAttempts
  <2>2. ASSUME Details, verdict # {} PROVE Len(results') # Attempts
    <3>1. pc = "detail" /\ step = "sweep"
      BY <2>2, NoVerdictYet DEF Details, RaceInv
    <3>2. signed' = signed /\ DOMAIN signed = {1}
      BY <2>2, <3>1 DEF Details, RaceInv, BatchInv, Busy
    <3>3. results' = [i \in 1 .. 1 |-> results'[i]]
      BY <2>2, <3>2 DEF Details, Returned
    <3>4. Len(results') = 1
      BY <3>3, LenIs
    <3> QED
      BY <3>4, SomeAttempts
  <2> QED
    BY <2>1, <2>2 DEF Moves, HandsOver, Polls, Rests
<1>9. VerdictInv'
  BY <1>2, <1>7, <1>8, VerdictStays DEF RaceInv
<1> QED
  BY <1>2, <1>5, <1>6, <1>9 DEF RaceInv

LEMMA RaceFetch ==
  ASSUME RaceInv, Race!Fetch
  PROVE  RaceInv'
<1> DEFINE batch == [v \in Race!Views |-> Race!Messages(v)]
<1>1. Race!FetchFreshBlockhash(Idle, batch) /\ UNCHANGED <<step, verdict>>
  BY DEF Race!Fetch, Race!demo
<1>2. (\E v \in Race!Views : Signs(batch[v])) \/ (Rests /\ pc' = pc)
  BY <1>1, RaceFetches
<1>3. (\E v : Signs(Race!Messages(v))) \/ (Rests /\ pc' = pc)
  BY <1>2
<1> QED
  BY <1>1, <1>3, RaceKeeps

LEMMA RaceEndsWell ==
  ASSUME RaceInv, NEW code, Race!Ends(code), UNCHANGED Race!demo
  PROVE  RaceInv'
<1>1. Rests /\ pc' = "done"
  BY RaceEnds
<1> QED
  BY <1>1, RaceKeeps DEF Race!demo

LEMMA RaceGoes ==
  ASSUME NEW to, to \notin Busy, Race!Goes(to)
  PROVE  Rests /\ pc' = to
BY DEF Race!Goes, Race!cluster, Race!submission, Rests, chainVars

LEMMA RaceReports ==
  ASSUME RaceInv, Race!Verdict
  PROVE  RaceInv'
<1> DEFINE said == IF Race!Cardinality(Race!Slots) = 1 THEN {"same-slot"} ELSE {"spread"}
<1>1. PICK delta :
        /\ verdict' = said \cup {IF Race!Holds(delta) THEN "HOLDS" ELSE "VIOLATION"}
        /\ UNCHANGED <<Race!cluster, confirmed, Race!submission, before>>
        /\ IF Race!Holds(delta)
           THEN pc' = "balance" /\ step' = "sweep" /\ UNCHANGED exit
           ELSE pc' = "done" /\ exit' = 1 /\ UNCHANGED step
  BY DEF Race!Verdict
<1>2. pc = "returned" /\ step = "attempt" /\ Returned /\ IsBatch
  BY DEF Race!Verdict, RaceInv, SubmissionInv, BatchInv, Busy
<1>3. /\ pc' \in {"balance", "done"} /\ step' \in {"attempt", "sweep"}
      /\ step' = "sweep" \/ pc' = "done"
      /\ pc' = "balance" => step' = "sweep"
      /\ UNCHANGED <<slot, inflight, landed, confirmed, signed, errors, results>>
  BY <1>1, <1>2 DEF Race!cluster, Race!submission
<1>4. Rests
  BY <1>3 DEF Rests, chainVars, Busy
<1>5. NetInv' /\ SubmissionInv' /\ Final \subseteq Final'
  BY <1>4, SubmissionStep DEF RaceInv
<1>6. BatchInv'
  BY <1>1, <1>3, RaceQuiet DEF RaceInv, Busy
<1>7. RaceGuardInv'
  BY <1>3, RaceGuardRests DEF RaceInv
<1>8. VerdictInv'
  <2>1. "HOLDS" \in verdict' => Held'
    BY <1>1, <1>2, <1>5, HoldsMeansHeld, HeldStays DEF RaceInv
  <2>2. IsBatch' /\ Returned'
    BY <1>2, <1>3, <1>5, ToldStays DEF IsBatch, IsAttempt
  <2>3. "same-slot" \in verdict' <=> Cardinality(Race!Slots') = 1
    BY <1>1, <1>3, DemosCount DEF Race!Slots
  <2> QED
    BY <1>3, <2>1, <2>2, <2>3 DEF VerdictInv
<1> QED
  BY <1>5, <1>6, <1>7, <1>8 DEF RaceInv

LEMMA RaceStep == RaceInv /\ [Race!Next]_Race!vars => RaceInv'
<1> SUFFICES ASSUME RaceInv, [Race!Next]_Race!vars PROVE RaceInv'
  OBVIOUS
<1> USE DEF Race!demo
<1>1. CASE UNCHANGED Race!vars
  BY <1>1, RaceKeeps DEF Race!vars, Race!net, Race!cluster, Race!script, Race!submission, chainVars
<1>2. CASE (Race!NextSlot \/ Race!Confirms \/ Race!Forks) /\ UNCHANGED Race!demo
  <2>1. Moves
    BY <1>2, RaceChain DEF RaceInv
  <2>2. landed' \subseteq landed
    BY <1>2 DEF Race!NextSlot, Race!SlotAdvances, Race!Confirms, Race!Forks, Race!cluster
  <2>3. RaceGuardInv'
    BY <2>2, RaceGuardRests DEF RaceInv
  <2> QED
    BY <1>2, <2>1, <2>3, RaceKeeps
<1>3. ASSUME NEW m \in inflight, NEW r \in Race!Results(m), Race!Lands(m, r), UNCHANGED Race!demo
      PROVE  RaceInv'
  <2>1. Moves
    BY <1>3, RaceChain DEF RaceInv
  <2>2. LandsAs(m, r)
    BY <1>3 DEF Race!Lands, Race!Executes, Race!Processed, LandsAs
  <2>3. RaceGuardInv'
    BY <2>2, RaceGuardLands DEF RaceInv
  <2> QED
    BY <1>3, <2>1, <2>3, RaceKeeps
<1>4. ASSUME NEW code, Race!Submits(code), UNCHANGED Race!demo PROVE RaceInv'
  <2>1. HandsOver \/ Polls \/ Details \/ (Rests /\ pc' = "done")
    BY <1>4, RaceSubmits DEF RaceInv
  <2> QED
    BY <1>4, <2>1, RaceKeeps
<1>5. CASE Race!SetupReturned
  <2>1. CASE Race!Ends(2) /\ UNCHANGED Race!demo
    BY <2>1, RaceEndsWell
  <2>2. CASE /\ Race!Goes(IF step = "fund" THEN "blockhash" ELSE "before")
             /\ step' = IF step = "fund" THEN "init" ELSE step
             /\ UNCHANGED <<before, verdict>>
    <3>1. Rests /\ pc' = IF step = "fund" THEN "blockhash" ELSE "before"
      BY <2>2, RaceGoes DEF Busy
    <3> QED
      BY <1>5, <2>2, <3>1, RaceGoesOn DEF Race!SetupReturned
  <2> QED
    BY <1>5, <2>1, <2>2 DEF Race!SetupReturned
<1>6. CASE Race!ReadBefore
  <2>1. pc = "before" /\ step = "init"
    BY <1>6 DEF Race!ReadBefore, RaceInv, BatchInv
  <2>2. CASE Race!Ends(2) /\ UNCHANGED Race!demo
    BY <2>2, RaceEndsWell
  <2>3. CASE Race!Goes("blockhash") /\ step' = "attempt" /\ UNCHANGED verdict
    <3>1. Rests /\ pc' = "blockhash"
      BY <2>3, RaceGoes DEF Busy
    <3> QED
      BY <2>1, <2>3, <3>1, RaceGoesOn
  <2> QED
    BY <1>6, <2>2, <2>3 DEF Race!ReadBefore
<1>7. CASE Race!Balance
  <2>1. pc = "balance" /\ step = "sweep" /\ UNCHANGED Race!demo
    BY <1>7 DEF Race!Balance, RaceInv, BatchInv
  <2>2. CASE Race!Goes("blockhash")
    <3>1. Rests /\ pc' = "blockhash"
      BY <2>2, RaceGoes DEF Busy
    <3> QED
      BY <2>1, <3>1, RaceGoesOn
  <2>3. CASE Race!Ends(0)
    BY <2>1, <2>3, RaceEndsWell
  <2> QED
    BY <1>7, <2>2, <2>3 DEF Race!Balance
<1>8. CASE \/ Race!Swept \/ Race!Refused
           \/ Race!RequestFails(Race!Thrown) /\ UNCHANGED Race!demo
  BY <1>8, RaceEndsWell DEF Race!Swept, Race!Refused, Race!RequestFails
<1> QED
  BY <1>1, <1>2, <1>3, <1>4, <1>5, <1>6, <1>7, <1>8, RaceFetch, RaceReports DEF Race!Next, Race!Main

-----------------------------------------------------------------------------
(* receipt-lifecycle.ts *)

\* There is one claim: a receipt that is closed stays closed.
LifecycleInv ==
  /\ "state" \in DOMAIN receipt
  /\ "kind" \in DOMAIN close /\ close.kind = "close"
  /\ pc = "claim" => receipt.state = "none" /\ \A m \in inflight : m.kind # "claim"
  /\ \A m1, m2 \in inflight : m1.kind = "claim" /\ m2.kind = "claim" => m1 = m2
  /\ receipt.state # "none" =>
       \A m \in inflight : m.kind = "claim" => \E l \in landed : l.msg = m
  /\ verdict = "VERIFIED" => receipt.state = "closed"

LEMMA LifecycleInit == Lifecycle!Init => LifecycleInv
<1> SUFFICES ASSUME Lifecycle!Init PROVE LifecycleInv
  OBVIOUS
<1>1. inflight = {} /\ verdict # "VERIFIED"
  BY Zenon DEF Lifecycle!Init, Lifecycle!ClusterInit
<1>2. /\ receipt = [state |-> "none", slot |-> 0, unix |-> 0]
      /\ close = [kind |-> "close", recent |-> 0]
  BY Zenon DEF Lifecycle!Init
<1>3. /\ "state" \in DOMAIN receipt /\ receipt.state = "none"
      /\ "kind" \in DOMAIN close /\ close.kind = "close"
  BY <1>2
<1> QED
  BY <1>1, <1>3 DEF LifecycleInv

\* A step that hands nothing over and leaves the receipt alone.
LEMMA LifecycleKeeps ==
  ASSUME LifecycleInv, UNCHANGED <<inflight, landed, receipt>>,
         pc' = "claim" => pc = "claim",
         "kind" \in DOMAIN close' /\ close'.kind = "close",
         verdict' = "VERIFIED" => verdict = "VERIFIED" \/ receipt.state = "closed"
  PROVE  LifecycleInv'
BY DEF LifecycleInv

LEMMA LifecycleLands ==
  ASSUME LifecycleInv, NEW m \in inflight, Lifecycle!Land(m)
  PROVE  LifecycleInv'
<1> DEFINE new == [msg |-> m, result |-> Lifecycle!Ok, slot |-> slot]
<1>1. /\ \A l \in landed : l.msg # m
      /\ landed' = landed \cup {new}
      /\ UNCHANGED <<inflight, pc, close, verdict>>
  BY DEF Lifecycle!Land, Lifecycle!Executes, Lifecycle!Processed, Lifecycle!script
<1>2. \E l \in landed' : l.msg = m
  <2>1. new.msg = m
    OBVIOUS
  <2> HIDE DEF new
  <2> QED
    BY <1>1, <2>1
<1>3. CASE m.kind = "claim"
  <2>1. receipt.state = "none" /\ pc # "claim"
    BY <1>1, <1>3 DEF LifecycleInv
  <2>2. PICK s, t : receipt' = [state |-> "live", slot |-> s, unix |-> t]
    BY <1>3 DEF Lifecycle!Land
  <2>3. \A x \in inflight : x.kind = "claim" => x = m
    BY <1>3 DEF LifecycleInv
  <2> QED
    BY <1>1, <1>2, <2>1, <2>2, <2>3 DEF LifecycleInv
<1>4. CASE m.kind = "close"
  <2>1. receipt.state = "live" /\ receipt' = [receipt EXCEPT !.state = "closed"]
    BY <1>4 DEF Lifecycle!Land, Lifecycle!Exists
  <2>2. "state" \in DOMAIN receipt' /\ receipt'.state = "closed"
    BY <2>1 DEF LifecycleInv
  <2>3. \A x \in inflight : x.kind = "claim" => \E l \in landed' : l.msg = x
    BY <1>1, <2>1 DEF LifecycleInv
  <2>4. pc # "claim"
    BY <2>1 DEF LifecycleInv
  <2> QED
    BY <1>1, <2>2, <2>3, <2>4 DEF LifecycleInv
<1> QED
  BY <1>3, <1>4 DEF Lifecycle!Land

\* The script hands its one claim over, and later the close.
LEMMA LifecycleForwards ==
  ASSUME LifecycleInv, Lifecycle!Claim \/ Lifecycle!Close
  PROVE  LifecycleInv'
<1>1. CASE Lifecycle!Claim
  <2>1. PICK m : m.kind = "claim" /\ inflight' = inflight \cup {m}
    BY <1>1 DEF Lifecycle!Claim, Lifecycle!Forwards
  <2>2. /\ pc = "claim" /\ pc' = "poll"
        /\ UNCHANGED <<landed, receipt, close, verdict>>
    BY <1>1 DEF Lifecycle!Claim, Lifecycle!Forwards
  <2> QED
    BY <2>1, <2>2 DEF LifecycleInv
<1>2. CASE Lifecycle!Close
  <2>1. /\ inflight' = inflight \cup {close} /\ close.kind # "claim"
        /\ pc' = "gone" /\ UNCHANGED <<landed, receipt, close, verdict>>
    BY <1>2 DEF Lifecycle!Close, Lifecycle!Forwards, LifecycleInv
  <2> QED
    BY <2>1 DEF LifecycleInv
<1> QED
  BY <1>1, <1>2

LEMMA LifecycleStep == LifecycleInv /\ [Lifecycle!Next]_Lifecycle!vars => LifecycleInv'
<1> SUFFICES ASSUME LifecycleInv, [Lifecycle!Next]_Lifecycle!vars PROVE LifecycleInv'
  OBVIOUS
<1> USE DEF Lifecycle!cluster, Lifecycle!script
<1>1. "kind" \in DOMAIN close /\ close.kind = "close"
  BY DEF LifecycleInv
<1>2. CASE UNCHANGED Lifecycle!vars
  BY <1>1, <1>2, LifecycleKeeps DEF Lifecycle!vars
<1>3. CASE Lifecycle!NextSlot \/ Lifecycle!Tick
  BY <1>1, <1>3, LifecycleKeeps DEF Lifecycle!NextSlot, Lifecycle!SlotAdvances, Lifecycle!Tick
<1>4. ASSUME NEW why2, Lifecycle!Ends(why2) PROVE LifecycleInv'
  BY <1>1, <1>4, LifecycleKeeps DEF Lifecycle!Ends
<1>5. CASE Lifecycle!PollReceipt
  BY <1>1, <1>5, LifecycleKeeps DEF Lifecycle!PollReceipt
<1>6. CASE Lifecycle!Decode
  BY <1>1, <1>4, <1>6, LifecycleKeeps DEF Lifecycle!Decode
<1>7. CASE Lifecycle!Wait
  <2>1. CASE Lifecycle!Ends("disappeared")
    BY <1>4, <2>1
  <2>2. CASE /\ pc' = "close" /\ close' = [close EXCEPT !.recent = slot]
             /\ UNCHANGED <<Lifecycle!cluster, receipt, verdict>>
    <3>1. "kind" \in DOMAIN close' /\ close'.kind = "close"
      BY <1>1, <2>2
    <3> QED
      BY <2>2, <3>1, LifecycleKeeps
  <2> QED
    BY <1>7, <2>1, <2>2 DEF Lifecycle!Wait
<1>8. CASE Lifecycle!CloseRejected
  BY <1>1, <1>4, <1>8, LifecycleKeeps DEF Lifecycle!CloseRejected
<1>9. CASE Lifecycle!PollGone
  <2>1. PICK gone \in {FALSE, receipt.state = "closed"}, refunded \in {0, Lifecycle!Refunded} :
          IF (gone /\ refunded > 0) \/ Lifecycle!ReadsOver
          THEN /\ verdict' = IF Lifecycle!Verified(gone, refunded) THEN "VERIFIED"
                             ELSE "NOT VERIFIED"
               /\ pc' = "done"
          ELSE UNCHANGED <<verdict, pc>>
    BY <1>9, Zenon DEF Lifecycle!PollGone
  <2>2. verdict' = "VERIFIED" => verdict = "VERIFIED" \/ receipt.state = "closed"
    BY <2>1 DEF Lifecycle!Verified
  <2>3. pc' = "claim" => pc = "claim"
    BY <2>1
  <2>4. UNCHANGED <<inflight, landed, receipt, close>>
    BY <1>9, Zenon DEF Lifecycle!PollGone
  <2> QED
    BY <1>1, <2>2, <2>3, <2>4, LifecycleKeeps
<1> QED
  BY <1>2, <1>3, <1>4, <1>5, <1>6, <1>7, <1>8, <1>9, LifecycleLands, LifecycleForwards
  DEF Lifecycle!Next, Lifecycle!Main, Lifecycle!RequestFails

LEMMA LifecycleGives == LifecycleInv => Lifecycle!VerifiedIsTrue
BY DEF LifecycleInv, Lifecycle!VerifiedIsTrue, Lifecycle!Refunded, Lifecycle!Deposit

-----------------------------------------------------------------------------
(* Whichever script runs                                                   *)

DemosInv ==
  /\ file = "commitonce-demo" => ABInv
  /\ file = "concurrent-claim" => RaceInv
  /\ file = "receipt-lifecycle" => LifecycleInv

\* A step of the sum is a step of the script that runs.
LEMMA OneScriptRuns ==
  ASSUME [Next]_vars
  PROVE  /\ file' = file
         /\ file = "commitonce-demo" => [AB!Next]_AB!vars
         /\ file = "concurrent-claim" => [Race!Next]_Race!vars
         /\ file = "receipt-lifecycle" => [Lifecycle!Next]_Lifecycle!vars
<1>1. CASE Next
  BY <1>1 DEF Next, RunsAB, RunsRace, RunsLifecycle, RunsPolicy, Runs
<1>2. CASE UNCHANGED vars
  <2>1. UNCHANGED <<file, shared, transport, ab, race, lifecycle, policy>>
    BY <1>2 DEF vars
  <2>2. UNCHANGED AB!vars
    BY <2>1 DEF shared, transport, ab, AB!vars, AB!net, AB!cluster, AB!script, AB!submission,
       AB!demo
  <2>3. UNCHANGED Race!vars
    BY <2>1 DEF shared, transport, ab, race, Race!vars, Race!net, Race!cluster, Race!script,
       Race!submission, Race!demo
  <2>4. UNCHANGED Lifecycle!vars
    BY <2>1 DEF shared, race, lifecycle, Lifecycle!vars, Lifecycle!cluster, Lifecycle!script
  <2> QED
    BY <2>1, <2>2, <2>3, <2>4
<1> QED
  BY <1>1, <1>2

LEMMA DemosStart == Init => DemosInv
BY ABInit, RaceInit, LifecycleInit DEF Init, DemosInv

LEMMA DemosStep == DemosInv /\ [Next]_vars => DemosInv'
<1> SUFFICES ASSUME DemosInv, [Next]_vars PROVE DemosInv'
  OBVIOUS
<1>1. file' = file
  BY OneScriptRuns
<1>2. file = "commitonce-demo" => ABInv'
  BY OneScriptRuns, ABStep DEF DemosInv
<1>3. file = "concurrent-claim" => RaceInv'
  BY OneScriptRuns, RaceStep DEF DemosInv
<1>4. file = "receipt-lifecycle" => LifecycleInv'
  BY OneScriptRuns, LifecycleStep DEF DemosInv
<1> QED
  BY <1>1, <1>2, <1>3, <1>4 DEF DemosInv

LEMMA DemosHold == Spec => []DemosInv
BY DemosStart, DemosStep, PTL DEF Spec

\* What a script concludes is true of the confirmed chain, for good: exit 0 of the comparison,
\* the verdict of the race and what is said of its slots, and VERIFIED of a refund
\* (commitonce-demo:618-619, concurrent-claim:25-28, 440-444, receipt-lifecycle:246).
THEOREM ConclusionsStayTrue == Spec => []ConclusionsAreTrue
<1>1. DemosInv => ConclusionsAreTrue
  BY ABGives, RaceGives, LifecycleGives DEF DemosInv, ConclusionsAreTrue
<1> QED
  BY <1>1, DemosHold, PTL

\* The guarded increment runs at most once, however the run ends, in whatever order and fork its
\* attempts land, and however many of them are in flight (commitonce-demo:31-32,
\* concurrent-claim:20-21).
THEOREM IncrementsOnce == Spec => []GuardedOnce
<1>1. DemosInv => GuardedOnce
  BY ABGives, RaceGives DEF DemosInv, GuardedOnce
<1> QED
  BY <1>1, DemosHold, PTL

\* The two attempts of a scenario never share a blockhash, so that the second one is not taken
\* for a copy of the first (solana.ts:162-167).
THEOREM AttemptsAreTwo == Spec => []AttemptsDiffer
<1>1. DemosInv => AttemptsDiffer
  BY ABGives DEF DemosInv, AttemptsDiffer
<1> QED
  BY <1>1, DemosHold, PTL

\* What a submission returned is confirmed and stays so, whatever is abandoned later
\* (solana.ts:235-239).
THEOREM SubmissionsAreFinal == Spec => []ResultsAreFinal
<1>1. DemosInv => ResultsAreFinal
  BY ABGives, RaceGives DEF DemosInv, ResultsAreFinal
<1> QED
  BY <1>1, DemosHold, PTL

-----------------------------------------------------------------------------
(* EventScan                                                               *)

Undecodable == {"text", "malformed"}

\* The lines that the scan has passed are read, and it throws at the first that cannot be.
ScanInv ==
  /\ logs \in Seq(Lines) /\ events \in Seq(Events)
  /\ next \in 1 .. Len(logs) + 1
  /\ phase = "running" => next = 1 /\ events = <<>>
  /\ threw => phase = "done" /\ LinesWith(Undecodable) # {}
  /\ ~threw => Reads({i \in LinesWith(Events) : i < next})
  /\ ~threw => \A i \in LinesWith(Undecodable) : i >= next
  /\ phase = "done" /\ ~threw => next > Len(logs)

\* What the decoder makes of a line.
LEMMA LineDecodes ==
  ASSUME NEW line \in Lines
  PROVE  /\ line.content \in Events => decodeEventFromLogLine(line) = line.content
         /\ line.content \notin Events => decodeEventFromLogLine(line) \notin Events
         /\ decodeEventFromLogLine(line) = DecodeError <=> line.content \in Undecodable
<1>1. line.content \in Data \cup {"text", "absent"}
  BY DEF Lines, Ours, Damaged, Foreign, Narration, Line, Data
<1>2. CASE line.content \in Events
  <2>1. decodeEventFromLogLine(line) = line.content
    BY <1>2 DEF decodeEventFromLogLine, Events
  <2> QED
    BY <1>2, <2>1 DEF Events, DecodeError, Undecodable
<1>3. CASE line.content \in Undecodable
  <2>1. decodeEventFromLogLine(line) = DecodeError
    BY <1>3 DEF decodeEventFromLogLine, Events, Undecodable
  <2> QED
    BY <1>3, <2>1 DEF Events, DecodeError, Undecodable
<1>4. CASE line.content \in {"foreign", "empty", "absent"}
  <2>1. decodeEventFromLogLine(line) = NoEvent
    BY <1>4 DEF decodeEventFromLogLine, Events
  <2> QED
    BY <1>4, <2>1 DEF Events, DecodeError, NoEvent, Undecodable
<1> QED
  BY <1>1, <1>2, <1>3, <1>4 DEF Data, Undecodable

LEMMA ScanStart == ScanInit => ScanInv
<1> SUFFICES ASSUME ScanInit PROVE ScanInv
  OBVIOUS
<1>1. logs \in Seq(Lines) /\ events \in Seq(Events) /\ Len(logs) = 0 /\ Len(events) = 0
  BY DEF ScanInit
<1>2. DOMAIN events = {} /\ {i \in LinesWith(Events) : i < next} = {}
  BY <1>1 DEF ScanInit, LinesWith
<1>3. Reads({i \in LinesWith(Events) : i < next})
  <2> DEFINE at == [j \in DOMAIN events |-> 1]
  <2>1. at \in [DOMAIN events -> {i \in LinesWith(Events) : i < next}]
    BY <1>2
  <2> QED
    BY <1>2, <2>1 DEF Reads
<1> QED
  BY <1>1, <1>3 DEF ScanInit, ScanInv, LinesWith

LEMMA ScanWrites == ScanInv /\ Writes => ScanInv'
<1> SUFFICES ASSUME ScanInv, Writes PROVE ScanInv'
  OBVIOUS
<1>1. PICK line \in Lines : logs' = Append(logs, line)
  BY DEF Writes, Lines
<1>2. phase = "running" /\ UNCHANGED <<phase, next, events, threw>>
  BY DEF Writes
<1>3. next = 1 /\ events = <<>> /\ ~threw
  BY <1>2 DEF ScanInv
<1>4. logs' \in Seq(Lines) /\ Len(logs') = Len(logs) + 1 /\ Len(logs) \in Nat
  BY <1>1 DEF ScanInv
<1>5. {i \in LinesWith(Events)' : i < next'} = {}
  BY <1>2, <1>3, <1>4 DEF LinesWith
<1>6. {i \in LinesWith(Events) : i < next} = {}
  BY <1>3 DEF LinesWith, ScanInv
<1>7. Reads({i \in LinesWith(Events) : i < next})'
  <2>1. DOMAIN events' = {} /\ DOMAIN events = {}
    BY <1>2, <1>3
  <2> DEFINE at == [j \in DOMAIN events' |-> 1]
  <2>2. at \in [DOMAIN events' -> {i \in LinesWith(Events)' : i < next'}]
    BY <2>1
  <2> QED
    BY <1>5, <2>1, <2>2 DEF Reads
<1>8. \A i \in LinesWith(Undecodable)' : i >= next'
  BY <1>2, <1>3, <1>4 DEF LinesWith
<1> QED
  BY <1>2, <1>3, <1>4, <1>7, <1>8 DEF ScanInv

LEMMA ScanReads == ScanInv /\ ReadLine => ScanInv'
<1> SUFFICES ASSUME ScanInv, ReadLine PROVE ScanInv'
  OBVIOUS
<1> DEFINE event == decodeEventFromLogLine(logs[next])
           passed == {i \in LinesWith(Events) : i < next}
           seen == {i \in LinesWith(Events)' : i < next'}
<1>1. /\ phase = "scanning" /\ next <= Len(logs) /\ next' = next + 1 /\ logs' = logs
      /\ events' = IF event \in Events THEN Append(events, event) ELSE events
      /\ threw' = (event = DecodeError)
      /\ phase' = IF event = DecodeError THEN "done" ELSE phase
  BY DEF ReadLine
<1>2. next \in DOMAIN logs /\ logs[next] \in Lines /\ next \in Nat /\ Len(logs) \in Nat
  BY <1>1 DEF ScanInv
<1>3. /\ logs[next].content \in Events => event = logs[next].content
      /\ logs[next].content \notin Events => event \notin Events
      /\ event = DecodeError <=> logs[next].content \in Undecodable
  BY <1>2, LineDecodes
<1>4. events' \in Seq(Events) /\ next' \in 1 .. Len(logs') + 1
  BY <1>1, <1>2 DEF ScanInv
<1>5. threw' => phase' = "done" /\ LinesWith(Undecodable)' # {}
  BY <1>1, <1>2, <1>3 DEF LinesWith
<1>6. ~threw /\ Reads(passed) /\ \A i \in LinesWith(Undecodable) : i >= next
  BY <1>1 DEF ScanInv
<1>11. ~threw' => \A i \in LinesWith(Undecodable)' : i >= next'
  <2> SUFFICES ASSUME ~threw', NEW i \in LinesWith(Undecodable) PROVE i >= next + 1
    BY <1>1 DEF LinesWith, Undecodable
  <2>1. event # DecodeError
    BY <1>1, Zenon
  <2>2. logs[next].content \notin Undecodable /\ logs[i].content \in Undecodable
    BY <1>3, <2>1 DEF LinesWith
  <2>3. i \in Nat
    BY DEF LinesWith, ScanInv
  <2>4. i >= next
    BY <1>6, Zenon
  <2> QED
    BY <1>2, <2>2, <2>3, <2>4
<1>7. PICK at \in [DOMAIN events -> passed] :
        /\ \A i, j \in DOMAIN events : i < j => at[i] < at[j]
        /\ \A line \in passed : \E j \in DOMAIN events : at[j] = line
        /\ \A j \in DOMAIN events : events[j] = logs[at[j]].content
  BY <1>6 DEF Reads
<1>8. CASE event \notin Events
  <2>1. seen = passed /\ events' = events
    BY <1>1, <1>2, <1>3, <1>8 DEF LinesWith, ScanInv
  <2>2. Reads({i \in LinesWith(Events) : i < next})'
    BY <1>1, <1>7, <2>1 DEF Reads
  <2> QED
    BY <1>1, <1>4, <1>5, <1>11, <2>2 DEF ScanInv
<1>9. CASE event \in Events
  <2>1. logs[next].content \in Events /\ event = logs[next].content
    BY <1>3, <1>9
  <2>2. seen = passed \cup {next}
    BY <1>1, <1>2, <2>1 DEF LinesWith, ScanInv
  <2>3. events' = Append(events, event) /\ events \in Seq(Events)
    BY <1>1, <1>9 DEF ScanInv
  <2> DEFINE n == Len(events)
             at2 == [j \in 1 .. n + 1 |-> IF j = n + 1 THEN next ELSE at[j]]
  <2>4. /\ n \in Nat /\ DOMAIN events = 1 .. n /\ DOMAIN events' = 1 .. n + 1
        /\ \A j \in 1 .. n : events'[j] = events[j]
        /\ events'[n + 1] = event
    BY <2>3, <1>9
  <2>5. at2 \in [DOMAIN events' -> seen]
    BY <1>7, <2>2, <2>4
  <2>6. \A i, j \in DOMAIN events' : i < j => at2[i] < at2[j]
    <3> TAKE i, j \in DOMAIN events'
    <3> HAVE i < j
    <3>1. CASE j = n + 1
      <4>1. i \in 1 .. n /\ at[i] \in passed
        BY <1>7, <2>4, <3>1
      <4> QED
        BY <2>4, <3>1, <4>1
    <3>2. CASE j # n + 1
      BY <1>7, <2>4, <3>2
    <3> QED
      BY <3>1, <3>2
  <2>7. \A line \in seen : \E j \in DOMAIN events' : at2[j] = line
    <3> TAKE line \in seen
    <3>1. CASE line = next
      BY <2>4, <3>1
    <3>2. CASE line \in passed
      <4>1. PICK j \in 1 .. n : at[j] = line
        BY <1>7, <2>4, <3>2
      <4> QED
        BY <2>4, <4>1
    <3> QED
      BY <2>2, <3>1, <3>2
  <2>8. \A j \in DOMAIN events' : events'[j] = logs'[at2[j]].content
    BY <1>1, <1>7, <2>1, <2>4
  <2>9. Reads({i \in LinesWith(Events) : i < next})'
    BY <2>5, <2>6, <2>7, <2>8 DEF Reads
  <2>10. event # DecodeError
    BY <1>9 DEF Events, DecodeError
  <2> QED
    BY <1>1, <1>4, <1>5, <1>11, <2>9, <2>10 DEF ScanInv
<1> QED
  BY <1>8, <1>9

LEMMA ScanStep == ScanInv /\ [ScanNext]_scanVars => ScanInv'
<1> SUFFICES ASSUME ScanInv, [ScanNext]_scanVars PROVE ScanInv'
  OBVIOUS
<1>1. CASE Writes
  BY <1>1, ScanWrites
<1>2. CASE ReadLine
  BY <1>2, ScanReads
<1>3. CASE UNCHANGED <<logs, next, events, threw>> /\ (phase' = phase \/ Ends \/ Return)
  <2>1. LinesWith(Events)' = LinesWith(Events) /\ LinesWith(Undecodable)' = LinesWith(Undecodable)
    BY <1>3 DEF LinesWith
  <2>2. Reads({i \in LinesWith(Events) : i < next})' <=> Reads({i \in LinesWith(Events) : i < next})
    BY <1>3, <2>1 DEF Reads
  <2>3. logs' \in Seq(Lines) /\ events' \in Seq(Events) /\ next' \in 1 .. Len(logs') + 1
    BY <1>3 DEF ScanInv
  <2> QED
    BY <1>3, <2>1, <2>2, <2>3 DEF ScanInv, Ends, Return
<1> QED
  BY <1>1, <1>2, <1>3 DEF ScanNext, scanVars, Ends, Return

\* Of a log of any length and of any lines, a scan returns the events that its lines hold, each
\* once and in order, and throws exactly if one of them cannot be decoded (events.ts:239-261).
THEOREM ScanFindsAll == ScanSpec => []ScanIsComplete
<1>1. ScanInv => ScanIsComplete
  <2> SUFFICES ASSUME ScanInv, phase = "done"
               PROVE  /\ threw <=> LinesWith(Undecodable) # {}
                      /\ ~threw => Reads(LinesWith(Events))
    BY DEF ScanIsComplete, Undecodable
  <2>1. ASSUME ~threw PROVE LinesWith(Undecodable) = {} /\ Reads(LinesWith(Events))
    <3>1. next > Len(logs) /\ next \in Nat /\ Len(logs) \in Nat
      BY <2>1 DEF ScanInv
    <3>2. {i \in LinesWith(Events) : i < next} = LinesWith(Events)
      BY <3>1 DEF ScanInv, LinesWith
    <3>3. \A i \in LinesWith(Undecodable) : i < next /\ i \in Nat
      BY <3>1 DEF ScanInv, LinesWith
    <3>4. LinesWith(Undecodable) = {}
      BY <2>1, <3>1, <3>3 DEF ScanInv
    <3> QED
      BY <2>1, <3>2, <3>4 DEF ScanInv
  <2> QED
    BY <2>1 DEF ScanInv
<1> QED
  BY <1>1, ScanStart, ScanStep, PTL DEF ScanSpec

-----------------------------------------------------------------------------
(* ErrorSearch: the nodes                                                  *)

Has(stack, id) == \E i \in DOMAIN stack : stack[i] = id

\* Nothing is read of the node, and the walks go on to its children.
Plain(g, id) ==
  /\ SdkCode(g, id) = NoCode /\ ~SdkStops(g, id) /\ DemoCode(g, id) = NoCode
  /\ g[id].kind = "object" /\ Children(g[id]) \in Seq(DOMAIN g)

Reaches(g, id, k) == Has(Children(g[id]), k)

LEMMA HasTheMembers ==
  /\ \A a : Has(<<a>>, a)
  /\ \A a, b : Has(<<a, b>>, a) /\ Has(<<a, b>>, b)
<1>1. \A a : 1 \in DOMAIN <<a>> /\ <<a>>[1] = a
  OBVIOUS
<1>2. \A a, b : 1 \in DOMAIN <<a, b>> /\ 2 \in DOMAIN <<a, b>> /\ <<a, b>>[1] = a /\ <<a, b>>[2] = b
  OBVIOUS
<1> QED
  BY <1>1, <1>2 DEF Has

\* An object without a code of its own; an Error hides a message before its values.
LEMMA ObjectNode ==
  ASSUME NEW g, NEW id, NEW values, values \in Seq(DOMAIN g), g[id] = Object(values)
  PROVE  Plain(g, id) /\ \A k : Has(values, k) => Reaches(g, id, k)
<1>1. g[id].kind = "object" /\ g[id].custom = NoCode /\ g[id].message = NoCode /\ g[id].values = values
  BY DEF Object
<1>2. Children(g[id]) = values
  BY <1>1, ConcatEmptySeq DEF Children
<1> QED
  BY <1>1, <1>2 DEF Plain, Reaches, SdkCode, SdkStops, DemoCode

LEMMA ErrorNode ==
  ASSUME NEW g, NEW id, NEW values \in Seq(DOMAIN g), NEW m \in DOMAIN g, m # NoCode,
         g[id] = ErrorObject(m, values)
  PROVE  /\ Plain(g, id) /\ Reaches(g, id, m)
         /\ \A k : Has(values, k) => Reaches(g, id, k)
<1>1. g[id].kind = "object" /\ g[id].custom = NoCode /\ g[id].message = m /\ g[id].values = values
  BY DEF ErrorObject, Object
<1>2. Children(g[id]) = <<m>> \o values
  BY <1>1 DEF Children
<1>3. <<m>> \in Seq(DOMAIN g) /\ Len(<<m>>) = 1 /\ <<m>>[1] = m
  OBVIOUS
<1>4. /\ <<m>> \o values \in Seq(DOMAIN g) /\ Len(<<m>> \o values) = 1 + Len(values)
      /\ (<<m>> \o values)[1] = m
      /\ \A i \in 1 .. Len(values) : (<<m>> \o values)[i + 1] = values[i]
  BY <1>3
<1>5. Len(values) \in Nat /\ DOMAIN values = 1 .. Len(values)
  OBVIOUS
<1>6. \A k : Has(values, k) => Has(<<m>> \o values, k)
  <2> TAKE k
  <2> HAVE Has(values, k)
  <2>1. PICK i \in 1 .. Len(values) : values[i] = k
    BY <1>5 DEF Has
  <2>2. i + 1 \in DOMAIN (<<m>> \o values)
    BY <1>4, <1>5, <2>1
  <2> QED
    BY <1>4, <2>1, <2>2 DEF Has
<1>7. Has(<<m>> \o values, m)
  <2>1. 1 \in DOMAIN (<<m>> \o values)
    BY <1>4, <1>5
  <2> QED
    BY <1>4, <2>1 DEF Has
<1> QED
  BY <1>1, <1>2, <1>4, <1>6, <1>7 DEF Plain, Reaches, SdkCode, SdkStops, DemoCode

\* The code of a custom error is the value of its field.
LEMMA CustomNode ==
  ASSUME NEW g, NEW id, NEW k \in DOMAIN g, k \in Nat, g[id] = CustomObject(k)
  PROVE  /\ SdkCode(g, id) = customCode(g[k]) /\ ~SdkStops(g, id) /\ DemoCode(g, id) = NoCode
         /\ g[id].kind = "object" /\ Children(g[id]) \in Seq(DOMAIN g) /\ Reaches(g, id, k)
<1>1. g[id].kind = "object" /\ g[id].custom = k /\ g[id].message = NoCode /\ g[id].values = <<k>>
  BY DEF CustomObject, Object
<1>2. k # NoCode
  BY SearchAssumption
<1>3. Children(g[id]) = <<k>>
  BY <1>1, ConcatEmptySeq DEF Children
<1>4. Reaches(g, id, k)
  BY <1>3, HasTheMembers DEF Reaches
<1>5. <<k>> \in Seq(DOMAIN g)
  OBVIOUS
<1> QED
  BY <1>1, <1>2, <1>3, <1>4, <1>5 DEF SdkCode, SdkStops, DemoCode

\* A number or a text: the demo's reader takes a bare number for a code.
Bare(n) == IF n \in Floor .. Ceiling - 1 THEN n ELSE NoCode
Scalar(kind, form, n) == [kind |-> kind, form |-> form, code |-> n]

\* What the SDK and the demo make of digits, of a text that names the code, and of other text.
Unnamed(g, id, n) ==
  /\ SdkCode(g, id) = NoCode /\ ~SdkStops(g, id) /\ DemoCode(g, id) = Bare(n)
  /\ g[id].kind # "object" /\ g[id].form = "digits" /\ g[id].code = n
  /\ Children(g[id]) \in Seq(DOMAIN g)
  /\ n < U32 => customCode(g[id]) = n

LEMMA DigitsNode ==
  ASSUME NEW g, NEW id, NEW n \in Nat, NEW kind \in {"string", "number"},
         g[id] = Scalar(kind, "digits", n)
  PROVE  Unnamed(g, id, n)
<1>1. /\ Children(g[id]) \in Seq(DOMAIN g)
      /\ g[id].kind = kind /\ g[id].form = "digits" /\ g[id].code = n
      /\ g[id].kind # "object" /\ DemoCode(g, id) = Bare(n)
  <2>1. g[id].kind = kind /\ g[id].form = "digits" /\ g[id].code = n
    BY DEF Scalar
  <2>2. g[id].kind # "object"
    BY <2>1
  <2>3. Children(g[id]) = <<>> /\ <<>> \in Seq(DOMAIN g)
    BY <2>2 DEF Children
  <2>4. DemoCode(g, id) = Bare(n)
    BY <2>1, <2>2 DEF DemoCode, Bare
  <2> QED
    BY <2>1, <2>2, <2>3, <2>4
<1>2. SdkCode(g, id) = NoCode /\ ~SdkStops(g, id)
  BY <1>1 DEF SdkCode, SdkStops
<1>3. n < U32 => customCode(g[id]) = n
  BY <1>1, SearchAssumption DEF customCode
<1> QED
  BY <1>1, <1>2, <1>3 DEF Unnamed

Named(g, id, n) ==
  /\ SdkCode(g, id) = n /\ SdkStops(g, id)
  /\ g[id].kind # "object" /\ Children(g[id]) \in Seq(DOMAIN g)

LEMMA NamedNode ==
  ASSUME NEW g, NEW id, NEW n \in Nat, n < U32, NEW form \in {"hex", "dec"},
         g[id] = Scalar("string", form, n)
  PROVE  /\ Named(g, id, n) /\ g[id].form = form
         /\ form = "hex" => DemoCode(g, id) = Bare(n)
<1>1. /\ Children(g[id]) \in Seq(DOMAIN g)
      /\ g[id].kind = "string" /\ g[id].form = form /\ g[id].code = n
      /\ g[id].kind # "object"
      /\ form = "hex" => DemoCode(g, id) = Bare(n)
  <2>1. g[id].kind = "string" /\ g[id].form = form /\ g[id].code = n
    BY DEF Scalar
  <2>2. g[id].kind # "object"
    BY <2>1
  <2>3. Children(g[id]) = <<>> /\ <<>> \in Seq(DOMAIN g)
    BY <2>2 DEF Children
  <2>4. form = "hex" => DemoCode(g, id) = Bare(n)
    BY <2>1, <2>2 DEF DemoCode, Bare
  <2> QED
    BY <2>1, <2>2, <2>3, <2>4
<1>2. customCode([g[id] EXCEPT !.form = "digits"]) = n
  BY SearchAssumption DEF customCode, Scalar
<1>3. SdkCode(g, id) = n /\ SdkStops(g, id)
  BY <1>1, <1>2 DEF SdkCode, SdkStops
<1> QED
  BY <1>1, <1>3 DEF Named

\* Plain but for being text.
LEMMA OtherNode ==
  ASSUME NEW g, NEW id, g[id] = Scalar("string", "none", 0)
  PROVE  /\ SdkCode(g, id) = NoCode /\ ~SdkStops(g, id) /\ DemoCode(g, id) = NoCode
         /\ Children(g[id]) \in Seq(DOMAIN g)
<1>1. /\ Children(g[id]) \in Seq(DOMAIN g)
      /\ g[id].kind = "string" /\ g[id].form = "none"
      /\ DemoCode(g, id) = NoCode
  <2>1. g[id].kind = "string" /\ g[id].form = "none"
    BY DEF Scalar
  <2>2. Children(g[id]) = <<>> /\ <<>> \in Seq(DOMAIN g)
    BY <2>1 DEF Children
  <2>3. DemoCode(g, id) = NoCode
    BY <2>1 DEF DemoCode
  <2> QED
    BY <2>1, <2>2, <2>3
<1> QED
  BY <1>1 DEF SdkCode, SdkStops

-----------------------------------------------------------------------------
(* ErrorSearch: the errors                                                 *)

WellFormed(g) ==
  /\ DOMAIN g \subseteq Nat /\ 1 \in DOMAIN g
  /\ \A id \in DOMAIN g : Children(g[id]) \in Seq(DOMAIN g)

\* What a walk that finds nothing has been through.
Closed(g, C) ==
  /\ C \subseteq DOMAIN g /\ 1 \in C
  /\ \A id \in C, k \in DOMAIN g : Reaches(g, id, k) => k \in C

\* Nothing but the code c is read of the error g, and every walk through g passes it.
SdkFinds(g, c) ==
  /\ \A id \in DOMAIN g : SdkCode(g, id) # NoCode \/ SdkStops(g, id) => SdkCode(g, id) = c
  /\ c # NoCode => \A C : Closed(g, C) => \E id \in C : SdkCode(g, id) = c

DemoFinds(g, c) ==
  /\ \A id \in DOMAIN g : DemoCode(g, id) # NoCode => DemoCode(g, id) = c
  /\ c # NoCode => \A C : Closed(g, C) => \E id \in C : DemoCode(g, id) = c

\* Noisy is that an error is not quiet, or that its code is not the demo's.
Quiet(g, c) ==
  /\ \A id \in DOMAIN g : g[id].kind # "object" =>
       g[id].form # "dec" /\ (g[id].form = "digits" /\ InDemoRange(g[id].code) => g[id].code = c)
  /\ c # NoCode => InDemoRange(c)

Readable(g, c) == WellFormed(g) /\ SdkFinds(g, c) /\ (Quiet(g, c) => DemoFinds(g, c))

LEMMA Numeric ==
  /\ \A c \in Codes : c \in Nat /\ c < U32 /\ c # NoCode
  /\ \A n \in Unrelated : n \in Nat /\ n # NoCode
BY SearchAssumption

\* The code of a confirmed transaction is in the only Custom field.
LEMMA ConfirmationReadable ==
  ASSUME NEW c \in Codes, NEW n \in Unrelated, NEW g, NEW kind \in {"string", "number"},
         g = Confirmation(Scalar(kind, "digits", c), n)
  PROVE  Readable(g, c)
<1>1. c \in Nat /\ c < U32 /\ n \in Nat /\ c # NoCode
  BY Numeric
<1>2. /\ DOMAIN g = 1 .. 7
      /\ g[1] = Object(<<2, 7>>) /\ g[2] = Object(<<3>>) /\ g[3] = Object(<<4, 5>>)
      /\ g[4] = Scalar("number", "digits", 1) /\ g[5] = CustomObject(6)
      /\ g[6] = Scalar(kind, "digits", c) /\ g[7] = Scalar("number", "digits", n)
  BY DEF Confirmation, Number, Scalar
<1>3. \A id \in DOMAIN g : id \in {1, 2, 3, 4, 5, 6, 7}
  BY <1>2
<1>4. Plain(g, 1) /\ Reaches(g, 1, 2)
  <2>1. <<2, 7>> \in Seq(DOMAIN g)
    BY <1>2
  <2> QED
    BY <1>2, <2>1, ObjectNode, HasTheMembers, Zenon
<1>5. Plain(g, 2) /\ Reaches(g, 2, 3)
  <2>1. <<3>> \in Seq(DOMAIN g)
    BY <1>2
  <2> QED
    BY <1>2, <2>1, ObjectNode, HasTheMembers, Zenon
<1>6. Plain(g, 3) /\ Reaches(g, 3, 5)
  <2>1. <<4, 5>> \in Seq(DOMAIN g)
    BY <1>2
  <2> QED
    BY <1>2, <2>1, ObjectNode, HasTheMembers, Zenon
<1>7. Unnamed(g, 4, 1) /\ Unnamed(g, 6, c) /\ Unnamed(g, 7, n)
  BY <1>1, <1>2, DigitsNode
<1>8. /\ SdkCode(g, 5) = c /\ ~SdkStops(g, 5) /\ DemoCode(g, 5) = NoCode
      /\ g[5].kind = "object" /\ Children(g[5]) \in Seq(DOMAIN g) /\ Reaches(g, 5, 6)
  <2>1. 6 \in DOMAIN g /\ 6 \in Nat
    BY <1>2
  <2>2. customCode(g[6]) = c
    BY <1>1, <1>7 DEF Unnamed
  <2> QED
    BY <1>2, <2>1, <2>2, CustomNode
<1>9. WellFormed(g)
  <2>1. DOMAIN g \subseteq Nat /\ 1 \in DOMAIN g
    BY <1>2
  <2>2. \A id \in DOMAIN g : Children(g[id]) \in Seq(DOMAIN g)
    BY <1>3, <1>4, <1>5, <1>6, <1>7, <1>8 DEF Plain, Unnamed
  <2> QED
    BY <2>1, <2>2 DEF WellFormed
<1>10. \A C : Closed(g, C) => 5 \in C /\ 6 \in C
  BY <1>2, <1>4, <1>5, <1>6, <1>8 DEF Closed
<1>11. SdkFinds(g, c)
  <2>1. \A id \in DOMAIN g : ~SdkStops(g, id) /\ SdkCode(g, id) \in {c, NoCode}
    BY <1>3, <1>4, <1>5, <1>6, <1>7, <1>8 DEF Plain, Unnamed
  <2> QED
    BY <1>8, <1>10, <2>1 DEF SdkFinds
<1>12. ASSUME Quiet(g, c) PROVE DemoFinds(g, c)
  <2>1. Bare(c) = c /\ Bare(1) \in {c, NoCode} /\ Bare(n) \in {c, NoCode}
    <3>1. InDemoRange(c)
      BY <1>1, <1>12 DEF Quiet
    <3>2. (InDemoRange(1) => 1 = c) /\ (InDemoRange(n) => n = c)
      BY <1>2, <1>7, <1>12 DEF Quiet, Unnamed
    <3> QED
      BY <3>1, <3>2 DEF InDemoRange, Bare
  <2>2. \A id \in DOMAIN g : DemoCode(g, id) \in {c, NoCode}
    BY <1>3, <1>4, <1>5, <1>6, <1>7, <1>8, <2>1 DEF Plain, Unnamed
  <2>3. DemoCode(g, 6) = c
    BY <1>7, <2>1 DEF Unnamed
  <2> QED
    BY <1>10, <2>2, <2>3 DEF DemoFinds
<1> QED
  BY <1>9, <1>11, <1>12 DEF Readable

\* The code of a failed preflight is in the last line of its logs.
LEMMA PreflightReadable ==
  ASSUME NEW c \in Codes, NEW n \in Unrelated, NEW g,
         g = Preflight(Scalar("string", "hex", c), n)
  PROVE  Readable(g, c)
<1>1. c \in Nat /\ c < U32 /\ n \in Nat /\ c # NoCode
  BY Numeric
<1>2. /\ DOMAIN g = 1 .. 7
      /\ g[1] = ErrorObject(2, <<3>>) /\ g[2] = Scalar("string", "none", 0)
      /\ g[3] = Object(<<4, 5>>) /\ g[4] = Object(<<6, 7>>)
      /\ g[5] = Scalar("number", "digits", n) /\ g[6] = Scalar("string", "none", 0)
      /\ g[7] = Scalar("string", "hex", c)
  BY DEF Preflight, Number, Text, Scalar
<1>3. \A id \in DOMAIN g : id \in {1, 2, 3, 4, 5, 6, 7}
  BY <1>2
<1>4. Plain(g, 1) /\ Reaches(g, 1, 3)
  <2>1. <<3>> \in Seq(DOMAIN g) /\ 2 \in DOMAIN g /\ 2 # NoCode
    BY <1>2, SearchAssumption
  <2> QED
    BY <1>2, <2>1, ErrorNode, HasTheMembers, Zenon
<1>5. Plain(g, 3) /\ Reaches(g, 3, 4)
  <2>1. <<4, 5>> \in Seq(DOMAIN g)
    BY <1>2
  <2> QED
    BY <1>2, <2>1, ObjectNode, HasTheMembers, Zenon
<1>6. Plain(g, 4) /\ Reaches(g, 4, 7)
  <2>1. <<6, 7>> \in Seq(DOMAIN g)
    BY <1>2
  <2> QED
    BY <1>2, <2>1, ObjectNode, HasTheMembers, Zenon
<1>7. Unnamed(g, 5, n)
  BY <1>1, <1>2, DigitsNode
<1>8. /\ SdkCode(g, 2) = NoCode /\ ~SdkStops(g, 2) /\ DemoCode(g, 2) = NoCode
      /\ SdkCode(g, 6) = NoCode /\ ~SdkStops(g, 6) /\ DemoCode(g, 6) = NoCode
      /\ Children(g[2]) \in Seq(DOMAIN g) /\ Children(g[6]) \in Seq(DOMAIN g)
  BY <1>2, OtherNode
<1>9. Named(g, 7, c) /\ DemoCode(g, 7) = Bare(c)
  BY <1>1, <1>2, NamedNode
<1>10. WellFormed(g)
  <2>1. DOMAIN g \subseteq Nat /\ 1 \in DOMAIN g
    BY <1>2
  <2>2. \A id \in DOMAIN g : Children(g[id]) \in Seq(DOMAIN g)
    BY <1>3, <1>4, <1>5, <1>6, <1>7, <1>8, <1>9 DEF Plain, Unnamed, Named
  <2> QED
    BY <2>1, <2>2 DEF WellFormed
<1>11. \A C : Closed(g, C) => 7 \in C
  BY <1>2, <1>4, <1>5, <1>6 DEF Closed
<1>12. SdkFinds(g, c)
  <2>1. \A id \in DOMAIN g : SdkCode(g, id) = c \/ (SdkCode(g, id) = NoCode /\ ~SdkStops(g, id))
    BY <1>3, <1>4, <1>5, <1>6, <1>7, <1>8, <1>9 DEF Plain, Unnamed, Named
  <2> QED
    BY <1>9, <1>11, <2>1 DEF SdkFinds, Named
<1>13. ASSUME Quiet(g, c) PROVE DemoFinds(g, c)
  <2>1. Bare(c) = c /\ Bare(n) \in {c, NoCode}
    <3>1. InDemoRange(c)
      BY <1>1, <1>13 DEF Quiet
    <3>2. InDemoRange(n) => n = c
      BY <1>2, <1>7, <1>13 DEF Quiet, Unnamed
    <3> QED
      BY <3>1, <3>2 DEF InDemoRange, Bare
  <2>2. \A id \in DOMAIN g : DemoCode(g, id) \in {c, NoCode}
    BY <1>3, <1>4, <1>5, <1>6, <1>7, <1>8, <1>9, <2>1 DEF Plain, Unnamed
  <2> QED
    BY <1>9, <1>11, <2>1, <2>2 DEF DemoFinds
<1> QED
  BY <1>10, <1>12, <1>13 DEF Readable

\* Only the message of a wrapped error names the code; the demo does not read decimals.
LEMMA MessageReadable ==
  ASSUME NEW c \in Codes, NEW n \in Unrelated, NEW g, NEW form \in {"hex", "dec"},
         g = Message(Scalar("string", form, c), n)
  PROVE  Readable(g, c)
<1>1. c \in Nat /\ c < U32 /\ n \in Nat /\ c # NoCode
  BY Numeric
<1>2. /\ DOMAIN g = 1 .. 3
      /\ g[1] = ErrorObject(2, <<3>>) /\ g[2] = Scalar("string", form, c)
      /\ g[3] = Scalar("number", "digits", n)
  BY DEF Message, Number, Scalar
<1>3. \A id \in DOMAIN g : id \in {1, 2, 3}
  BY <1>2
<1>4. Plain(g, 1) /\ Reaches(g, 1, 2)
  <2>1. <<3>> \in Seq(DOMAIN g) /\ 2 \in DOMAIN g /\ 2 # NoCode
    BY <1>2, SearchAssumption
  <2> QED
    BY <1>2, <2>1, ErrorNode, Zenon
<1>5. Named(g, 2, c) /\ g[2].form = form /\ (form = "hex" => DemoCode(g, 2) = Bare(c))
  BY <1>1, <1>2, NamedNode
<1>6. Unnamed(g, 3, n)
  BY <1>1, <1>2, DigitsNode
<1>7. WellFormed(g)
  <2>1. DOMAIN g \subseteq Nat /\ 1 \in DOMAIN g
    BY <1>2
  <2>2. \A id \in DOMAIN g : Children(g[id]) \in Seq(DOMAIN g)
    BY <1>3, <1>4, <1>5, <1>6 DEF Plain, Unnamed, Named
  <2> QED
    BY <2>1, <2>2 DEF WellFormed
<1>8. \A C : Closed(g, C) => 2 \in C
  BY <1>2, <1>4 DEF Closed
<1>9. SdkFinds(g, c)
  <2>1. \A id \in DOMAIN g : SdkCode(g, id) = c \/ (SdkCode(g, id) = NoCode /\ ~SdkStops(g, id))
    BY <1>3, <1>4, <1>5, <1>6 DEF Plain, Unnamed, Named
  <2> QED
    BY <1>5, <1>8, <2>1 DEF SdkFinds, Named
<1>10. ASSUME Quiet(g, c) PROVE DemoFinds(g, c)
  <2>1. form = "hex"
    BY <1>2, <1>5, <1>10 DEF Quiet, Named
  <2>2. Bare(c) = c /\ Bare(n) \in {c, NoCode}
    <3>1. InDemoRange(c)
      BY <1>1, <1>10 DEF Quiet
    <3>2. InDemoRange(n) => n = c
      BY <1>2, <1>6, <1>10 DEF Quiet, Unnamed
    <3> QED
      BY <3>1, <3>2 DEF InDemoRange, Bare
  <2>3. \A id \in DOMAIN g : DemoCode(g, id) \in {c, NoCode}
    BY <1>3, <1>4, <1>5, <1>6, <2>1, <2>2 DEF Plain, Unnamed
  <2> QED
    BY <1>5, <1>8, <2>1, <2>2, <2>3 DEF DemoFinds
<1> QED
  BY <1>7, <1>9, <1>10 DEF Readable

\* An error that is no program error, and one that contains itself.
LEMMA CyclicReadable == Readable(Cyclic, NoCode)
<1> DEFINE g == Cyclic
<1> HIDE DEF g
<1>1. DOMAIN g = 1 .. 2 /\ g[1] = Object(<<2>>) /\ g[2] = Object(<<1>>)
  BY DEF g, Cyclic
<1>2. \A id \in DOMAIN g : id \in {1, 2}
  BY <1>1
<1>3. <<2>> \in Seq(DOMAIN g) /\ <<1>> \in Seq(DOMAIN g)
  BY <1>1
<1>4. Plain(g, 1) /\ Plain(g, 2)
  BY <1>1, <1>3, ObjectNode, Zenon
<1>5. DOMAIN g \subseteq Nat /\ 1 \in DOMAIN g
  BY <1>1
<1>6. Readable(g, NoCode)
  BY <1>2, <1>4, <1>5 DEF Readable, WellFormed, SdkFinds, DemoFinds, Plain
<1> QED
  BY <1>6 DEF g

LEMMA NumbersReadable ==
  ASSUME NEW n \in Unrelated, NEW g, g = NumbersOnly(n)
  PROVE  Readable(g, NoCode)
<1>1. n \in Nat /\ n + 1 \in Nat /\ NoCode \notin Nat
  BY Numeric, SearchAssumption
<1>2. /\ DOMAIN g = 1 .. 4
      /\ g[1] = Object(<<2, 3>>) /\ g[2] = Scalar("number", "digits", n)
      /\ g[3] = Object(<<2, 4>>) /\ g[4] = Scalar("number", "digits", n + 1)
  BY DEF NumbersOnly, Number, Scalar
<1>3. \A id \in DOMAIN g : id \in {1, 2, 3, 4}
  BY <1>2
<1>4. <<2, 3>> \in Seq(DOMAIN g) /\ <<2, 4>> \in Seq(DOMAIN g)
  BY <1>2
<1>5. Plain(g, 1) /\ Plain(g, 3)
  BY <1>2, <1>4, ObjectNode, Zenon
<1>6. Unnamed(g, 2, n) /\ Unnamed(g, 4, n + 1)
  BY <1>1, <1>2, DigitsNode
<1>7. WellFormed(g)
  <2>1. DOMAIN g \subseteq Nat /\ 1 \in DOMAIN g
    BY <1>2
  <2>2. \A id \in DOMAIN g : Children(g[id]) \in Seq(DOMAIN g)
    BY <1>3, <1>5, <1>6 DEF Plain, Unnamed
  <2> QED
    BY <2>1, <2>2 DEF WellFormed
<1>8. SdkFinds(g, NoCode)
  <2>1. \A id \in DOMAIN g : SdkCode(g, id) = NoCode
    BY <1>3, <1>5, <1>6 DEF Plain, Unnamed
  <2> QED
    BY <2>1 DEF SdkFinds
<1>9. ASSUME Quiet(g, NoCode) PROVE DemoFinds(g, NoCode)
  <2>1. ~InDemoRange(n) /\ ~InDemoRange(n + 1)
    BY <1>1, <1>2, <1>6, <1>9 DEF Quiet, Unnamed
  <2>2. Bare(n) = NoCode /\ Bare(n + 1) = NoCode
    BY <2>1 DEF InDemoRange, Bare
  <2>3. \A id \in DOMAIN g : DemoCode(g, id) = NoCode
    BY <1>3, <1>5, <1>6, <2>2 DEF Plain, Unnamed
  <2> QED
    BY <2>3 DEF DemoFinds
<1> QED
  BY <1>7, <1>8, <1>9 DEF Readable

\* Kit's error holds the code, but does not name it; the demo takes a bare number for a code.
LEMMA KitReadable ==
  ASSUME NEW c \in Codes, NEW n \in Unrelated, NEW g, g = KitConfirmation(c, n)
  PROVE  Readable(g, NoCode)
<1>1. c \in Nat /\ n \in Nat /\ NoCode \notin Nat
  BY Numeric, SearchAssumption
<1>2. /\ DOMAIN g = 1 .. 5
      /\ g[1] = ErrorObject(2, <<3>>) /\ g[2] = Scalar("string", "none", 0)
      /\ g[3] = Object(<<4, 5>>)
      /\ g[4] = Scalar("number", "digits", c) /\ g[5] = Scalar("number", "digits", n)
  BY DEF KitConfirmation, Number, Text, Scalar
<1>3. \A id \in DOMAIN g : id \in {1, 2, 3, 4, 5}
  BY <1>2
<1>4. Plain(g, 1)
  <2>1. <<3>> \in Seq(DOMAIN g) /\ 2 \in DOMAIN g /\ 2 # NoCode
    BY <1>2, SearchAssumption
  <2> QED
    BY <1>2, <2>1, ErrorNode, Zenon
<1>5. Plain(g, 3)
  <2>1. <<4, 5>> \in Seq(DOMAIN g)
    BY <1>2
  <2> QED
    BY <1>2, <2>1, ObjectNode, Zenon
<1>6. /\ SdkCode(g, 2) = NoCode /\ ~SdkStops(g, 2) /\ DemoCode(g, 2) = NoCode
      /\ Children(g[2]) \in Seq(DOMAIN g)
  BY <1>2, OtherNode
<1>7. Unnamed(g, 4, c) /\ Unnamed(g, 5, n)
  BY <1>1, <1>2, DigitsNode
<1>8. WellFormed(g)
  <2>1. DOMAIN g \subseteq Nat /\ 1 \in DOMAIN g
    BY <1>2
  <2>2. \A id \in DOMAIN g : Children(g[id]) \in Seq(DOMAIN g)
    BY <1>3, <1>4, <1>5, <1>6, <1>7 DEF Plain, Unnamed
  <2> QED
    BY <2>1, <2>2 DEF WellFormed
<1>9. SdkFinds(g, NoCode)
  <2>1. \A id \in DOMAIN g : SdkCode(g, id) = NoCode
    BY <1>3, <1>4, <1>5, <1>6, <1>7 DEF Plain, Unnamed
  <2> QED
    BY <2>1 DEF SdkFinds
<1>10. ASSUME Quiet(g, NoCode) PROVE DemoFinds(g, NoCode)
  <2>1. ~InDemoRange(c) /\ ~InDemoRange(n)
    BY <1>1, <1>2, <1>7, <1>10 DEF Quiet, Unnamed
  <2>2. Bare(c) = NoCode /\ Bare(n) = NoCode
    BY <2>1 DEF InDemoRange, Bare
  <2>3. \A id \in DOMAIN g : DemoCode(g, id) = NoCode
    BY <1>3, <1>4, <1>5, <1>6, <1>7, <2>2 DEF Plain, Unnamed
  <2> QED
    BY <2>3 DEF DemoFinds
<1> QED
  BY <1>8, <1>9, <1>10 DEF Readable

LEMMA CasesAreReadable ==
  ASSUME NEW t \in Cases
  PROVE  Readable(t.graph, t.truth)
<1>1. CASE \E c \in Codes, n \in Unrelated : \E g \in Shapes(c, n) : t = [graph |-> g, truth |-> c]
  <2>0. PICK c \in Codes, n \in Unrelated : \E g \in Shapes(c, n) : t = [graph |-> g, truth |-> c]
    BY <1>1
  <2>1. PICK g \in Shapes(c, n) : t = [graph |-> g, truth |-> c]
    BY <2>0
  <2>2. t.graph = g /\ t.truth = c
    BY <2>1
  <2>3. \/ g = Confirmation(Scalar("number", "digits", c), n)
        \/ g = Confirmation(Scalar("string", "digits", c), n)
        \/ g = Preflight(Scalar("string", "hex", c), n)
        \/ g = Message(Scalar("string", "hex", c), n)
        \/ g = Message(Scalar("string", "dec", c), n)
    BY <2>1 DEF Shapes, Number, Text, Scalar
  <2>4. Readable(g, c)
    BY <2>3, ConfirmationReadable, PreflightReadable, MessageReadable
  <2> QED
    BY <2>2, <2>4
<1>2. CASE \E c \in Codes, n \in Unrelated :
             \E g \in {Cyclic, NumbersOnly(n), KitConfirmation(c, n)} :
               t = [graph |-> g, truth |-> NoCode]
  <2>0. PICK c \in Codes, n \in Unrelated :
          \E g \in {Cyclic, NumbersOnly(n), KitConfirmation(c, n)} :
            t = [graph |-> g, truth |-> NoCode]
    BY <1>2
  <2>1. PICK g \in {Cyclic, NumbersOnly(n), KitConfirmation(c, n)} :
          t = [graph |-> g, truth |-> NoCode]
    BY <2>0
  <2>2. t.graph = g /\ t.truth = NoCode
    BY <2>1
  <2>3. Readable(g, NoCode)
    BY <2>1, CyclicReadable, NumbersReadable, KitReadable
  <2> QED
    BY <2>2, <2>3
<1>3. \E c \in Codes, n \in Unrelated : t \in Coded(c, n) \/ t \in Uncoded(c, n)
  BY DEF Cases
<1> QED
  BY <1>1, <1>2, <1>3 DEF Coded, Uncoded

-----------------------------------------------------------------------------
(* ErrorSearch: the walks                                                  *)

\* A stack without its last node, and one with the children of a node on top.
LEMMA StackPops ==
  ASSUME NEW N, NEW s \in Seq(N), s # <<>>
  PROVE  /\ Last(s) \in N /\ Front(s) \in Seq(N)
         /\ \A k : Has(s, k) => k = Last(s) \/ Has(Front(s), k)
<1>1. Len(s) \in Nat /\ Len(s) >= 1 /\ DOMAIN s = 1 .. Len(s)
  OBVIOUS
<1>2. Last(s) = s[Len(s)] /\ Last(s) \in N
  BY <1>1 DEF Last
<1>3. Front(s) \in Seq(N) /\ Len(Front(s)) = Len(s) - 1
  BY <1>1 DEF Front
<1>4. \A i \in 1 .. Len(s) - 1 : Front(s)[i] = s[i]
  BY <1>1 DEF Front
<1>5. \A k : Has(s, k) => k = Last(s) \/ Has(Front(s), k)
  <2> TAKE k
  <2> HAVE Has(s, k)
  <2>1. PICK i \in 1 .. Len(s) : s[i] = k
    BY <1>1 DEF Has
  <2>2. CASE i = Len(s)
    BY <1>2, <2>1, <2>2
  <2>3. CASE i # Len(s)
    <3>1. i \in 1 .. Len(s) - 1
      <4>1. \A n \in Nat : \A j \in 1 .. n : j # n => j \in 1 .. n - 1
        OBVIOUS
      <4> QED
        BY <1>1, <2>3, <4>1, Zenon
    <3>2. DOMAIN Front(s) = 1 .. Len(s) - 1
      BY <1>3
    <3>3. i \in DOMAIN Front(s) /\ Front(s)[i] = k
      BY <1>4, <2>1, <3>1, <3>2
    <3> QED
      BY <3>3 DEF Has
  <2> QED
    BY <2>2, <2>3
<1> QED
  BY <1>2, <1>3, <1>5

LEMMA StackGrows ==
  ASSUME NEW N, NEW s \in Seq(N), NEW t \in Seq(N)
  PROVE  /\ s \o t \in Seq(N)
         /\ \A k : Has(s, k) \/ Has(t, k) => Has(s \o t, k)
<1>1. /\ s \o t \in Seq(N) /\ Len(s \o t) = Len(s) + Len(t)
      /\ Len(s) \in Nat /\ Len(t) \in Nat
      /\ DOMAIN s = 1 .. Len(s) /\ DOMAIN t = 1 .. Len(t) /\ DOMAIN (s \o t) = 1 .. Len(s) + Len(t)
  OBVIOUS
<1>2. \A i \in 1 .. Len(s) : (s \o t)[i] = s[i]
  OBVIOUS
<1>3. \A i \in 1 .. Len(t) : (s \o t)[Len(s) + i] = t[i]
  OBVIOUS
<1>4. \A k : Has(s, k) => Has(s \o t, k)
  BY <1>1, <1>2 DEF Has
<1>5. \A k : Has(t, k) => Has(s \o t, k)
  <2> TAKE k
  <2> HAVE Has(t, k)
  <2>1. PICK i \in 1 .. Len(t) : t[i] = k
    BY <1>1 DEF Has
  <2>2. Len(s) + i \in DOMAIN (s \o t) /\ (s \o t)[Len(s) + i] = k
    BY <1>1, <1>3, <2>1
  <2> QED
    BY <2>2 DEF Has
<1> QED
  BY <1>1, <1>4, <1>5

\* A walk through g has found nothing in what it has seen, and has yet to see what that leads
\* to; or it has ended at a node that ends it.
Explored(w, g, code, halt) ==
  /\ w = Walk(w.stack, w.seen, w.result)
  /\ w.stack \in Seq(DOMAIN g) /\ w.seen \subseteq DOMAIN g
  /\ \/ /\ w.result = NoCode
        /\ 1 \in w.seen \/ Has(w.stack, 1)
        /\ \A id \in w.seen :
             id \notin halt /\ \A k : Reaches(g, id, k) => k \in w.seen \/ Has(w.stack, k)
     \/ w.stack = <<>> /\ \E id \in halt : w.result = code[id]

LEMMA FreshWalk ==
  ASSUME NEW g, WellFormed(g), NEW code, NEW halt
  PROVE  Explored(Walk(<<1>>, {}, NoCode), g, code, halt)
<1>1. <<1>> \in Seq(DOMAIN g)
  BY DEF WellFormed
<1>2. Has(<<1>>, 1)
  BY HasTheMembers
<1> DEFINE w == Walk(<<1>>, {}, NoCode)
<1>3. w.stack = <<1>> /\ w.seen = {} /\ w.result = NoCode
  BY DEF Walk
<1> QED
  BY <1>1, <1>2, <1>3 DEF Explored

LEMMA VisitExplores ==
  ASSUME NEW w, NEW code, NEW halt, NEW stops \in BOOLEAN, NEW g, g = thrown.graph, WellFormed(g),
         Explored(w, g, code, halt), ~Ended(w),
         Last(w.stack) \in halt <=> code[Last(w.stack)] # NoCode \/ stops
  PROVE  Explored(Visit(w, Last(w.stack), code[Last(w.stack)], stops), g, code, halt)
<1> DEFINE id == Last(w.stack)
           w2 == Visit(w, id, code[id], stops)
<1>1. /\ w = Walk(w.stack, w.seen, w.result)
      /\ w.stack \in Seq(DOMAIN g) /\ w.seen \subseteq DOMAIN g /\ w.stack # <<>>
      /\ w.result = NoCode
      /\ 1 \in w.seen \/ Has(w.stack, 1)
      /\ \A a \in w.seen :
           a \notin halt /\ \A k : Reaches(g, a, k) => k \in w.seen \/ Has(w.stack, k)
  BY DEF Explored, Ended
<1>2. /\ id \in DOMAIN g /\ Front(w.stack) \in Seq(DOMAIN g)
      /\ \A k : Has(w.stack, k) => k = id \/ Has(Front(w.stack), k)
  BY <1>1, StackPops
<1>3. ASSUME id \in w.seen PROVE Explored(w2, g, code, halt)
  <2>1. w2 = Walk(Front(w.stack), w.seen, NoCode)
    BY <1>1, <1>3 DEF Visit, Seen, Walk
  <2>2. w2.stack = Front(w.stack) /\ w2.seen = w.seen /\ w2.result = NoCode
    BY <2>1 DEF Walk
  <2> HIDE DEF w2, id
  <2> QED
    BY <1>1, <1>2, <1>3, <2>1, <2>2 DEF Explored
<1>4. ASSUME id \notin w.seen, id \in halt PROVE Explored(w2, g, code, halt)
  <2>1. w2 = Walk(<<>>, w.seen \cup {id}, code[id])
    BY <1>1, <1>4 DEF Visit, Seen, Found, Walk
  <2>2. w2.stack = <<>> /\ w2.seen = w.seen \cup {id} /\ w2.result = code[id]
    BY <2>1 DEF Walk
  <2> HIDE DEF w2, id
  <2>3. <<>> \in Seq(DOMAIN g) /\ w2.seen \subseteq DOMAIN g
    BY <1>1, <1>2, <2>2
  <2>4. w2 = Walk(w2.stack, w2.seen, w2.result)
    BY <2>1, <2>2
  <2>5. \E a \in halt : w2.result = code[a]
    BY <1>4, <2>2
  <2> QED
    BY <2>2, <2>3, <2>4, <2>5 DEF Explored
<1>5. ASSUME id \notin w.seen, id \notin halt PROVE Explored(w2, g, code, halt)
  <2> DEFINE c == Children(g[id])
  <2>1. w2 = Walk(Front(w.stack) \o c, w.seen \cup {id}, NoCode)
    BY <1>1, <1>5 DEF Visit, Seen
  <2>2. w2.stack = Front(w.stack) \o c /\ w2.seen = w.seen \cup {id} /\ w2.result = NoCode
    BY <2>1 DEF Walk
  <2>3. c \in Seq(DOMAIN g)
    BY <1>2 DEF WellFormed
  <2>4. /\ w2.stack \in Seq(DOMAIN g)
        /\ \A k : Has(Front(w.stack), k) \/ Has(c, k) => Has(w2.stack, k)
    <3> DEFINE f == Front(w.stack)
    <3>1. f \in Seq(DOMAIN g)
      BY <1>2
    <3> HIDE DEF c, w2, id, f
    <3>2. f \o c \in Seq(DOMAIN g) /\ \A k : Has(f, k) \/ Has(c, k) => Has(f \o c, k)
      BY <2>3, <3>1, StackGrows, Zenon
    <3>3. w2.stack = f \o c
      BY <2>2 DEF f
    <3>4. \A k : Has(f, k) \/ Has(c, k) => Has(w2.stack, k)
      BY <3>2, <3>3
    <3> QED
      BY <3>2, <3>3, <3>4 DEF f
  <2>5. \A k : Reaches(g, id, k) => Has(w2.stack, k)
    <3>1. \A k : Reaches(g, id, k) => Has(c, k)
      BY DEF Reaches
    <3> HIDE DEF c, w2, id
    <3> QED
      BY <2>4, <3>1
  <2> HIDE DEF w2, id, c
  <2>6. \A a \in w2.seen :
          a \notin halt /\ \A k : Reaches(g, a, k) => k \in w2.seen \/ Has(w2.stack, k)
    BY <1>1, <1>2, <1>5, <2>2, <2>4, <2>5
  <2>7. 1 \in w2.seen \/ Has(w2.stack, 1)
    BY <1>1, <1>2, <2>2, <2>4
  <2>8. w2 = Walk(w2.stack, w2.seen, w2.result) /\ w2.seen \subseteq DOMAIN g
    BY <1>1, <1>2, <2>1, <2>2
  <2> QED
    BY <2>2, <2>4, <2>6, <2>7, <2>8 DEF Explored
<1> QED
  BY <1>3, <1>4, <1>5

\* The codes of a reader, and the nodes that end its walk.
SdkCodes == [id \in DOMAIN thrown.graph |-> SdkCode(thrown.graph, id)]
SdkHalts ==
  {id \in DOMAIN thrown.graph :
     SdkCode(thrown.graph, id) # NoCode \/ SdkStops(thrown.graph, id)}

DemoCodes == [id \in DOMAIN thrown.graph |-> DemoCode(thrown.graph, id)]
DemoHalts == {id \in DOMAIN thrown.graph : DemoCode(thrown.graph, id) # NoCode}

SearchInv ==
  /\ thrown \in Cases
  /\ Explored(sdk, thrown.graph, SdkCodes, SdkHalts)
  /\ Explored(demo, thrown.graph, DemoCodes, DemoHalts)

\* What a walk that has ended found, of an error of which only the code c is read.
LEMMA EndedWalkFinds ==
  ASSUME NEW w, NEW g, NEW code, NEW halt, NEW c, WellFormed(g), Ended(w),
         Explored(w, g, code, halt),
         \A id \in halt : code[id] = c,
         \A id \in DOMAIN g : id \notin halt => code[id] = NoCode,
         c # NoCode => \A C : Closed(g, C) => \E id \in C : code[id] = c
  PROVE  w.result = c
<1>1. w.stack = <<>> /\ w.seen \subseteq DOMAIN g /\ \A k : ~Has(w.stack, k)
  BY DEF Explored, Ended, Has
<1>2. CASE \E id \in halt : w.result = code[id]
  BY <1>2
<1>3. CASE /\ w.result = NoCode
           /\ 1 \in w.seen \/ Has(w.stack, 1)
           /\ \A id \in w.seen :
                id \notin halt /\ \A k : Reaches(g, id, k) => k \in w.seen \/ Has(w.stack, k)
  <2>1. Closed(g, w.seen)
    BY <1>1, <1>3 DEF Closed
  <2>2. \A id \in w.seen : code[id] = NoCode
    BY <1>1, <1>3
  <2> QED
    BY <1>3, <2>1, <2>2
<1> QED
  BY <1>2, <1>3 DEF Explored

LEMMA SearchStart == SearchInit => SearchInv
<1> SUFFICES ASSUME SearchInit PROVE SearchInv
  OBVIOUS
<1>1. thrown \in Cases /\ WellFormed(thrown.graph)
  BY CasesAreReadable DEF SearchInit, Readable
<1> QED
  BY <1>1, FreshWalk DEF SearchInit, SearchInv

LEMMA SearchStep == SearchInv /\ [SearchNext]_searchVars => SearchInv'
<1> SUFFICES ASSUME SearchInv, [SearchNext]_searchVars PROVE SearchInv'
  OBVIOUS
<1> DEFINE g == thrown.graph
<1>1. thrown' = thrown
  BY DEF SearchNext, findCustomCode, customProgramErrorCode, searchVars
<1>2. SdkCodes' = SdkCodes /\ SdkHalts' = SdkHalts /\ DemoCodes' = DemoCodes /\ DemoHalts' = DemoHalts
  BY <1>1 DEF SdkCodes, SdkHalts, DemoCodes, DemoHalts
<1>3. WellFormed(g)
  BY CasesAreReadable DEF SearchInv, Readable
<1>4. CASE findCustomCode
  <2> DEFINE id == Last(sdk.stack)
  <2>1. ~Ended(sdk) /\ demo' = demo /\ sdk' = Visit(sdk, id, SdkCode(g, id), SdkStops(g, id))
    BY <1>4 DEF findCustomCode
  <2>2. id \in DOMAIN g
    BY <2>1, StackPops DEF SearchInv, Explored, Ended
  <2>3. SdkCodes[id] = SdkCode(g, id) /\ SdkStops(g, id) \in BOOLEAN
    BY <2>2 DEF SdkCodes, SdkStops
  <2>4. id \in SdkHalts <=> SdkCodes[id] # NoCode \/ SdkStops(g, id)
    BY <2>2, <2>3 DEF SdkHalts
  <2>5. Explored(Visit(sdk, id, SdkCodes[id], SdkStops(g, id)), g, SdkCodes, SdkHalts)
    BY <1>3, <2>1, <2>3, <2>4, VisitExplores DEF SearchInv
  <2>6. Explored(sdk', g, SdkCodes, SdkHalts)
    BY <2>1, <2>3, <2>5
  <2> QED
    BY <1>1, <1>2, <2>1, <2>6 DEF SearchInv
<1>5. CASE customProgramErrorCode
  <2> DEFINE id == Last(demo.stack)
  <2>1. ~Ended(demo) /\ sdk' = sdk /\ demo' = Visit(demo, id, DemoCode(g, id), FALSE)
    BY <1>5 DEF customProgramErrorCode
  <2>2. id \in DOMAIN g
    BY <2>1, StackPops DEF SearchInv, Explored, Ended
  <2>3. DemoCodes[id] = DemoCode(g, id)
    BY <2>2 DEF DemoCodes
  <2>4. id \in DemoHalts <=> DemoCodes[id] # NoCode \/ FALSE
    BY <2>2, <2>3 DEF DemoHalts
  <2>5. Explored(Visit(demo, id, DemoCodes[id], FALSE), g, DemoCodes, DemoHalts)
    BY <1>3, <2>1, <2>4, VisitExplores DEF SearchInv
  <2>6. Explored(demo', g, DemoCodes, DemoHalts)
    BY <2>1, <2>3, <2>5
  <2> QED
    BY <1>1, <1>2, <2>1, <2>6 DEF SearchInv
<1>6. CASE UNCHANGED searchVars
  BY <1>1, <1>2, <1>6 DEF SearchInv, searchVars
<1> QED
  BY <1>4, <1>5, <1>6 DEF SearchNext

LEMMA SearchGives == SearchInv => CodeIsRead
<1> SUFFICES ASSUME SearchInv PROVE CodeIsRead
  OBVIOUS
<1> DEFINE g == thrown.graph
           c == thrown.truth
<1>1. Readable(g, c) /\ WellFormed(g)
  BY CasesAreReadable DEF SearchInv, Readable
<1>2. SdkReadsTheCode
  <2> SUFFICES ASSUME Ended(sdk) PROVE sdk.result = c
    BY DEF SdkReadsTheCode
  <2>1. \A id \in SdkHalts : SdkCodes[id] = c
    BY <1>1 DEF SdkHalts, SdkCodes, Readable, SdkFinds
  <2>2. \A id \in DOMAIN g : id \notin SdkHalts => SdkCodes[id] = NoCode
    BY DEF SdkHalts, SdkCodes
  <2>3. ASSUME c # NoCode, NEW C, Closed(g, C) PROVE \E id \in C : SdkCodes[id] = c
    <3>1. PICK id \in C : SdkCode(g, id) = c
      BY <1>1, <2>3 DEF Readable, SdkFinds
    <3>2. id \in DOMAIN g
      BY <2>3 DEF Closed
    <3> QED
      BY <3>1, <3>2 DEF SdkCodes
  <2>4. Explored(sdk, g, SdkCodes, SdkHalts)
    BY DEF SearchInv
  <2> QED
    <3>1. c # NoCode => \A C : Closed(g, C) => \E id \in C : SdkCodes[id] = c
      BY <2>3
    <3> HIDE DEF g, c
    <3>2. sdk.result = c
      BY <1>1, <2>1, <2>2, <2>4, <3>1, EndedWalkFinds, Zenon
    <3> QED
      BY <3>2
<1>3. ReadersAgree
  <2> SUFFICES ASSUME Ended(sdk), Ended(demo), ~Noisy, c # NoCode => InDemoRange(c)
               PROVE  demo.result = c
    BY <1>2 DEF ReadersAgree, SdkReadsTheCode
  <2>1. Quiet(g, c)
    BY DEF Quiet, Noisy
  <2>2. DemoFinds(g, c)
    BY <1>1, <2>1 DEF Readable
  <2>3. \A id \in DemoHalts : DemoCodes[id] = c
    BY <2>2 DEF DemoHalts, DemoCodes, DemoFinds
  <2>4. \A id \in DOMAIN g : id \notin DemoHalts => DemoCodes[id] = NoCode
    BY DEF DemoHalts, DemoCodes
  <2>5. ASSUME c # NoCode, NEW C, Closed(g, C) PROVE \E id \in C : DemoCodes[id] = c
    <3>1. PICK id \in C : DemoCode(g, id) = c
      BY <2>2, <2>5 DEF DemoFinds
    <3>2. id \in DOMAIN g
      BY <2>5 DEF Closed
    <3> QED
      BY <3>1, <3>2 DEF DemoCodes
  <2>6. Explored(demo, g, DemoCodes, DemoHalts)
    BY DEF SearchInv
  <2> QED
    <3>1. c # NoCode => \A C : Closed(g, C) => \E id \in C : DemoCodes[id] = c
      BY <2>5
    <3> HIDE DEF g, c
    <3>2. demo.result = c
      BY <1>1, <2>3, <2>4, <2>6, <3>1, EndedWalkFinds, Zenon
    <3> QED
      BY <3>2
<1> QED
  BY <1>2, <1>3 DEF CodeIsRead

\* Whatever codes and numbers an error holds, and in whatever order the two readers take turns:
\* the SDK returns the code the transaction failed with and nothing else, and the demo's reader
\* agrees unless a bare number lies in its range (errors.ts:127-128, solana.ts:569-573).
THEOREM SearchReadsTheCode == SearchSpec => []CodeIsRead
BY SearchStart, SearchStep, SearchGives, PTL DEF SearchSpec
=============================================================================
