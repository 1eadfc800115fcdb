--------------------------- MODULE IntentEncoding ---------------------------
(***************************************************************************)
(* packages/sdk/src/hash.ts: encodeIntent, the single definition of "the   *)
(* same intent", on bounded values.  Text is a sequence of UTF-16 code     *)
(* units, an encoding is a sequence of bytes; SHA-256 maps bytes to one     *)
(* opaque element.                                                         *)
(***************************************************************************)
EXTENDS IntentValues, Integers, Sequences, SequencesExt, FiniteSets

CONSTANTS
  Values,      \* The intents compared
  Texts        \* What a caller uses as a namespace or a key

-----------------------------------------------------------------------------
(* UTF-8 and UTF-16 *)

Replacement == <<239, 191, 189>>      \* U+FFFD

\* TextEncoder: a pair is one character of four bytes, a lone half becomes U+FFFD.
RECURSIVE Utf8(_)
Utf8(units) ==
  IF units = <<>> THEN <<>>
  ELSE IF Head(units) = HighSurrogate /\ Len(units) > 1 /\ units[2] = LowSurrogate
       THEN <<240, 144, 128, 128>> \o Utf8(SubSeq(units, 3, Len(units)))
  ELSE IF Head(units) \in {HighSurrogate, LowSurrogate, ReplacementUnit}
       THEN Replacement \o Utf8(Tail(units))
  ELSE <<Head(units)>> \o Utf8(Tail(units))

\* Key order: by code unit, a prefix first.
RECURSIVE Before(_, _)
Before(a, b) ==
  IF a = <<>> \/ b = <<>> THEN a = <<>> /\ b # <<>>
  ELSE IF Head(a) # Head(b) THEN Head(a) < Head(b) ELSE Before(Tail(a), Tail(b))

Sorted(entries) == SortSeq(entries, LAMBDA x, y : Before(x[1], y[1]))

-----------------------------------------------------------------------------
(* The encoding *)

Zero == 48          \* "0"
Colon == 58         \* ":"

\* The tag, one decimal digit of length, a colon.
Token(tag, n) == <<tag, Zero + n, Colon>>

\* The tags, as bytes.
Z == 122
F == 102
T == 116
S == 115
D == 100
I == 105
B == 98
A == 97
O == 111

Unencodable(v) ==
  \/ v.type \in {"undefined", "date"}
  \/ v.type = "number" /\ v.kind \in {"unsafe", "infinite"}

Text(units) == LET bytes == Utf8(units) IN Token(S, Len(bytes)) \o bytes

Throws == <<-1>>

RECURSIVE encodeValue(_)
encodeValue(v) ==
  LET entries == Sorted(v.entries)
      Entry(e) == Text(e[1]) \o encodeValue(e[2])
  IN
  CASE Unencodable(v) -> Throws
    [] v.type = "null" -> <<Z>>
    [] v.type = "boolean" -> IF v.value THEN <<T>> ELSE <<F>>
    [] v.type = "string" -> Text(v.units)
    [] v.type = "number" -> Token(D, Len(v.repr)) \o v.repr
    [] v.type = "bigint" -> Token(I, Len(v.repr)) \o v.repr
    [] v.type = "bytes" -> Token(B, Len(v.bytes)) \o v.bytes
    [] v.type = "array" ->
         Token(A, Len(v.items)) \o
         FlattenSeq([i \in DOMAIN v.items |-> encodeValue(v.items[i])])
    [] v.type = "object" ->
         Token(O, Len(entries)) \o FlattenSeq([i \in DOMAIN entries |-> Entry(entries[i])])

\* toPayloadHash: bytes of the length of a hash are taken for a fingerprint.
HashLength == 2
toPayloadHash(v) ==
  IF v.type # "bytes" THEN [of |-> "intent", bytes |-> encodeValue(v)]
  ELSE IF Len(v.bytes) = HashLength THEN [of |-> "fingerprint", bytes |-> v.bytes]
  ELSE [of |-> "intent", bytes |-> Throws]

sha256(bytes) == <<bytes>>

\* Mutant: the text goes into the seeds as it is.
PlainText(domain, units) == Utf8(units)
domainSeparatedHash(domain, units) == sha256(domain \o Utf8(units))

\* The seeds of an address are joined without a mark between them.
deriveReceiptAddress(n) ==
  [ of |-> "seeds",
    bytes |-> domainSeparatedHash(<<110, 47, 49>>, n.namespace)
              \o domainSeparatedHash(<<107, 47, 49>>, n.key) ]

-----------------------------------------------------------------------------
(* Every pair of intents, one at a time *)

Names == [type : {"names"}, namespace : Texts, key : Texts]

VARIABLES x, y, same      \* Two intents or two names, and whether their hashes agree

vars == <<x, y, same>>

Hash(v) == IF v.type = "names" THEN deriveReceiptAddress(v) ELSE toPayloadHash(v)
\* A throw inside a value is a throw of the whole.
Refused(v) == v.type # "names" /\ Contains(toPayloadHash(v).bytes, -1)

Init ==
  /\ \/ x \in Values /\ y \in Values
     \/ x \in Names /\ y \in Names
  /\ same = "unknown"

Compare ==
  /\ same = "unknown"
  /\ same' = IF Refused(x) \/ Refused(y) THEN "refused"
             ELSE IF Hash(x) = Hash(y) THEN "same" ELSE "different"
  /\ UNCHANGED <<x, y>>

Spec == Init /\ [][Compare]_vars

-----------------------------------------------------------------------------
(* Properties *)

\* What the value means: the zeros are one number, the order of entries says nothing.
RECURSIVE Meaning(_)
Meaning(v) ==
  CASE v.type = "number" -> IF v.kind = "-0" THEN [v EXCEPT !.kind = "safe"] ELSE v
    [] v.type = "array" -> [v EXCEPT !.items = [i \in DOMAIN v.items |-> Meaning(v.items[i])]]
    [] v.type = "object" ->
         [v EXCEPT !.entries =
            {<<v.entries[i][1], Meaning(v.entries[i][2])>> : i \in DOMAIN v.entries}]
    [] OTHER -> v

RECURSIVE TextsOf(_)
TextsOf(v) ==
  CASE v.type = "string" -> {v.units}
    [] v.type = "array" -> UNION {TextsOf(v.items[i]) : i \in DOMAIN v.items}
    [] v.type = "object" ->
         UNION {{v.entries[i][1]} \cup TextsOf(v.entries[i][2]) : i \in DOMAIN v.entries}
    [] v.type = "names" -> {v.namespace, v.key}
    [] OTHER -> {}
\* No half of a pair stands alone, so that the text has a UTF-8 encoding.
WellFormed(units) ==
  \A i \in DOMAIN units :
    /\ units[i] = HighSurrogate => i < Len(units) /\ units[i + 1] = LowSurrogate
    /\ units[i] = LowSurrogate => i > 1 /\ units[i - 1] = HighSurrogate

AllWellFormed == \A t \in TextsOf(x) \cup TextsOf(y) : WellFormed(t)

\* hash.ts:18-46, vectors.test.ts:272. Intents of well-formed text have one fingerprint exactly
\* when they mean the same: no value is confused with another, nor a rebuilt one with a new one.
SameIntentSameHash ==
  AllWellFormed /\ x.type # "names" =>
    /\ same = "same" => Meaning(x) = Meaning(y)
    /\ same = "different" => Meaning(x) # Meaning(y)

\* constants.ts:32-35, pda.ts:1-8. Every namespace and key has an address of its own, although
\* the seeds are joined: none is another pair with the boundary elsewhere or the parts swapped.
AddressesAreDistinct ==
  AllWellFormed /\ x.type = "names" => (same = "same" => x = y)
=============================================================================
