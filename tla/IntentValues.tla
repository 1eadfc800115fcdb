---------------------------- MODULE IntentValues ----------------------------
(***************************************************************************)
(* The values that a caller of packages/sdk/src/hash.ts may pass as an     *)
(* intent.  Text is a sequence of UTF-16 code units.                       *)
(***************************************************************************)
\* Values, as JavaScript tells them apart. An object is its entries in insertion order.
Null == [type |-> "null"]
Bool(b) == [type |-> "boolean", value |-> b]
Str(units) == [type |-> "string", units |-> units]
Big(repr) == [type |-> "bigint", repr |-> repr]
\* Numbers by what String makes of them; kinds: "safe", "fraction", "unsafe", "infinite", "-0".
Num(kind, repr) == [type |-> "number", kind |-> kind, repr |-> repr]
Bytes(bytes) == [type |-> "bytes", bytes |-> bytes]
Arr(items) == [type |-> "array", items |-> items]
Obj(entries) == [type |-> "object", entries |-> entries]
Undefined == [type |-> "undefined"]
Builtin == [type |-> "date"]          \* Date, Map or Set

\* Code units: the halves of a pair, and the one that stands for what is not text.
HighSurrogate == 55296
LowSurrogate == 56320
ReplacementUnit == 65533
=============================================================================
