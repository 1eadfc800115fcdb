----------------------------- MODULE ErrorSearch -----------------------------
(***************************************************************************)
(* How the custom error code of a failed transaction is found in whatever  *)
(* an RPC client threw: findCustomCode of packages/sdk/src/errors.ts, and  *)
(* the demo's independent customProgramErrorCode of apps/demo/src/         *)
(* solana.ts, which the demo compares with it.  Both walk the object graph *)
(* with a stack, the last value first.                                     *)
(***************************************************************************)
EXTENDS Integers, Sequences, SequencesExt

CONSTANTS
  Codes,     \* Bound: the codes that transactions fail with
  Unrelated, \* Bound: slots, fees, indices and other numbers of an error
  U32,       \* How many values a u32 has
  Floor, Ceiling,     \* ANCHOR_CUSTOM_ERROR_FLOOR and ANCHOR_CUSTOM_ERROR_CEILING
  NoCode              \* null, and no field

ASSUME SearchAssumption ==
  /\ U32 \in Nat /\ Codes \subseteq 0 .. U32 - 1 /\ Unrelated \subseteq Nat
  /\ Floor \in Nat /\ Ceiling \in Nat
  /\ NoCode \notin Nat

VARIABLES
  thrown,    \* The case under way: an error and the code that it names
  sdk, demo  \* The two walks: stack, seen, result

searchVars == <<thrown, sdk, demo>>

\* Nodes. An object has the values that Object.values lists; an Error also hides a message.
Object(values) == [kind |-> "object", values |-> values, custom |-> NoCode, message |-> NoCode]
CustomObject(n) == [Object(<<n>>) EXCEPT !.custom = n]
ErrorObject(message, values) == [Object(values) EXCEPT !.message = message]
\* Text that reads "custom program error: 0x..", "custom program error: ..", only digits, or neither.
Text(form, n) == [kind |-> "string", form |-> form, code |-> n]
Number(n) == [kind |-> "number", form |-> "digits", code |-> n]

-----------------------------------------------------------------------------
(* Errors of the RPC and of the client library: a graph, a function on its *)
(* nodes, with the code c of the failed transaction and unrelated numbers n*)

\* { err: { InstructionError: [i, { Custom: c }] } }, the code a number or text.
Confirmation(c, n) ==
  << Object(<<2, 7>>), Object(<<3>>), Object(<<4, 5>>), Number(1), CustomObject(6), c, Number(n) >>

\* A failed preflight: an Error whose context holds the logs and the units consumed.
Preflight(c, n) ==
  << ErrorObject(2, <<3>>), Text("none", 0), Object(<<4, 5>>),
     Object(<<6, 7>>), Number(n), Text("none", 0), c >>

\* A text in place of an object: only the message names the code.
Message(c, n) == <<ErrorObject(2, <<3>>), c, Number(n)>>

\* What Kit throws for a transaction that failed after it was sent: the code is a number of
\* the context like any other, and the message writes it as "#6000".
KitConfirmation(c, n) ==
  <<ErrorObject(2, <<3>>), Text("none", 0), Object(<<4, 5>>), Number(c), Number(n)>>

\* A network failure that refers to itself, and one that carries numbers only.
Cyclic == <<Object(<<2>>), Object(<<1>>)>>
NumbersOnly(n) == <<Object(<<2, 3>>), Number(n), Object(<<2, 4>>), Number(n + 1)>>

Shapes(c, n) ==
  { Confirmation(Number(c), n), Confirmation(Text("digits", c), n), Preflight(Text("hex", c), n),
    Message(Text("hex", c), n), Message(Text("dec", c), n) }

\* The errors that name c, as a Custom field or in a text, and those that name none.
Coded(c, n) == {[graph |-> g, truth |-> c] : g \in Shapes(c, n)}
Uncoded(c, n) ==
  {[graph |-> g, truth |-> NoCode] : g \in {Cyclic, NumbersOnly(n), KitConfirmation(c, n)}}
Cases == UNION {Coded(c, n) \cup Uncoded(c, n) : c \in Codes, n \in Unrelated}

-----------------------------------------------------------------------------
(* The two walks *)

Walk(stack, seen, result) == [stack |-> stack, seen |-> seen, result |-> result]
Ended(w) == w.stack = <<>>
Found(w, code) == Walk(<<>>, w.seen, code)

-----------------------------------------------------------------------------
(* What a walk makes of a node *)

\* Numbers, bigints and strings of digits.
customCode(n) == IF n.form = "digits" /\ n.code \in 0 .. U32 - 1 THEN n.code ELSE NoCode

\* Mutant: a number anywhere is a code.
SdkCodeOfNumbers(g, id) ==
  LET n == g[id] IN
  CASE n.kind = "object" /\ n.custom # NoCode -> customCode(g[n.custom])
    [] n.kind = "string" /\ n.form \in {"hex", "dec"} -> customCode([n EXCEPT !.form = "digits"])
    [] n.kind = "number" -> customCode(n)
    [] OTHER -> NoCode
\* Only a Custom field, or a text that says so, denotes a program error.
SdkCode(g, id) ==
  LET n == g[id] IN
  CASE n.kind = "object" /\ n.custom # NoCode -> customCode(g[n.custom])
    [] n.kind = "string" /\ n.form \in {"hex", "dec"} -> customCode([n EXCEPT !.form = "digits"])
    [] OTHER -> NoCode

DemoCode(g, id) ==
  LET n == g[id] IN
  IF n.kind # "object" /\ n.form \in {"digits", "hex"} /\ n.code \in Floor .. Ceiling - 1
  THEN n.code ELSE NoCode

\* A text that names a code ends the SDK's walk, a bad code included.
SdkStops(g, id) == g[id].kind = "string" /\ g[id].form \in {"hex", "dec"}

Children(n) ==
  IF n.kind # "object" THEN <<>>
  ELSE (IF n.message = NoCode THEN <<>> ELSE <<n.message>>) \o n.values

\* Mutant: nothing is remembered.
SeenNothing(w, id) == FALSE
Seen(w, id) == id \in w.seen

Visit(w, id, code, stops) ==
  IF Seen(w, id) THEN [w EXCEPT !.stack = Front(@)]
  ELSE IF code # NoCode \/ stops THEN Found([w EXCEPT !.seen = @ \cup {id}], code)
  ELSE Walk(Front(w.stack) \o Children(thrown.graph[id]), w.seen \cup {id}, NoCode)

findCustomCode ==
  /\ ~Ended(sdk)
  /\ LET id == Last(sdk.stack)
     IN  sdk' = Visit(sdk, id, SdkCode(thrown.graph, id), SdkStops(thrown.graph, id))
  /\ UNCHANGED <<thrown, demo>>

customProgramErrorCode ==
  /\ ~Ended(demo)
  /\ LET id == Last(demo.stack)
     IN  demo' = Visit(demo, id, DemoCode(thrown.graph, id), FALSE)
  /\ UNCHANGED <<thrown, sdk>>

SearchInit ==
  /\ thrown \in Cases
  /\ sdk = Walk(<<1>>, {}, NoCode)
  /\ demo = Walk(<<1>>, {}, NoCode)

SearchNext == findCustomCode \/ customProgramErrorCode

SearchSpec == SearchInit /\ [][SearchNext]_searchVars

-----------------------------------------------------------------------------
(* Properties *)

\* errors.ts:127-128. "An arbitrary numeric slot, fee or instruction index must never be
\* treated as a duplicate": the SDK returns the code that the error names in a Custom field or
\* in a text, wherever in the object that is and whatever numbers surround it, and null if it
\* names none. So it is null for Kit's error too, which the caller takes for an ambiguous failure.
SdkReadsTheCode == Ended(sdk) => sdk.result = thrown.truth

InDemoRange(n) == n \in Floor .. Ceiling - 1
\* A number in the demo's range that is not the code, and a form that the demo does not read.
Noisy ==
  \E id \in DOMAIN thrown.graph :
    LET n == thrown.graph[id] IN
    /\ n.kind # "object"
    /\ \/ n.form = "dec"
       \/ n.form = "digits" /\ InDemoRange(n.code) /\ n.code # thrown.truth

\* solana.ts:569-573. "A disagreement fails the demonstration": the two readers agree, unless
\* a bare number of the error lies in the demo's range, such as the code in Kit's error.
ReadersAgree ==
  Ended(sdk) /\ Ended(demo) /\ ~Noisy /\ (thrown.truth # NoCode => InDemoRange(thrown.truth)) =>
    sdk.result = demo.result

\* errors.ts:127-128, solana.ts:569-573. The SDK reads the code that an error names and nothing
\* else, and unless the error holds such a number the demo's reader agrees.
CodeIsRead == SdkReadsTheCode /\ ReadersAgree
=============================================================================
