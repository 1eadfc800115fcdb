-------------------------------- MODULE MCSdk --------------------------------
(***************************************************************************)
(* The functions of packages/sdk.  They do not call each other across      *)
(* modules in the ways modelled here, so a behaviour runs one part and the *)
(* variables of the others rest.                                           *)
(***************************************************************************)
EXTENDS ReceiptReads, PrepareIntent, ErrorSearch, EventScan, IntentValues

VARIABLES
  part,
  x, y, same        \* IntentEncoding

encoding == <<x, y, same>>

-----------------------------------------------------------------------------
(* Bounds *)

\* A permanent receipt, and one second.
MCRetentions == {Permanent, 1}

\* Integers around every limit and around both ends of the field.
MCNumbers ==
  UNION { {n - 1, n, n + 1} :
          n \in { 0, MIN_RETENTION_SECONDS, MAX_RETENTION_SECONDS, -MIN_RETENTION_SECONDS,
                  U64, U64 + MIN_RETENTION_SECONDS, U64 + MAX_RETENTION_SECONDS,
                  -U64, MIN_RETENTION_SECONDS - U64 } }

\* 820 days wrap to 43 in 26 bits.
MCDigits == {0, 1, 23, 24, 59, 60, 61, 365, 366, 820, 3599, 3600}

One == 49
Colon == 58
Dot == 46
S == 115

\* Texts over "1", ":", "s" and the halves of a pair, and every kind of scalar.
Scalars ==
  { Null, Bool(TRUE), Bool(FALSE), Undefined, Builtin, Str(<<>>), Str(<<One>>),
    Str(<<S, One>>), Str(<<One, Colon, One>>), Str(<<HighSurrogate, LowSurrogate>>),
    Str(<<HighSurrogate>>), Str(<<ReplacementUnit>>), Num("safe", <<48>>), Num("-0", <<48>>),
    Num("safe", <<One>>), Num("fraction", <<One, Dot, One>>), Num("unsafe", <<One, 48>>),
    Num("infinite", <<105>>), Big(<<One>>), Big(<<48>>),
    Bytes(<<One>>), Bytes(<<One, One>>), Bytes(<<>>) }

Few ==
  { Null, Str(<<One>>), Str(<<One, S, Colon, One>>), Num("safe", <<One>>), Undefined,
    Str(<<HighSurrogate>>) }
KeyTexts == {<<>>, <<S>>, <<S, One>>, <<One>>}

Arrays(items) == {Arr(<<>>)} \cup {Arr(<<a>>) : a \in items} \cup {Arr(<<a, b>>) : a, b \in items}
Objects(items) ==
  {Obj(<<>>)} \cup {Obj(<<<<k, a>>>>) : k \in KeyTexts, a \in items} \cup
  {Obj(<<<<k[1], a>>, <<k[2], b>>>>) : a, b \in items, k \in {t \in KeyTexts \X KeyTexts : t[1] # t[2]}}

Inner == {Null, Str(<<One>>)}
Nested == Arrays(Inner) \cup {Obj(<<<<<<S>>, a>>>>) : a \in Inner}

MCValues == Scalars \cup Arrays(Few) \cup Objects(Few \ {Undefined}) \cup Arrays(Nested)
MCTexts == UNION {[1 .. n -> {One, S}] : n \in 0 .. 2} \cup {<<HighSurrogate, LowSurrogate>>}

-----------------------------------------------------------------------------
Encoding == INSTANCE IntentEncoding WITH Values <- MCValues, Texts <- MCTexts

NoArguments == args = [retention |-> [form |-> "undefined"], refund |-> Nothing]
NoSearch ==
  /\ thrown = [graph |-> Cyclic, truth |-> NoCode]
  /\ sdk = Walk(<<1>>, {}, NoCode) /\ demo = Walk(<<1>>, {}, NoCode)
NoEncoding == x = None /\ y = None /\ same = None

SdkInit ==
  /\ ReadsInit /\ PrepareInit /\ ScanInit
  /\ \/ part \in {"reads", "scan"} /\ NoArguments /\ NoSearch /\ NoEncoding
     \/ part = "prepare" /\ NoSearch /\ NoEncoding
     \/ part = "search" /\ SearchInit /\ NoArguments /\ NoEncoding
     \/ part = "encoding" /\ Encoding!Init /\ NoArguments /\ NoSearch

Runs(name, others) == part = name /\ UNCHANGED <<part, others>>
RunsSearch == Runs("search", <<readsVars, prepareVars, scanVars, encoding>>)

SdkNext ==
  \/ Runs("reads", <<prepareVars, searchVars, scanVars, encoding>>) /\ ReadsNext
  \/ Runs("prepare", <<readsVars, searchVars, scanVars, encoding>>) /\ PrepareNext
  \/ RunsSearch /\ SearchNext
  \/ Runs("scan", <<readsVars, prepareVars, searchVars, encoding>>) /\ ScanNext
  \/ Runs("encoding", <<readsVars, prepareVars, searchVars, scanVars>>) /\ Encoding!Compare

\* The two searches are loops: they run.
SdkSpec ==
  /\ SdkInit /\ [][SdkNext]_<<part, readsVars, prepareVars, searchVars, scanVars, encoding>>
  /\ WF_searchVars(RunsSearch /\ findCustomCode)
  /\ WF_searchVars(RunsSearch /\ customProgramErrorCode)

-----------------------------------------------------------------------------
(* The modules of the parts state the other properties of this run.        *)

\* errors.ts:103-111. Every search ends, on an error that contains itself too.
SearchesEnd == <>(part = "search" => Ended(sdk) /\ Ended(demo))

\* hash.ts:18-46, constants.ts:32-35. Two intents of well-formed text have one fingerprint
\* exactly when they mean the same, and every namespace and key has an address of its own.
HashesIdentify ==
  part = "encoding" => Encoding!SameIntentSameHash /\ Encoding!AddressesAreDistinct
=============================================================================
