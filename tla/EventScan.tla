------------------------------ MODULE EventScan ------------------------------
(***************************************************************************)
(* packages/sdk/src/events.ts: the events of a transaction are read out of *)
(* its log lines, among the narration and the events of other programs.    *)
(* External: the runtime's log collector.                                  *)
(***************************************************************************)
EXTENDS Integers, Sequences

CONSTANT MaxLines    \* Bound: lines of a transaction's log

VARIABLES
  logs,        \* The lines, as the transaction wrote them
  phase,       \* "running", "scanning" or "done"
  next,        \* The line the scan reads next
  events,      \* What the scan has decoded
  threw        \* The scan ended with an EventDecodeError

scanVars == <<logs, phase, next, events, threw>>

\* A line: who wrote it, and what follows "Program data: " in it, if anything does: an event,
\* its discriminator before a body of another size ("malformed"), the data of something else
\* ("foreign"), nothing ("empty"), what is not base64 ("text"); "absent" has no prefix.
Events == {"IntentCommitted", "IntentReceiptClosed"}
Data == Events \cup {"malformed", "foreign", "empty"}
Line(by, content) == [by |-> by, content |-> content]
Ours == {Line("commit_once", ev) : ev \in Events}
\* An event that another version of the program wrote.
Damaged == {Line("commit_once", "malformed")}
\* Other programs log what they like, a second deployment the same events.
Foreign == {Line("other", d) : d \in Data}
\* "Program log: ..." is any text, that of a data line included.
Narration == {Line("log", t) : t \in Data \cup {"text", "absent"}}
Lines == Ours \cup Damaged \cup Foreign \cup Narration

-----------------------------------------------------------------------------
(* The transaction *)

Writes ==
  /\ phase = "running" /\ Len(logs) < MaxLines
  /\ \E line \in Lines : logs' = Append(logs, line)
  /\ UNCHANGED <<phase, next, events, threw>>

Ends ==
  /\ phase = "running"
  /\ phase' = "scanning"
  /\ UNCHANGED <<logs, next, events, threw>>

-----------------------------------------------------------------------------
(* decodeEventsFromLogs *)

NoEvent == "null"
DecodeError == "EventDecodeError"

\* Mutant: what is not an event of ours ends the search like an event that is malformed.
decodeStrictly(line) ==
  CASE line.content \in Events -> line.content
    [] line.content \in {"absent", "empty"} -> NoEvent
    [] OTHER -> DecodeError
\* The prefix anywhere in the line, then base64, then the discriminator, then the body.
decodeEventFromLogLine(line) ==
  CASE line.content \in Events -> line.content
    [] line.content \in {"absent", "empty", "foreign"} -> NoEvent
    [] line.content \in {"text", "malformed"} -> DecodeError

ReadLine ==
  /\ phase = "scanning" /\ next <= Len(logs)
  /\ LET event == decodeEventFromLogLine(logs[next]) IN
       /\ events' = IF event \in Events THEN Append(events, event) ELSE events
       /\ threw' = (event = DecodeError)
       /\ phase' = IF event = DecodeError THEN "done" ELSE phase
  /\ next' = next + 1
  /\ UNCHANGED logs

Return ==
  /\ phase = "scanning" /\ next > Len(logs)
  /\ phase' = "done"
  /\ UNCHANGED <<logs, next, events, threw>>

ScanInit == logs = <<>> /\ phase = "running" /\ next = 1 /\ events = <<>> /\ threw = FALSE

ScanNext == Writes \/ Ends \/ ReadLine \/ Return

ScanSpec == ScanInit /\ [][ScanNext]_scanVars

-----------------------------------------------------------------------------
(* Properties *)

\* The events are those of the given lines, each once, in the order of the lines.
Reads(lines) ==
  \E at \in [DOMAIN events -> lines] :
    /\ \A i, j \in DOMAIN events : i < j => at[i] < at[j]
    /\ \A line \in lines : \E j \in DOMAIN events : at[j] = line
    /\ \A j \in DOMAIN events : events[j] = logs[at[j]].content

LinesWith(contents) == {i \in DOMAIN logs : logs[i].content \in contents}

\* events.ts:239-245, 281. A scan fails exactly if some line has the prefix before
\* what is not base64 or a malformed event. Otherwise it returns, in order, the event of every
\* line that holds one, so none of the program's is lost: whoever wrote the line, since a data
\* line "is not self-identifying".
ScanIsComplete ==
  phase = "done" =>
    /\ threw <=> LinesWith({"text", "malformed"}) # {}
    /\ ~threw => Reads(LinesWith(Events))

\* events.ts:290-292. Lines that are not CommitOnce events "are skipped silently", "including
\* other programs' events and the ordinary `Program log:` narration": unless a line bears the
\* discriminator of an event that is malformed, a scan returns the events of the program's lines.
OthersAreSkipped ==
  phase = "done" /\ LinesWith({"malformed"}) = {} =>
    ~threw /\ Reads({i \in DOMAIN logs : logs[i] \in Ours})
=============================================================================
