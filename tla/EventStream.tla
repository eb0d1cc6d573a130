----------------------------- MODULE EventStream -----------------------------
(* The events of one run on their way to a client: the Manager appends them,   *)
(* the Gateway asks for pages of them and relays each as a frame, the SDK      *)
(* reads the frames and connects again when the stream breaks.                 *)
EXTENDS Naturals, Sequences

CONSTANTS
  MaxEvents,   \* bound on the events of the run
  Page,        \* limit of listEvents (1,000)
  MaxBreaks,   \* bound on lost connections and failed requests
  MaxRetries   \* max_retries of the Python client

ASSUME StreamAssumption == {MaxEvents, MaxBreaks, MaxRetries} \subseteq Nat /\ Page \in Nat \ {0}

VARIABLES
  last,       \* lastSequence of the run: the events are 1..last
  endedAt,    \* the terminal event, 0 while the run is active
  client,     \* "unknown", "typescript" or "python"
  reader,     \* where events() of the client is
  cursor,     \* its cursor: the last event it yielded
  retries,
  frames,     \* frames on their way to it; 0 is "stream.error"
  connection, \* "open", "ended" or "cut"
  relay,      \* where the handler of the Gateway is
  relayed,    \* its cursor
  page,       \* the events that it holds
  breaks

readerVars == <<client, reader, cursor, retries>>
relayVars == <<relay, relayed, page>>
streamVars == <<last, endedAt, readerVars, frames, connection, relayVars, breaks>>

StreamInit ==
  /\ last = 0 /\ endedAt = 0 /\ client = "unknown" /\ reader = "connecting" /\ cursor = 0 /\ retries = 0
  /\ frames = <<>> /\ connection = "ended" /\ relay = "none" /\ relayed = 0 /\ page = <<>>
  /\ breaks = 0

Over == reader \in {"done", "gap", "exhausted", "broken"}
Smaller(a, b) == IF a < b THEN a ELSE b
Break == breaks < MaxBreaks /\ breaks' = breaks + 1

-----------------------------------------------------------------------------
(* The Manager                                                                *)

\* appendEvent: the sequence, the event and the status are one transaction.  After
\* the terminal event only the summary of a detached subagent is accepted.
AppendEvent ==
  /\ last < MaxEvents /\ last' = last + 1
  /\ endedAt' \in IF endedAt = 0 THEN {0, last'} ELSE {endedAt}
  \* #notify: the page is read after the event is committed.
  /\ relay' = IF relay = "waiting" THEN "listing" ELSE relay
  /\ UNCHANGED <<readerVars, frames, connection, relayed, page, breaks>>

\* listEvents: the next events, at most a page of them.
PageAfter(n) == [i \in 1..Smaller(Page, last - n) |-> n + i]

\* boundedEventBatch: at least one of them, and those that fit into a response.
Batches(events) ==
  IF events = <<>> THEN {<<>>} ELSE {SubSeq(events, 1, n) : n \in 1..Len(events)}

\* waitForEvents: look, and wait only when there is nothing and more may come.
Ask ==
  /\ relay = "asking" /\ relay' = IF last <= relayed /\ endedAt = 0 THEN "waiting" ELSE "listing"
  /\ UNCHANGED <<last, endedAt, readerVars, frames, connection, relayed, page, breaks>>

WaitTimesOut ==
  /\ relay = "waiting" /\ relay' = "listing"
  /\ UNCHANGED <<last, endedAt, readerVars, frames, connection, relayed, page, breaks>>

List ==
  /\ relay = "listing" /\ relay' = "writing"
  /\ page' \in Batches(IF last > relayed THEN PageAfter(relayed) ELSE <<>>)
  /\ UNCHANGED <<last, endedAt, readerVars, frames, connection, relayed, breaks>>

-----------------------------------------------------------------------------
(* The handler of the Gateway                                                 *)

WriteFrame ==
  /\ relay = "writing" /\ page # <<>>
  /\ frames' = Append(frames, Head(page)) /\ relayed' = Head(page) /\ page' = Tail(page)
  /\ UNCHANGED <<last, endedAt, readerVars, connection, relay, breaks>>

PageWritten ==
  /\ relay = "writing" /\ page = <<>> /\ relay' = "checking"
  /\ UNCHANGED <<last, endedAt, readerVars, frames, connection, relayed, page, breaks>>

IsComplete(n) == endedAt # 0 /\ n >= last

\* getRun after each page.
CheckRun ==
  /\ relay = "checking"
  /\ IF IsComplete(relayed) THEN relay' = "none" /\ connection' = "ended"
     ELSE relay' = "asking" /\ UNCHANGED connection
  /\ UNCHANGED <<last, endedAt, readerVars, frames, relayed, page, breaks>>

\* A request of the Gateway fails: the Manager restarts, or takes too long.
RequestFails ==
  /\ relay \in {"asking", "waiting", "listing", "checking"} /\ Break
  /\ frames' = Append(frames, 0) /\ connection' = "ended" /\ relay' = "none"
  /\ UNCHANGED <<last, endedAt, readerVars, relayed, page>>

\* The connection is lost, or the Gateway dies; what it still held is lost with it.
CutConnection ==
  /\ connection = "open" /\ Break
  /\ connection' = "cut" /\ relay' = "none"
  /\ \E n \in 0..Len(frames) : frames' = SubSeq(frames, 1, n)
  /\ UNCHANGED <<last, endedAt, readerVars, relayed, page>>

-----------------------------------------------------------------------------
(* events() of the SDKs                                                       *)

\* Mutant: the stream continues where the relay of the last connection was.
AfterRelayed == relayed

ResumesAfter == cursor

Connect ==
  /\ reader = "connecting" /\ reader' = "streaming"
  /\ client' \in IF client = "unknown" THEN {"typescript", "python"} ELSE {client}
  /\ relay' = "asking" /\ relayed' = ResumesAfter /\ page' = <<>>
  /\ frames' = <<>> /\ connection' = "open"
  /\ UNCHANGED <<last, endedAt, cursor, retries, breaks>>

\* A stream that broke, or ended early: only the Python client counts.
Pause(r) ==
  /\ reader' = IF client = "python" /\ r = MaxRetries THEN "exhausted" ELSE "connecting"
  /\ retries' = IF client = "python" THEN r + 1 ELSE r

ConnectFails ==
  /\ reader = "connecting" /\ client # "unknown" /\ Break /\ Pause(retries)
  /\ UNCHANGED <<last, endedAt, client, cursor, frames, connection, relayVars>>

ReadFrame ==
  /\ reader = "streaming" /\ frames # <<>> /\ frames' = Tail(frames)
  /\ LET n == Head(frames) IN
       \/ n = 0 /\ Pause(retries) /\ UNCHANGED cursor
       \/ n \in 1..cursor /\ UNCHANGED <<reader, retries, cursor>>
       \/ n = cursor + 1 /\ cursor' = n /\ UNCHANGED <<reader, retries>>
       \/ n > cursor + 1 /\ reader' = "gap" /\ UNCHANGED <<retries, cursor>>
  /\ UNCHANGED <<last, endedAt, client, connection, relayVars, breaks>>

StreamEnds ==
  /\ reader = "streaming" /\ frames = <<>> /\ connection = "ended" /\ reader' = "checking"
  /\ UNCHANGED <<last, endedAt, client, cursor, retries, frames, connection, relayVars, breaks>>

\* Between two chunks urllib takes it for the end, within one it throws what the
\* Python client does not catch; fetch throws.
StreamIsCut ==
  /\ reader = "streaming" /\ frames = <<>> /\ connection = "cut"
  /\ \/ Pause(retries)
     \/ client = "python" /\ reader' \in {"checking", "broken"} /\ UNCHANGED retries
  /\ UNCHANGED <<last, endedAt, client, cursor, frames, connection, relayVars, breaks>>

CheckEnd ==
  /\ reader = "checking"
  /\ IF IsComplete(cursor) THEN reader' = "done" /\ UNCHANGED retries ELSE Pause(retries)
  /\ UNCHANGED <<last, endedAt, client, cursor, frames, connection, relayVars, breaks>>

CheckFails ==
  /\ reader = "checking" /\ Break /\ Pause(retries)
  /\ UNCHANGED <<last, endedAt, client, cursor, frames, connection, relayVars>>

StreamNext ==
  \/ AppendEvent \/ Ask \/ WaitTimesOut \/ List
  \/ WriteFrame \/ PageWritten \/ CheckRun \/ RequestFails \/ CutConnection
  \/ Connect \/ ConnectFails \/ ReadFrame \/ StreamEnds \/ StreamIsCut \/ CheckEnd \/ CheckFails

StreamSpec == StreamInit /\ [][StreamNext]_streamVars

\* Every process goes on, and the timer of the wait fires.
StreamFairness ==
  /\ WF_streamVars(Ask \/ WaitTimesOut \/ List \/ WriteFrame \/ PageWritten \/ CheckRun)
  /\ WF_streamVars(Connect \/ ReadFrame \/ StreamEnds \/ StreamIsCut \/ CheckEnd)

-----------------------------------------------------------------------------
(* Properties                                                                 *)

StreamTypeOK ==
  /\ last \in 0..MaxEvents /\ endedAt \in 0..last /\ cursor \in 0..last
  /\ client \in {"unknown", "typescript", "python"} /\ Over \in BOOLEAN
  /\ reader \in {"connecting", "streaming", "checking", "done", "gap", "exhausted", "broken"}
  /\ relay \in {"none", "asking", "waiting", "listing", "writing", "checking"}
  /\ connection \in {"open", "ended", "cut"} /\ breaks \in 0..MaxBreaks

\* A reader that says it is done has yielded every event up to the one that ended the
\* run, and no reconnection made it miss one.
NothingIsMissed == (reader = "done" => endedAt \in 1..cursor) /\ reader # "gap"

\* Once the run has ended, the reader has.
ReaderIsDone == endedAt # 0 => Over
=============================================================================
