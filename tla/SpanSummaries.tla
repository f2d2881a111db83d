--------------------------- MODULE SpanSummaries ----------------------------
(***************************************************************************)
(* Summaries of what the agents of a team did: the narrated rows are cut   *)
(* into spans (detectSpans), the closed spans without a summary are listed *)
(* oldest first (decideSpansToSummarize), and a timer (SummaryMonitor) has *)
(* an agent CLI summarize them one after the other, within a limit per run *)
(* and a limit per rolling hour (SummaryRateLimiter).                      *)
(*                                                                         *)
(* A row is named by its place in the stream, a span by its first row.     *)
(* Some spans cannot be summarized, however often they are tried (sick).   *)
(* Time advances by the interval of the timer.                             *)
(***************************************************************************)
EXTENDS Integers, Sequences, FiniteSets, SequencesExt

CONSTANTS
    Source,         \* the agent and runtime a row is of
    MaxRows,        \* DEFAULT_SPAN_CONFIG.maxRows
    MaxTokens,      \* DEFAULT_SPAN_CONFIG.maxTokens
    Tokens,         \* the token counts of rows
    MaxPerRun,      \* summarizer.maxPerRun
    MaxPerHour,     \* summarizer.maxPerHour
    Hour,           \* the limiter's window, in intervals
    Length,         \* rows of the stream (bound)
    MaxSick         \* spans that cannot be summarized (bound)

ASSUME SpanAssumption ==
    /\ MaxRows \in Nat \ {0} /\ MaxTokens \in Nat \ {0} /\ Tokens \subseteq Nat
    /\ MaxPerRun \in Nat \ {0} /\ MaxPerHour \in Nat /\ Hour \in Nat \ {0}
    /\ Length \in Nat /\ MaxSick \in Nat

VARIABLES
    rows,           \* narrated_lines of the team, in order
    summary,        \* span id -> the rows its span_summaries row was made of
    queue,          \* the spans the run in flight has still to summarize
    asking,         \* whether it waits for the CLI, for the first of them
    inFlight,       \* SummaryMonitor.#inFlight
    due,            \* the interval has elapsed
    window,         \* the limiter's acquisitions, by age
    sick

vars == <<rows, summary, queue, asking, inFlight, due, window, sick>>

Row == [source : Source, activity : {TRUE}, gap : BOOLEAN, tokens : Tokens]
   \cup [activity : {FALSE}]

TypeOK ==
    /\ rows \in Seq(Row) /\ Len(rows) <= Length
    /\ summary \in [1..Length -> Seq(1..Length)]
    /\ queue \in Seq(Seq(1..Length))
    /\ asking \in BOOLEAN /\ inFlight \in BOOLEAN /\ due \in BOOLEAN
    /\ window \in Seq(0..Hour - 1) /\ Len(window) <= MaxPerHour
    /\ sick \subseteq 1..Length

NoSummary == <<>>

Init ==
    /\ rows = <<>>
    /\ summary = [i \in 1..Length |-> NoSummary]
    /\ queue = <<>>
    /\ asking = FALSE
    /\ inFlight = FALSE
    /\ due = FALSE
    /\ window = <<>>
    /\ sick \in {s \in SUBSET (1..Length) : Cardinality(s) <= MaxSick}

-----------------------------------------------------------------------------
(* detectSpans: a fold over the rows, with the closed spans and the rows   *)
(* and tokens of the open one (no rows: no span is open).                  *)
NoSpans == [closed |-> <<>>, open |-> <<>>, tokens |-> 0]

Finalize(acc) == IF acc.open = <<>> THEN acc
                 ELSE [NoSpans EXCEPT !.closed = Append(acc.closed, acc.open)]

(* An activity row that does not belong to the open span: another agent or *)
(* runtime, or more than gapMs after the row before it.                    *)
BreaksOff(rs, acc, i) ==
    acc.open # <<>> /\ (rs[i].gap \/ rs[i].source # rs[Last(acc.open)].source)

(* The size cap is looked at after the row has been taken.                 *)
Extended(rs, acc, i) ==
    LET taken == [acc EXCEPT !.open = Append(@, i), !.tokens = @ + rs[i].tokens]
    IN IF Len(taken.open) >= MaxRows \/ taken.tokens >= MaxTokens THEN Finalize(taken)
       ELSE taken

(* A system row closes the open span and belongs to none.                  *)
TakeRow(rs, acc, i) ==
    IF ~rs[i].activity THEN Finalize(acc)
    ELSE Extended(rs, IF BreaksOff(rs, acc, i) THEN Finalize(acc) ELSE acc, i)

DetectSpans(rs) ==
    LET taken[n \in 0..Len(rs)] == IF n = 0 THEN NoSpans ELSE TakeRow(rs, taken[n - 1], n)
    IN taken[Len(rs)]

(* Mutant of ClosedSpans: the trailing span counts as closed.              *)
ClosedSpansEager(rs) == Finalize(DetectSpans(rs)).closed

ClosedSpans(rs) == DetectSpans(rs).closed

(* decideSpansToSummarize: of the closed spans, which come oldest first    *)
(* from the fold, those without a summary; a run takes the first MaxPerRun. *)
Awaiting[closed \in Seq(Seq(1..Length))] ==
    LET kept[n \in 0..Len(closed)] ==
            IF n = 0 THEN <<>>
            ELSE IF summary[Head(closed[n])] = NoSummary /\ Len(kept[n - 1]) < MaxPerRun
                 THEN Append(kept[n - 1], closed[n])
            ELSE kept[n - 1]
    IN kept[Len(closed)]

-----------------------------------------------------------------------------
(* The ingestor narrates an event.                                         *)
AppendNarration(r) ==
    /\ Len(rows) < Length
    /\ rows' = Append(rows, r)
    /\ UNCHANGED <<summary, queue, asking, inFlight, due, window, sick>>

(* Mutant of TryAcquire: a refused attempt is recorded too.                *)
TryAcquireAlways == window' = Append(window, 0)

(* SummaryRateLimiter.tryAcquire.                                          *)
TryAcquire == window' = IF Len(window) < MaxPerHour THEN Append(window, 0) ELSE window

(* Mutant of Recent: an acquisition leaves the window an interval late.    *)
RecentTooLong(age) == age + 1 <= Hour

(* Whether an acquisition is still in the window an interval from now.     *)
Recent(age) == age + 1 < Hour

(* The filter of tryAcquire over the acquisitions, an interval from now.   *)
Aged(ages) ==
    LET kept[n \in 0..Len(ages)] ==
            IF n = 0 THEN <<>>
            ELSE IF Recent(ages[n]) THEN Append(kept[n - 1], ages[n] + 1) ELSE kept[n - 1]
    IN kept[Len(ages)]

(* An interval passes and the timer fires.                                 *)
Pass ==
    /\ ~due
    /\ due' = TRUE
    /\ window' = Aged(window)
    /\ UNCHANGED <<rows, summary, queue, asking, inFlight, sick>>

(* tickOnce: skipped while a run is in flight; otherwise the first         *)
(* MaxPerRun of the spans awaiting a summary are taken on.                 *)
TickOnce ==
    /\ due
    /\ due' = FALSE
    /\ IF inFlight THEN UNCHANGED <<queue, inFlight>>
       ELSE /\ inFlight' = TRUE
            /\ queue' = Awaiting[ClosedSpans(rows)]
    /\ UNCHANGED <<rows, summary, asking, window, sick>>

(* The loop of summarizePendingSpans: the CLI is asked about the next span *)
(* when the limiter allows it, otherwise the rest is left for a later run. *)
AskNext ==
    /\ inFlight /\ ~asking /\ queue # <<>>
    /\ TryAcquire
    /\ IF Len(window) < MaxPerHour THEN asking' = TRUE /\ UNCHANGED queue
                                   ELSE queue' = <<>> /\ UNCHANGED asking
    /\ UNCHANGED <<rows, summary, inFlight, due, sick>>

(* appendSummary: the first write of a span id wins.                       *)
AppendSummary(span) ==
    summary' = [summary EXCEPT ![Head(span)] = IF @ = NoSummary THEN span ELSE @]

(* The CLI answers or fails (exit code, timeout, empty output); a span it  *)
(* failed on stays pending, and the loop goes on to the next.              *)
Answered ==
    /\ asking
    /\ asking' = FALSE
    /\ queue' = Tail(queue)
    /\ IF Head(Head(queue)) \in sick THEN UNCHANGED summary ELSE AppendSummary(Head(queue))
    /\ UNCHANGED <<rows, inFlight, due, window, sick>>

RunEnds ==
    /\ inFlight /\ ~asking /\ queue = <<>>
    /\ inFlight' = FALSE
    /\ UNCHANGED <<rows, summary, queue, asking, due, window, sick>>

Next ==
    \/ \E r \in Row : AppendNarration(r)
    \/ Pass
    \/ TickOnce
    \/ AskNext
    \/ Answered
    \/ RunEnds

(* The timer fires for as long as the team has a running agent, and the    *)
(* CLI is killed after its timeout.                                        *)
Fairness == WF_vars(Pass) /\ WF_vars(TickOnce) /\ WF_vars(AskNext \/ Answered \/ RunEnds)

Spec == Init /\ [][Next]_vars /\ Fairness

-----------------------------------------------------------------------------
(* A summary tells the whole of its span and nothing else, though the      *)
(* stream went on after it was listed: a closed span does not change, so   *)
(* the first write may win.                                                *)
SummaryTellsItsSpan ==
    {summary[i] : i \in 1..Length} \subseteq {NoSummary} \cup ToSet(ClosedSpans(rows))

IsClosed(i) == i \in {Head(span) : span \in ToSet(ClosedSpans(rows))}

(* A span that can be summarized is, once it is closed: spans that fail on *)
(* every try do not keep the others from the CLI, as long as retrying them *)
(* at every tick leaves some of the hour's limit.                          *)
EventuallySummarized ==
    \A i \in 1..Length : IsClosed(i) /\ i \notin sick ~> summary[i] # NoSummary
=============================================================================
