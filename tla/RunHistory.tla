----------------------------- MODULE RunHistory -----------------------------
(***************************************************************************)
(* Reading the history and the log of a run while its client is still      *)
(* posting them: the scan of the history by ranges of steps, downsampled   *)
(* histories and history keys, and the walk of the log by offsets          *)
(* (store/run.go, store/log.go, graphql/run_resolver.go).                  *)
(*                                                                         *)
(* The file stream handler (see FileStream) inserts the lines of a POST    *)
(* one by one and drops the errors.  A POST the client repeats inserts its *)
(* lines again, and neither table has a unique index.                      *)
(***************************************************************************)
EXTENDS Naturals, Sequences, FiniteSets, SequencesExt

CONSTANTS
    Posts,          \* what the client posts, in this order
    Keys,           \* metric names
    PageLength,     \* steps of a page of the scan, lines of a page of the log
    Slots,          \* the POSTs that may be handled at the same time
    MaxRepeats,     \* bound: repeated POSTs
    MaxErrors       \* bound: statements that fail

\* A line of wandb-history.jsonl with the metrics it logs, or one of
\* output.log; a POST has lines of both files.
HistoryLine == [file: {"history"}, num: Nat, keys: SUBSET Keys]
LogLine     == [file: {"log"}, num: Nat]
Body        == [history: Seq(HistoryLine), log: Seq(LogLine)]

ASSUME HistoryAssumption ==
    /\ Posts \in Seq(Body)
    /\ PageLength \in Nat \ {0}
    /\ {MaxRepeats, MaxErrors} \subseteq Nat

VARIABLES
    histories,  \* run_histories
    logs,       \* run_logs
    pending,    \* per POST being handled: the lines not inserted yet
    awaited,    \* the POST the client waits for the answer of, if any
    posted,     \* the number of POSTs the client has sent for the first time
    reader,     \* the client that reads
    present,    \* history: the rows there were when it began
    met,        \* history: what may have shifted its pages
    repeats, errors

stored     == <<histories, logs>>
posting    == <<pending, awaited, posted, repeats>>
historical == <<stored, posting, reader, present, met, errors>>

Reading == reader.step \in {"begin", "page", "count", "list"}

Passes == UNCHANGED errors
Breaks == errors < MaxErrors /\ errors' = errors + 1

HistoryInit ==
    /\ histories = {} /\ logs = {}
    /\ pending = [s \in Slots |-> <<>>]
    /\ awaited = {} /\ posted = 0
    /\ reader = [of |-> "none", step |-> "idle", at |-> 0, end |-> 0, got |-> <<>>]
    /\ present = {} /\ met = {}
    /\ repeats = 0 /\ errors = 0

(***************************************************************************)
(* The client posts, and the handler inserts.                              *)
(***************************************************************************)
\* The files of a POST are handled in any order.
OrdersOf(body) == {body.history \o body.log, body.log \o body.history}

Accept(s, body) ==
    /\ pending[s] = <<>>
    /\ \E lines \in OrdersOf(body) : pending' = [pending EXCEPT ![s] = lines]
    /\ awaited' = {s}
    /\ UNCHANGED <<stored, reader, present, met, errors>>

\* A POST is sent when the one before it was answered.  A handler the client
\* has given up on may still be inserting.
Post(s) ==
    /\ posted < Len(Posts)
    /\ \A t \in awaited : pending[t] = <<>>
    /\ Accept(s, Posts[posted + 1])
    /\ posted' = posted + 1
    /\ UNCHANGED repeats

\* The client gives up on a POST that is handled, or whose answer is lost,
\* and sends it again.
Repeat(s) ==
    /\ posted > 0 /\ repeats < MaxRepeats
    /\ Accept(s, Posts[posted])
    /\ repeats' = repeats + 1
    /\ UNCHANGED posted

\* A line of the log that is inserted before one the reader has been given,
\* or between the COUNT and the list of a page before one that is there.
Shifts(num) ==
    {w \in {"early", "between"} :
        /\ reader.of = "log" /\ Reading
        /\ w = "early" => \E n \in DOMAIN reader.got : num < reader.got[n].num
        /\ w = "between" => reader.step = "list" /\ \E l \in logs : num < l.num}

\* One INSERT.
InsertLine(s) ==
    /\ pending[s] # <<>>
    /\ pending' = [pending EXCEPT ![s] = Tail(@)]
    /\ LET line == Head(pending[s]) IN
       \/ Breaks /\ UNCHANGED <<stored, met>>
       \/ /\ Passes /\ line.file = "history"
          /\ histories' = histories \cup {[num |-> line.num, keys |-> line.keys, id |-> Cardinality(histories) + 1]}
          /\ UNCHANGED <<logs, met>>
       \/ /\ Passes /\ line.file = "log"
          /\ logs' = logs \cup {[num |-> line.num, id |-> Cardinality(logs) + 1]}
          /\ met' = met \cup Shifts(line.num)
          /\ UNCHANGED histories
    /\ UNCHANGED <<awaited, posted, reader, present, repeats>>

(***************************************************************************)
(* Queries on the history.                                                 *)
(***************************************************************************)
\* ORDER BY step or line_num.  Rows with the same number come in the order
\* of the index, which is that of their ids.
Ahead(p, q)    == p.num < q.num \/ (p.num = q.num /\ p.id < q.id)
AheadOf(q, S)  == {p \in S : Ahead(p, q)}
Ordered(S)     == [i \in 1..Cardinality(S) |-> CHOOSE q \in S : Cardinality(AheadOf(q, S)) = i - 1]

\* OFFSET and LIMIT.
Slice(rows, offset, limit) == SubSeq(rows, offset + 1, Min({offset + limit, Len(rows)}))

\* Fault seeded for ScanComplete: both ends of the range are included.
BetweenClosed(min, max) == {h \in histories : (\A m \in min : m <= h.num) /\ (\A m \in max : h.num <= m)}

\* A range of steps with at most one lower and one upper bound.
Between(min, max) == {h \in histories : (\A m \in min : m <= h.num) /\ (\A m \in max : h.num < m)}

\* The bounds and the limit, 0 for none, are those the query has.
GetHistory(min, max, limit) ==
    LET rows == Ordered(Between(min, max)) IN IF limit > 0 THEN Slice(rows, 0, limit) ELSE rows

\* Fault seeded for SamplesSpread: the stride of the plan, count / samples.
IndexByStride(i, n, samples) == 1 + i * (n \div samples)

\* The index of the i-th sample of n rows, from 0, as an index from 1.
Index(i, n, samples) == 1 + (i * (n - 1)) \div (samples - 1)

Downsampled(rows, samples) ==
    LET n == Len(rows) IN
    CASE samples = 0 \/ n <= samples -> rows
      [] samples = 1 /\ n > 1 -> <<rows[n]>>
      [] OTHER -> [i \in 1..samples |-> rows[Index(i - 1, n, samples)]]

\* The points of a chart: sampled first, and then reduced to the keys asked
\* for, if any; a row with none of them stays, with its step.
GetSampledHistory(keys, samples) ==
    LET rows == Downsampled(Ordered(histories), samples)
    IN  [n \in DOMAIN rows |-> [num |-> rows[n].num, id |-> rows[n].id,
                                keys |-> IF keys = {} THEN rows[n].keys ELSE rows[n].keys \cap keys]]

\* The rows in the order the history keys are collected from.
Visited == Ordered(histories)

\* After n of them: the largest step, which starts at 0, and for each key
\* the row that gave its value, 0 if none.  Each row overwrites what earlier
\* rows gave.
StepAfter[n \in 0..Cardinality(histories)] ==
    IF n = 0 THEN 0 ELSE IF Visited[n].num > StepAfter[n - 1] THEN Visited[n].num ELSE StepAfter[n - 1]

KeysAfter[n \in 0..Cardinality(histories)] ==
    [k \in Keys |-> IF n = 0 THEN 0 ELSE IF k \in Visited[n].keys THEN Visited[n].id ELSE KeysAfter[n - 1][k]]

GetHistoryKeys == [lastStep |-> StepAfter[Cardinality(histories)], keys |-> KeysAfter[Cardinality(histories)]]

(***************************************************************************)
(* Readers.  The scan is that of the SDK: it asks for the last step, and   *)
(* then for the rows of as many steps at a time as it asks for rows.  The  *)
(* whole history is asked for in one query, with or without a limit.       *)
(***************************************************************************)
BeginReading ==
    /\ reader.of = "none"
    /\ \/ reader' = [reader EXCEPT !.of = "history", !.step = "begin"] /\ present' = histories
       \/ reader' = [reader EXCEPT !.of = "whole", !.step = "begin"] /\ present' = histories
       \/ reader' = [reader EXCEPT !.of = "log", !.step = "count"] /\ present' = logs
    /\ UNCHANGED <<stored, posting, met, errors>>

\* A statement whose error is reported ends the reading.
Rejected == Breaks /\ reader' = [reader EXCEPT !.step = "failed"]

LastStep ==
    /\ reader.of = "history" /\ reader.step = "begin"
    /\ \/ Passes /\ reader' = [reader EXCEPT !.step = "page", !.end = GetHistoryKeys.lastStep + 1]
       \/ Rejected
    /\ UNCHANGED <<stored, posting, present, met>>

ScanPage ==
    /\ reader.of = "history" /\ reader.step = "page"
    /\ LET max == Min({reader.at + PageLength, reader.end}) IN
       \/ Passes /\ reader' = [reader EXCEPT !.got  = @ \o GetHistory({reader.at}, {max}, PageLength),
                                             !.at   = @ + PageLength,
                                             !.step = IF max = reader.end THEN "done" ELSE "page"]
       \/ Rejected
    /\ UNCHANGED <<stored, posting, present, met>>

\* The reader keeps the limit it gave.
ReadWhole ==
    /\ reader.of = "whole" /\ reader.step = "begin"
    /\ \/ \E limit \in {0, PageLength} :
             Passes /\ reader' = [reader EXCEPT !.got = GetHistory({}, {}, limit), !.end = limit, !.step = "done"]
       \/ Rejected
    /\ UNCHANGED <<stored, posting, present, met>>

\* GetRunLogs: the error of the COUNT is dropped, and the total is 0.
CountLogs ==
    /\ reader.of = "log" /\ reader.step = "count"
    /\ \/ Passes /\ reader' = [reader EXCEPT !.step = "list", !.end = Cardinality(logs)] /\ UNCHANGED met
       \/ Breaks /\ reader' = [reader EXCEPT !.step = "list", !.end = 0] /\ met' = met \cup {"uncounted"}
    /\ UNCHANGED <<stored, posting, present>>

\* The page at the reader's offset.
LogPage == Slice(Ordered(logs), reader.at, PageLength)

\* The client goes on until it has as many lines as the last total said.
ListLogs ==
    /\ reader.of = "log" /\ reader.step = "list"
    /\ \/ Passes /\ reader' = [reader EXCEPT !.got  = @ \o LogPage,
                                             !.at   = @ + Len(LogPage),
                                             !.step = IF reader.at + Len(LogPage) < reader.end THEN "count" ELSE "done"]
       \/ Rejected
    /\ UNCHANGED <<stored, posting, present, met>>

HistoryNext ==
    \/ \E s \in Slots : Post(s) \/ Repeat(s) \/ InsertLine(s)
    \/ BeginReading \/ LastStep \/ ScanPage \/ ReadWhole \/ CountLogs \/ ListLogs

HistorySpec == HistoryInit /\ [][HistoryNext]_historical

(***************************************************************************)
(* Properties.                                                             *)
(***************************************************************************)
HistoryRow == [num: Nat, keys: SUBSET Keys, id: Nat]
LogRow     == [num: Nat, id: Nat]

\* Rows, pending lines and the reader have their types.
HistoryTypes ==
    /\ histories \subseteq HistoryRow /\ logs \subseteq LogRow
    /\ pending \in [Slots -> Seq(HistoryLine \cup LogLine)]
    /\ awaited \subseteq Slots /\ posted \in 0..Len(Posts)
    /\ reader \in [of: {"none", "history", "whole", "log"}, step: {"idle", "begin", "page", "count", "list", "done", "failed"},
                   at: Nat, end: Nat, got: Seq(HistoryRow \cup LogRow)]
    /\ reader.got \in Seq(IF reader.of = "log" THEN LogRow ELSE HistoryRow)
    /\ present \subseteq IF reader.of = "log" THEN logs ELSE histories
    /\ met \subseteq {"early", "between", "uncounted"}
    /\ repeats \in 0..MaxRepeats /\ errors \in 0..MaxErrors

InOrder(rows) == \A m, n \in DOMAIN rows : m < n => rows[m].num <= rows[n].num

PageOf(num) == {h \in histories : num \div PageLength = h.num \div PageLength}

\* A scan gives the rows in the order of their steps, none of them twice,
\* and every row that was there when it began, but for the rows of a page
\* that a repeated POST has filled with more rows than it has steps: then
\* the ones with the largest steps are missing.
ScanComplete ==
    reader.of = "history" /\ reader.step = "done" =>
        /\ IsInjective(reader.got) /\ InOrder(reader.got)
        /\ \A h \in present \ Range(reader.got) :
              /\ Cardinality(PageOf(h.num)) > PageLength
              /\ \A n \in DOMAIN reader.got : reader.got[n] \in PageOf(h.num) => reader.got[n].num <= h.num

\* A query for the whole history gives the rows there are, in order and none
\* twice, or the first of them when it has a limit.
WholeComplete ==
    reader.of = "whole" /\ reader.step = "done" =>
        /\ IsInjective(reader.got) /\ InOrder(reader.got)
        /\ \A h \in present \ Range(reader.got) :
              Len(reader.got) = reader.end /\ \A n \in DOMAIN reader.got : reader.got[n].num <= h.num

\* A downsampled history has as many rows as were asked for, in the order
\* of their steps and none twice, the first and the last row of the run
\* among them (the last only, if one row was asked for), and leaves out no
\* more rows at one place than at another, but for one.
SamplesSpread ==
    \A samples \in 1..Cardinality(histories) :
        LET rows == Ordered(histories)
            got  == GetSampledHistory({}, samples)
            at   == [i \in DOMAIN got |-> CHOOSE n \in DOMAIN rows : rows[n].id = got[i].id]
            gap  == (Len(rows) - 1) \div (samples - 1) IN
        /\ Len(got) = samples
        /\ at[samples] = Len(rows)
        /\ samples > 1 =>
              /\ at[1] = 1
              /\ \A i \in 1..(samples - 1) : at[i + 1] - at[i] \in gap..(gap + 1) \ {0}

\* The value the history keys show for a metric is the last one of its
\* chart, when the chart is not downsampled, and a metric without values is
\* not shown; the last step is that of the last row.
KeysAgree ==
    /\ \A k \in Keys :
          LET chart == GetSampledHistory({k}, 0)
              given == {n \in DOMAIN chart : chart[n].keys # {}}
          IN  GetHistoryKeys.keys[k] = IF given = {} THEN 0 ELSE chart[Max(given)].id
    /\ histories # {} => GetHistoryKeys.lastStep = Last(GetSampledHistory({}, 1)).num

\* A walk of the log gives every line that was there when it began, unless
\* a line is inserted between the COUNT and the list of a page before one
\* that is there, or a COUNT fails: then it may end too early.  As long as no
\* line is inserted before one it has given, it gives none twice and all in
\* order.
LogComplete ==
    reader.of = "log" /\ reader.step = "done" =>
        /\ met \cap {"between", "uncounted"} = {} => present \subseteq Range(reader.got)
        /\ "early" \notin met => IsInjective(reader.got) /\ InOrder(reader.got)

\* A reader that pages through the history or the log of a run that is still
\* writing gets every row that was there when it began.
ReadsComplete == HistoryTypes /\ ScanComplete /\ WholeComplete /\ LogComplete

\* A downsampled chart represents the history: its ends, its order and no
\* place more than another; the key statistics agree with the charts.
ChartsFaithful == SamplesSpread /\ KeysAgree
=============================================================================
