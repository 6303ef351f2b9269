----------------------------- MODULE FileStream -----------------------------
(***************************************************************************)
(* The file_stream endpoint (internal/filestream/handler.go), to which the *)
(* SDK process of a run posts what the run logs.                           *)
(*                                                                         *)
(* One handler stores the lines of a POST one INSERT at a time, in a random*)
(* order of the files, and ends with one UPDATE of the run's row.  The     *)
(* handler is not bound to the request's context: when the client gives up *)
(* waiting, it goes on, and the client's retry runs next to it.  A slot is *)
(* such a handler.                                                         *)
(*                                                                         *)
(* The client is the wandb-core process, outside this repository: it posts *)
(* the lines in order, one POST at a time, repeats a POST that timed out or*)
(* whose connection broke, and gives up on a 400 or a 404.                 *)
(***************************************************************************)
EXTENDS Naturals, Sequences

CONSTANTS
    Files,          \* the files of which every line is stored
    Json,           \* those whose lines have to parse as JSON objects
    Lines,          \* file -> how many lines the run logs to it
    Unparsable,     \* the lines of Json files that do not parse (NaN)
    Chunked,        \* the files whose lines may come as a list of chunks
    Slots,          \* handlers that may run at the same time
    None,
    MaxBatch,       \* bound: lines of one file in one POST
    MaxRetries,     \* bound: POSTs the client stops waiting for
    MaxCrashes,     \* bound: deaths of the server process
    MaxFaults       \* bound: statements that fail

\* How a run may end: exit code zero, another one, or none given.
Exits == {"zero", "nonzero", "absent"}

\* The lines from[f] + 1 to to[f] of each file; the number of the summary it
\* carries, 0 if none; how the run ended, None unless "complete" is set; and
\* whether the lines of a file come as a list of chunks with offsets of their
\* own, and so not as the FileData they are decoded to.
Body == [from: [Files -> Nat], to: [Files -> Nat], summary: Nat,
         exit: Exits \cup {None}, chunks: BOOLEAN]

ASSUME StreamAssumption ==
    /\ Json \subseteq Files /\ Chunked \subseteq Files
    /\ Lines \in [Files -> Nat]
    /\ Unparsable \subseteq Nat
    /\ None \notin Slots \cup Exits \cup Body
    /\ {MaxBatch, MaxRetries, MaxCrashes, MaxFaults} \subseteq Nat

VARIABLES
    rows,       \* run_histories, run_events, run_logs: lines in order of id
    count,      \* history_line_count, events_line_count, log_line_count
    run,        \* state, exit_code and summary_metrics of the row in runs
    pc,         \* per slot: what the handler does next
    body,       \* per slot: the POST it handles
    at,         \* per slot and file: the next line to store
    phase,      \* client: "streaming", "finished" or "stopped"
    acked,      \* client: per file, the lines of answered POSTs
    sending,    \* client: the POST that has to be answered next
    awaited,    \* client: the slot whose answer it waits for
    sent,       \* client: summaries sent so far
    retries, crashes, faults

tables == <<rows, count, run>>
client == <<phase, acked, sending, awaited, sent>>
bounds == <<retries, crashes, faults>>
vars   == <<tables, pc, body, at, client, bounds>>

Working == {"lookup", "rows", "update"}
Steps   == Working \cup {"idle", "answered", "refused"}

Parses(f, n) == f \notin Json \/ n \notin Unparsable
Sends(b)     == {f \in Files : b.to[f] > b.from[f]}

Start        == [f \in Files |-> 1]

Succeeds == UNCHANGED faults
Fails    == faults < MaxFaults /\ faults' = faults + 1

Init ==
    /\ rows = [f \in Files |-> <<>>]
    /\ count = [f \in Files |-> 0]
    /\ run = [state |-> "running", exit |-> None, summary |-> 0]
    /\ pc = [p \in Slots |-> "idle"]
    /\ body = [p \in Slots |-> None]
    /\ at = [p \in Slots |-> Start]
    /\ phase = "streaming"
    /\ acked = [f \in Files |-> 0]
    /\ sending = None
    /\ awaited = None
    /\ sent = 0
    /\ retries = 0 /\ crashes = 0 /\ faults = 0

(***************************************************************************)
(* The client.                                                             *)
(***************************************************************************)
\* A POST reaches the server: a handler starts.
Deliver(p, b) ==
    /\ pc[p] = "idle"
    /\ pc' = [pc EXCEPT ![p] = "lookup"]
    /\ body' = [body EXCEPT ![p] = b]
    /\ at' = [at EXCEPT ![p] = [f \in Files |-> b.from[f] + 1]]
    /\ awaited' = p

\* New lines, the summary they lead to, and with the last ones the exit code.
Transmit ==
    /\ phase = "streaming" /\ sending = None
    /\ \E to \in [Files -> UNION {0..Lines[f] : f \in Files}], exit \in Exits \cup {None},
          summary \in {0, sent + 1}, chunks \in BOOLEAN :
          LET b == [from |-> acked, to |-> to, summary |-> summary, exit |-> exit,
                    chunks |-> chunks] IN
          /\ \A f \in Files : to[f] \in acked[f]..Lines[f] /\ to[f] <= acked[f] + MaxBatch
          /\ summary # 0 => Sends(b) # {}
          /\ chunks => Sends(b) \cap Chunked # {}
          /\ exit # None => to = Lines
          /\ Sends(b) # {} \/ exit # None
          /\ sending' = b
          /\ sent' = IF summary = 0 THEN sent ELSE summary
          /\ \E p \in Slots : Deliver(p, b)
    /\ UNCHANGED <<tables, phase, acked, bounds>>

Heartbeat ==
    /\ phase = "streaming" /\ sending = None
    /\ LET b == [from |-> acked, to |-> acked, summary |-> 0, exit |-> None,
              chunks |-> FALSE] IN
          sending' = b /\ \E p \in Slots : Deliver(p, b)
    /\ UNCHANGED <<tables, phase, acked, sent, bounds>>

Resend ==
    /\ phase = "streaming" /\ sending # None /\ awaited = None
    /\ \E p \in Slots : Deliver(p, sending)
    /\ UNCHANGED <<tables, phase, acked, sending, sent, bounds>>

\* The client stops waiting; a finished handler's answer is lost.
Timeout ==
    /\ awaited # None /\ retries < MaxRetries
    /\ retries' = retries + 1
    /\ awaited' = None
    /\ pc' = [pc EXCEPT ![awaited] = IF @ \in Working THEN @ ELSE "idle"]
    /\ UNCHANGED <<tables, body, at, phase, acked, sending, sent, crashes, faults>>

Answered ==
    /\ awaited # None /\ pc[awaited] = "answered"
    /\ pc' = [pc EXCEPT ![awaited] = "idle"]
    /\ acked' = sending.to
    /\ phase' = IF sending.exit # None THEN "finished" ELSE phase
    /\ awaited' = None /\ sending' = None
    /\ UNCHANGED <<tables, body, at, sent, bounds>>

\* wandb-core retries neither a 400 nor a 404; what it was sending stays.
GiveUp ==
    /\ awaited # None /\ pc[awaited] = "refused"
    /\ pc' = [pc EXCEPT ![awaited] = "idle"]
    /\ phase' = "stopped"
    /\ awaited' = None
    /\ UNCHANGED <<tables, body, at, acked, sending, sent, bounds>>

(***************************************************************************)
(* The handler.                                                            *)
(***************************************************************************)
\* The answer of a handler nobody waits for goes nowhere.
Reply(p, how) ==
    /\ pc' = [pc EXCEPT ![p] = IF awaited = p THEN how ELSE "idle"]
    /\ body' = [body EXCEPT ![p] = None]
    /\ at' = [at EXCEPT ![p] = Start]

\* The rest of the body of a POST whose client is gone may never arrive.
BrokenOff(p) == awaited # p

\* Entity, project and run are looked up; any error is answered with a 404.
\* Then the body is decoded, and one that does not decode is answered with a
\* 400: one with chunks, one broken off.
Lookup(p) ==
    /\ pc[p] = "lookup"
    /\ \/ /\ Succeeds /\ ~body[p].chunks
          /\ pc' = [pc EXCEPT ![p] = "rows"] /\ UNCHANGED <<body, at>>
       \/ /\ (Succeeds /\ (body[p].chunks \/ BrokenOff(p))) \/ Fails
          /\ Reply(p, "refused")
    /\ UNCHANGED <<tables, client, retries, crashes>>

\* Files are taken in any order, one after the other.
Pending(p) == {f \in Files : at[p][f] <= body[p].to[f]}
Begun(p)   == {f \in Pending(p) : at[p][f] > body[p].from[f] + 1}
Current(p) == IF Begun(p) # {} THEN Begun(p) ELSE Pending(p)

\* Fault seeded for NoGaps: the lines of a file are stored from the last one.
StoreLineBackwards(p) ==
    /\ pc[p] = "rows"
    /\ \E f \in Current(p) :
          /\ LET n == body[p].to[f] + body[p].from[f] + 1 - at[p][f] IN
                \/ Parses(f, n) /\ Succeeds /\ rows' = [rows EXCEPT ![f] = Append(@, n)]
                \/ ~Parses(f, n) /\ Succeeds /\ UNCHANGED rows
                \/ Parses(f, n) /\ Fails /\ UNCHANGED rows
          /\ at' = [at EXCEPT ![p][f] = @ + 1]
    /\ UNCHANGED <<count, run, pc, body, client, retries, crashes>>

\* Fault seeded for Delivered: a line that does not parse is tried again.
StoreLineStuck(p) ==
    /\ pc[p] = "rows"
    /\ \E f \in Current(p) :
          /\ Parses(f, at[p][f]) /\ Succeeds
          /\ rows' = [rows EXCEPT ![f] = Append(@, at[p][f])]
          /\ at' = [at EXCEPT ![p][f] = @ + 1]
    /\ UNCHANGED <<count, run, pc, body, client, retries, crashes>>

\* A line that does not parse and an INSERT that fails are passed over.
StoreLine(p) ==
    /\ pc[p] = "rows"
    /\ \E f \in Current(p) :
          /\ \/ /\ Parses(f, at[p][f]) /\ Succeeds
                /\ rows' = [rows EXCEPT ![f] = Append(@, at[p][f])]
             \/ /\ \/ ~Parses(f, at[p][f]) /\ Succeeds
                   \/ Parses(f, at[p][f]) /\ Fails
                /\ UNCHANGED rows
          /\ at' = [at EXCEPT ![p][f] = @ + 1]
    /\ UNCHANGED <<count, run, pc, body, client, retries, crashes>>

RowsStored(p) ==
    /\ pc[p] = "rows" /\ Pending(p) = {}
    /\ pc' = [pc EXCEPT ![p] = "update"]
    /\ at' = [at EXCEPT ![p] = Start]
    /\ UNCHANGED <<tables, body, client, bounds>>

\* The columns the UPDATE sets: counters by what was posted, relative to the
\* row; the summary and the state only if the POST has them.
Counted(p) == [f \in Files |-> count[f] + (body[p].to[f] - body[p].from[f])]

StateOf(exit) == IF exit = "nonzero" THEN "crashed" ELSE "finished"

Ended(p) ==
    IF body[p].exit = None THEN run
    ELSE [run EXCEPT !.state = StateOf(body[p].exit),
                     !.exit = IF body[p].exit = "absent" THEN None ELSE body[p].exit]

\* Fault seeded for SummaryFollowsAcks: the first summary is kept.
UpdateRunKeeping(p) ==
    /\ pc[p] = "update"
    /\ Succeeds
    /\ count' = Counted(p)
    /\ run' = [Ended(p) EXCEPT !.summary =
                  IF body[p].summary = 0 \/ @ # 0 THEN @ ELSE body[p].summary]
    /\ Reply(p, "answered")
    /\ UNCHANGED <<rows, client, retries, crashes>>

\* The error of the UPDATE is dropped and the answer is 200 all the same.
UpdateRun(p) ==
    /\ pc[p] = "update"
    /\ \/ /\ Succeeds
          /\ count' = Counted(p)
          /\ run' = [Ended(p) EXCEPT !.summary =
                        IF body[p].summary = 0 THEN @ ELSE body[p].summary]
       \/ Fails /\ UNCHANGED <<count, run>>
    /\ Reply(p, "answered")
    /\ UNCHANGED <<rows, client, retries, crashes>>

Crash ==
    /\ crashes < MaxCrashes
    /\ crashes' = crashes + 1
    /\ pc' = [p \in Slots |-> "idle"]
    /\ body' = [p \in Slots |-> None]
    /\ at' = [p \in Slots |-> Start]
    /\ awaited' = None
    /\ UNCHANGED <<tables, phase, acked, sending, sent, retries, faults>>

Handler(p) == Lookup(p) \/ StoreLine(p) \/ RowsStored(p) \/ UpdateRun(p)

Next == \/ Transmit \/ Heartbeat \/ Resend \/ Timeout \/ Answered \/ GiveUp \/ Crash
        \/ \E p \in Slots : Handler(p)

(***************************************************************************)
(* Go runs every handler goroutine it started.  The client takes an answer *)
(* that arrived and repeats what was not answered; lines waiting to be sent*)
(* go out however often heartbeats are sent in between.  Timeouts and      *)
(* deaths of the server come to an end: their number is bounded.           *)
(***************************************************************************)
Fairness ==
    /\ \A p \in Slots : WF_vars(Handler(p))
    /\ WF_vars(Answered) /\ WF_vars(GiveUp) /\ WF_vars(Resend)
    /\ SF_vars(Transmit)

Spec == Init /\ [][Next]_vars /\ Fairness

(***************************************************************************)
(* Properties.                                                             *)
(***************************************************************************)
Stored(f) == {rows[f][i] : i \in 1..Len(rows[f])}

\* Every value has its type.
TypeOK ==
    /\ rows \in [Files -> Seq(Nat)]
    /\ count \in [Files -> Nat]
    /\ run \in [state: {"running", "finished", "crashed"},
                exit: {"zero", "nonzero", None}, summary: Nat]
    /\ pc \in [Slots -> Steps]
    /\ body \in [Slots -> Body \cup {None}]
    /\ at \in [Slots -> [Files -> Nat]]
    /\ phase \in {"streaming", "finished", "stopped"}
    /\ acked \in [Files -> Nat]
    /\ sending \in Body \cup {None}
    /\ awaited \in Slots \cup {None}
    /\ sent \in Nat
    /\ retries \in 0..MaxRetries /\ crashes \in 0..MaxCrashes /\ faults \in 0..MaxFaults

\* What is stored of a file is, at any moment, the beginning of what the run
\* logged, first occurrences in their order: handlers that run next to their
\* own repetition, and crashes in the middle of a POST, leave no gap.
NoGaps ==
    faults = 0 =>
        \A f \in Files : \A i \in 1..Len(rows[f]) : \A n \in 1..(rows[f][i] - 1) :
            Parses(f, n) => \E j \in 1..(i - 1) : rows[f][j] = n

\* The client may forget a line once its POST was answered: it is stored.
AckedLinesStored ==
    faults = 0 =>
        \A f \in Files : \A n \in 1..acked[f] : Parses(f, n) => n \in Stored(f)

\* The counters a resumed run takes as its offsets count no line that is not
\* stored, unless it did not parse; repeated and killed POSTs only store more
\* rows than they count.
CountNeverAhead ==
    faults = 0 => \A f \in Files \ Json : count[f] <= Len(rows[f])

\* Between POSTs the summary is the last one whose POST was answered, as long
\* as no POST timed out; a death of the server does not bring an older back.
SummaryFollowsAcks ==
    (faults = 0 /\ retries = 0 /\ sending = None) => run.summary = sent

\* A run whose end was answered keeps the state and exit code it ended with,
\* whatever handlers of earlier POSTs still do.
FinalStateKept ==
    (faults = 0 /\ phase = "finished") =>
        /\ run.state \in {"finished", "crashed"}
        /\ run.state = "crashed" <=> run.exit = "nonzero"

\* The stream comes to its end, whatever timeouts, deaths of the server and
\* failing inserts and updates happen on the way: every line is posted and
\* answered.  Only a refused POST stops it before, and a POST is refused only if
\* it has a list of chunks (400) or a lookup of the handler failed (404).
Delivered == <>(\/ phase = "finished" /\ acked = Lines
                \/ phase = "stopped" /\ (sending.chunks \/ faults > 0))

\* The rows of every file are a beginning of what the run logged and hold
\* each line whose POST was answered.
LinesKept == TypeOK /\ NoGaps /\ AckedLinesStored

\* The row of the run agrees with the stored lines and with what the client
\* was answered: its counters, its summary and its final state.
RunRowHolds == CountNeverAhead /\ SummaryFollowsAcks /\ FinalStateKept
=============================================================================
