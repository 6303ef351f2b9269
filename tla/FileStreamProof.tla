--------------------------- MODULE FileStreamProof ---------------------------
(***************************************************************************)
(* Proofs about FileStream, for every set of files and handlers, every     *)
(* number of lines, batch size, number of timeouts, deaths of the server   *)
(* and failing statements.                                                 *)
(***************************************************************************)
EXTENDS FileStream, FiniteSetTheorems, TLAPS

\* A POST carries lines from some position up to a later one.
Ordered(b) == \A f \in Files : b.from[f] <= b.to[f]

\* What a handler has to be told of the POST it handles.
Handles(p) ==
    /\ pc[p] \in Working => body[p] \in Body /\ Ordered(body[p])
    /\ pc[p] \in Working /\ awaited = p => body[p] = sending
    /\ pc[p] \in {"answered", "refused"} => awaited = p
    /\ pc[p] = "lookup" => \A f \in Files : at[p][f] = body[p].from[f] + 1
    /\ pc[p] = "rows" => \A f \in Files : body[p].from[f] < at[p][f] /\ at[p][f] <= body[p].to[f] + 1

Control ==
    /\ sending # None => Ordered(sending)
    /\ awaited # None => sending # None /\ phase = "streaming"
    /\ \A p \in Slots : Handles(p)

TypeInv == TypeOK /\ Control

LEMMA NoneIsNoBody == None \notin Body /\ None \notin Slots /\ None \notin Exits
  BY StreamAssumption DEF StreamAssumption

LEMMA BodyFields ==
    ASSUME NEW b \in Body
    PROVE  /\ b.from \in [Files -> Nat] /\ b.to \in [Files -> Nat] /\ b.summary \in Nat
           /\ b.exit \in Exits \cup {None} /\ b.chunks \in BOOLEAN /\ b # None
           /\ \A f \in Files : b.from[f] \in Nat /\ b.to[f] \in Nat
  BY NoneIsNoBody DEF Body

LEMMA StartType == Start \in [Files -> Nat]
  BY DEF Start

\* The slots but p stay as they are.
Others(p) ==
    \A q \in Slots \ {p} : pc'[q] = pc[q] /\ body'[q] = body[q] /\ at'[q] = at[q]

SlotsTyped ==
    /\ pc' \in [Slots -> Steps]
    /\ body' \in [Slots -> Body \cup {None}]
    /\ at' \in [Slots -> [Files -> Nat]]

LEMMA DeliverFacts ==
    ASSUME TypeInv, NEW p \in Slots, NEW b \in Body, Deliver(p, b)
    PROVE  /\ pc[p] = "idle" /\ pc'[p] = "lookup" /\ body'[p] = b
           /\ at'[p] = [f \in Files |-> b.from[f] + 1]
           /\ Others(p) /\ SlotsTyped /\ awaited' = p
  <1>1. /\ pc \in [Slots -> Steps] /\ body \in [Slots -> Body \cup {None}]
        /\ at \in [Slots -> [Files -> Nat]]
    BY DEF TypeInv, TypeOK
  <1>2. [f \in Files |-> b.from[f] + 1] \in [Files -> Nat]
    BY BodyFields
  <1>3. "lookup" \in Steps
    BY DEF Steps, Working
  <1>4. /\ pc' = [pc EXCEPT ![p] = "lookup"] /\ body' = [body EXCEPT ![p] = b]
        /\ at' = [at EXCEPT ![p] = [f \in Files |-> b.from[f] + 1]] /\ awaited' = p /\ pc[p] = "idle"
    BY DEF Deliver
  <1>5. SlotsTyped
    BY <1>1, <1>2, <1>3, <1>4 DEF SlotsTyped
  <1>6. Others(p)
    BY <1>1, <1>4 DEF Others
  <1> QED BY <1>1, <1>4, <1>5, <1>6

LEMMA ReplyFacts ==
    ASSUME TypeInv, NEW p \in Slots, NEW how \in {"answered", "refused"}, Reply(p, how)
    PROVE  /\ pc'[p] = (IF awaited = p THEN how ELSE "idle") /\ body'[p] = None /\ at'[p] = Start
           /\ Others(p) /\ SlotsTyped
  <1>1. /\ pc \in [Slots -> Steps] /\ body \in [Slots -> Body \cup {None}]
        /\ at \in [Slots -> [Files -> Nat]]
    BY DEF TypeInv, TypeOK
  <1>2. (IF awaited = p THEN how ELSE "idle") \in Steps
    BY DEF Steps
  <1> QED BY <1>1, <1>2, StartType DEF Reply, SlotsTyped, Others

(***************************************************************************)
(* What each action does, as the invariants see it.                        *)
(***************************************************************************)
SameRows   == rows' = rows /\ count' = count /\ run' = run
SameClient == /\ phase' = phase /\ acked' = acked /\ sending' = sending
              /\ awaited' = awaited /\ sent' = sent

LEMMA TransmitFacts ==
    ASSUME TypeInv, Transmit
    PROVE  \E b \in Body, p \in Slots :
              /\ phase = "streaming" /\ sending = None /\ Ordered(b) /\ b.from = acked
              /\ b.summary \in {0, sent + 1}
              /\ sending' = b /\ sent' = (IF b.summary = 0 THEN sent ELSE b.summary)
              /\ Deliver(p, b)
              /\ SameRows /\ phase' = phase /\ acked' = acked
              /\ retries' = retries /\ crashes' = crashes /\ faults' = faults
  <1>1. PICK to \in [Files -> UNION {0..Lines[f] : f \in Files}], exit \in Exits \cup {None},
             summary \in {0, sent + 1}, chunks \in BOOLEAN :
          LET b == [from |-> acked, to |-> to, summary |-> summary, exit |-> exit, chunks |-> chunks] IN
          /\ \A f \in Files : to[f] \in acked[f]..Lines[f]
          /\ sending' = b
          /\ sent' = IF summary = 0 THEN sent ELSE summary
          /\ \E p \in Slots : Deliver(p, b)
    BY DEF Transmit
  <1> DEFINE b == [from |-> acked, to |-> to, summary |-> summary, exit |-> exit, chunks |-> chunks]
  <1>2. acked \in [Files -> Nat] /\ sent \in Nat
    BY DEF TypeInv, TypeOK
  <1>3. \A f \in Files : to[f] \in Nat /\ acked[f] <= to[f]
    BY <1>1, <1>2, StreamAssumption DEF StreamAssumption
  <1>4. to \in [Files -> Nat]
    BY <1>1, <1>3
  <1>5. b \in Body /\ b.from = acked /\ b.to = to /\ b.summary = summary
    BY <1>1, <1>2, <1>4 DEF Body
  <1>6. Ordered(b)
    BY <1>3, <1>5 DEF Ordered
  <1>7. /\ phase = "streaming" /\ sending = None /\ rows' = rows /\ count' = count /\ run' = run
        /\ phase' = phase /\ acked' = acked /\ retries' = retries /\ crashes' = crashes /\ faults' = faults
    BY DEF Transmit, tables, bounds
  <1> QED BY <1>1, <1>5, <1>6, <1>7 DEF SameRows

LEMMA HeartbeatFacts ==
    ASSUME TypeInv, Heartbeat
    PROVE  \E b \in Body, p \in Slots :
              /\ phase = "streaming" /\ sending = None /\ Ordered(b) /\ b.from = acked
              /\ b.summary \in {0, sent + 1}
              /\ sending' = b /\ sent' = (IF b.summary = 0 THEN sent ELSE b.summary)
              /\ Deliver(p, b)
              /\ SameRows /\ phase' = phase /\ acked' = acked
              /\ retries' = retries /\ crashes' = crashes /\ faults' = faults
  <1> DEFINE b == [from |-> acked, to |-> acked, summary |-> 0, exit |-> None, chunks |-> FALSE]
  <1>1. sending' = b /\ \E p \in Slots : Deliver(p, b)
    BY DEF Heartbeat
  <1>2. acked \in [Files -> Nat] /\ sent \in Nat
    BY DEF TypeInv, TypeOK
  <1>3. b \in Body /\ b.from = acked /\ b.to = acked /\ b.summary = 0
    BY <1>2 DEF Body
  <1>4. Ordered(b)
    BY <1>2, <1>3 DEF Ordered
  <1>5. /\ phase = "streaming" /\ sending = None /\ rows' = rows /\ count' = count /\ run' = run
        /\ phase' = phase /\ acked' = acked /\ sent' = sent
        /\ retries' = retries /\ crashes' = crashes /\ faults' = faults
    BY DEF Heartbeat, tables, bounds
  <1> QED BY <1>1, <1>3, <1>4, <1>5 DEF SameRows

LEMMA ResendFacts ==
    ASSUME TypeInv, Resend
    PROVE  /\ sending \in Body /\ Ordered(sending) /\ awaited = None
           /\ \E p \in Slots : Deliver(p, sending)
           /\ SameRows /\ phase' = phase /\ acked' = acked /\ sending' = sending /\ sent' = sent
           /\ retries' = retries /\ crashes' = crashes /\ faults' = faults
  BY DEF Resend, TypeInv, TypeOK, Control, SameRows, tables, bounds

\* A POST b is handed to slot p: a new one or one that was not answered.
Posted(b, p) ==
    /\ Ordered(b) /\ awaited = None /\ phase = "streaming"
    /\ \/ sending = b /\ sent' = sent
       \/ /\ sending = None /\ b.from = acked /\ b.summary \in {0, sent + 1}
          /\ sent' = (IF b.summary = 0 THEN sent ELSE b.summary)
    /\ pc[p] = "idle" /\ pc'[p] = "lookup" /\ body'[p] = b
    /\ at'[p] = [f \in Files |-> b.from[f] + 1]
    /\ Others(p) /\ SlotsTyped
    /\ sending' = b /\ awaited' = p /\ SameRows /\ phase' = phase /\ acked' = acked
    /\ retries' = retries /\ crashes' = crashes /\ faults' = faults

LEMMA PostFacts ==
    ASSUME TypeInv, Transmit \/ Heartbeat \/ Resend
    PROVE  \E b \in Body, p \in Slots : Posted(b, p)
  <1>1. sending = None => awaited = None
    BY DEF TypeInv, Control
  <1>2. CASE Transmit
    <2>1. PICK b \in Body, p \in Slots :
              /\ phase = "streaming" /\ sending = None /\ Ordered(b) /\ b.from = acked
              /\ b.summary \in {0, sent + 1}
              /\ sending' = b /\ sent' = (IF b.summary = 0 THEN sent ELSE b.summary)
              /\ Deliver(p, b)
              /\ SameRows /\ phase' = phase /\ acked' = acked
              /\ retries' = retries /\ crashes' = crashes /\ faults' = faults
      BY <1>2, TransmitFacts
    <2> QED BY <1>1, <2>1, DeliverFacts DEF Posted
  <1>3. CASE Heartbeat
    <2>1. PICK b \in Body, p \in Slots :
              /\ phase = "streaming" /\ sending = None /\ Ordered(b) /\ b.from = acked
              /\ b.summary \in {0, sent + 1}
              /\ sending' = b /\ sent' = (IF b.summary = 0 THEN sent ELSE b.summary)
              /\ Deliver(p, b)
              /\ SameRows /\ phase' = phase /\ acked' = acked
              /\ retries' = retries /\ crashes' = crashes /\ faults' = faults
      BY <1>3, HeartbeatFacts
    <2> QED BY <1>1, <2>1, DeliverFacts DEF Posted
  <1>4. CASE Resend
    <2>1. phase = "streaming"
      BY <1>4 DEF Resend
    <2>2. sending \in Body /\ \E p \in Slots : Deliver(p, sending)
      BY <1>4, ResendFacts
    <2> QED BY <1>4, <2>1, <2>2, ResendFacts, DeliverFacts DEF Posted
  <1> QED BY <1>2, <1>3, <1>4

\* The client hears of a slot, or stops waiting for it; the slot is freed
\* unless it is at work.
LEMMA HearFacts ==
    ASSUME TypeInv, Timeout \/ Answered \/ GiveUp
    PROVE  /\ awaited \in Slots /\ awaited' = None
           /\ pc'[awaited] = (IF pc[awaited] \in Working THEN pc[awaited] ELSE "idle")
           /\ \A q \in Slots \ {awaited} : pc'[q] = pc[q]
           /\ pc' \in [Slots -> Steps]
           /\ body' = body /\ at' = at /\ SameRows /\ sent' = sent
           /\ crashes' = crashes /\ faults' = faults
           /\ retries \in Nat /\ retries' \in 0..MaxRetries
           /\ \/ Timeout /\ retries' = retries + 1 /\ phase' = phase /\ acked' = acked /\ sending' = sending
              \/ /\ Answered /\ pc[awaited] = "answered" /\ retries' = retries
                 /\ acked' = sending.to /\ sending' = None
                 /\ phase' = (IF sending.exit # None THEN "finished" ELSE phase)
              \/ /\ GiveUp /\ pc[awaited] = "refused" /\ retries' = retries
                 /\ acked' = acked /\ sending' = sending /\ phase' = "stopped"
  <1>1. awaited \in Slots /\ pc \in [Slots -> Steps] /\ retries \in 0..MaxRetries /\ MaxRetries \in Nat
    BY StreamAssumption DEF Timeout, Answered, GiveUp, TypeInv, TypeOK, StreamAssumption
  <1>2. pc' = [pc EXCEPT ![awaited] = IF pc[awaited] \in Working THEN pc[awaited] ELSE "idle"]
    BY <1>1 DEF Timeout, Answered, GiveUp, Working
  <1>3. (IF pc[awaited] \in Working THEN pc[awaited] ELSE "idle") \in Steps
    BY DEF Steps
  <1>4. /\ body' = body /\ at' = at /\ rows' = rows /\ count' = count /\ run' = run /\ sent' = sent
        /\ crashes' = crashes /\ faults' = faults /\ awaited' = None
    BY DEF Timeout, Answered, GiveUp, tables, bounds
  <1>5. /\ pc'[awaited] = (IF pc[awaited] \in Working THEN pc[awaited] ELSE "idle")
        /\ \A q \in Slots \ {awaited} : pc'[q] = pc[q]
        /\ pc' \in [Slots -> Steps]
    BY <1>1, <1>2, <1>3
  <1>6. SameRows
    BY <1>4 DEF SameRows
  <1>7. ASSUME Timeout
        PROVE  retries' = retries + 1 /\ phase' = phase /\ acked' = acked /\ sending' = sending
    BY <1>7 DEF Timeout
  <1>8. ASSUME Answered
        PROVE  /\ pc[awaited] = "answered" /\ retries' = retries /\ acked' = sending.to /\ sending' = None
               /\ phase' = (IF sending.exit # None THEN "finished" ELSE phase)
    BY <1>8 DEF Answered, bounds
  <1>9. ASSUME GiveUp
        PROVE  /\ pc[awaited] = "refused" /\ retries' = retries /\ acked' = acked /\ sending' = sending
               /\ phase' = "stopped"
    BY <1>9 DEF GiveUp, bounds
  <1>10. retries' \in 0..MaxRetries
    <2>1. CASE Timeout
      BY <1>1, <1>7, <2>1 DEF Timeout
    <2>2. CASE ~Timeout
      BY <1>1, <1>8, <1>9, <2>2
    <2> QED BY <2>1, <2>2
  <1>11. retries \in Nat
    BY <1>1
  <1> QED BY <1>1, <1>4, <1>5, <1>6, <1>7, <1>8, <1>9, <1>10, <1>11

LEMMA HandlerFacts ==
    ASSUME TypeInv, NEW p \in Slots, Handler(p)
    PROVE  /\ pc[p] \in Working /\ body[p] \in Body /\ Ordered(body[p])
           /\ SameClient /\ retries' = retries /\ crashes' = crashes
           /\ (faults' = faults \/ (faults < MaxFaults /\ faults' = faults + 1))
           /\ faults' = 0 => faults = 0 /\ ~Fails
  <1>1. pc[p] \in Working
    BY DEF Handler, Lookup, StoreLine, RowsStored, UpdateRun, Working
  <1>2. body[p] \in Body /\ Ordered(body[p])
    BY <1>1 DEF TypeInv, Control, Handles
  <1>3. SameClient /\ retries' = retries /\ crashes' = crashes
    BY DEF Handler, Lookup, StoreLine, RowsStored, UpdateRun, client, bounds, SameClient
  <1>4. faults' = faults \/ (faults < MaxFaults /\ faults' = faults + 1)
    BY DEF Handler, Lookup, StoreLine, RowsStored, UpdateRun, bounds, Succeeds, Fails
  <1>5. faults \in Nat
    BY StreamAssumption DEF TypeInv, TypeOK, StreamAssumption
  <1> QED BY <1>1, <1>2, <1>3, <1>4, <1>5 DEF Fails

LEMMA LookupFacts ==
    ASSUME TypeInv, NEW p \in Slots, Lookup(p)
    PROVE  /\ pc[p] = "lookup" /\ SameRows /\ Others(p) /\ SlotsTyped
           /\ \/ pc'[p] = "rows" /\ body'[p] = body[p] /\ at'[p] = at[p]
              \/ /\ pc'[p] \in {"refused", "idle"} /\ (awaited = p <=> pc'[p] = "refused")
                 /\ pc'[p] = "refused" => Fails \/ body[p].chunks
                 /\ body'[p] = None
  <1>1. /\ pc \in [Slots -> Steps] /\ body \in [Slots -> Body \cup {None}]
        /\ at \in [Slots -> [Files -> Nat]] /\ faults \in Nat
    BY StreamAssumption DEF TypeInv, TypeOK, StreamAssumption
  <1>2. pc[p] = "lookup" /\ SameRows
    BY DEF Lookup, tables, SameRows
  <1>3. CASE Reply(p, "refused") /\ (body[p].chunks \/ BrokenOff(p) \/ Fails)
    BY <1>2, <1>3, ReplyFacts DEF BrokenOff
  <1>4. CASE pc' = [pc EXCEPT ![p] = "rows"] /\ UNCHANGED <<body, at>>
    <2>1. "rows" \in Steps
      BY DEF Steps, Working
    <2> QED BY <1>1, <1>2, <1>4, <2>1 DEF Others, SlotsTyped
  <1> QED BY <1>3, <1>4 DEF Lookup

LEMMA RowsStoredFacts ==
    ASSUME TypeInv, NEW p \in Slots, RowsStored(p)
    PROVE  /\ pc[p] = "rows" /\ Pending(p) = {} /\ pc'[p] = "update" /\ body' = body
           /\ SameRows /\ Others(p) /\ SlotsTyped /\ faults' = faults
  <1>1. /\ pc \in [Slots -> Steps] /\ body \in [Slots -> Body \cup {None}]
        /\ at \in [Slots -> [Files -> Nat]]
    BY DEF TypeInv, TypeOK
  <1>2. pc' = [pc EXCEPT ![p] = "update"] /\ body' = body /\ at' = [at EXCEPT ![p] = Start]
        /\ rows' = rows /\ count' = count /\ run' = run /\ faults' = faults /\ pc[p] = "rows" /\ Pending(p) = {}
    BY DEF RowsStored, tables, bounds
  <1>3. "update" \in Steps
    BY DEF Steps, Working
  <1> QED BY <1>1, <1>2, <1>3, StartType DEF Others, SlotsTyped, SameRows

LEMMA StoreLineFacts ==
    ASSUME TypeInv, NEW p \in Slots, StoreLine(p)
    PROVE  /\ pc[p] = "rows" /\ pc' = pc /\ body' = body /\ count' = count /\ run' = run
           /\ Others(p) /\ SlotsTyped /\ rows' \in [Files -> Seq(Nat)]
           /\ \E f \in Files :
                 /\ at[p][f] <= body[p].to[f] /\ body[p].from[f] < at[p][f]
                 /\ at'[p][f] = at[p][f] + 1 /\ \A g \in Files \ {f} : at'[p][g] = at[p][g]
                 /\ \A g \in Files \ {f} : rows'[g] = rows[g]
                 /\ \/ rows'[f] = Append(rows[f], at[p][f])
                    \/ rows'[f] = rows[f] /\ (Fails \/ ~Parses(f, at[p][f]))
  <1>1. /\ pc \in [Slots -> Steps] /\ body \in [Slots -> Body \cup {None}]
        /\ at \in [Slots -> [Files -> Nat]] /\ rows \in [Files -> Seq(Nat)]
    BY DEF TypeInv, TypeOK
  <1>2. PICK f \in Current(p) :
          /\ \/ rows' = [rows EXCEPT ![f] = Append(@, at[p][f])]
             \/ rows' = rows /\ (Fails \/ ~Parses(f, at[p][f]))
          /\ at' = [at EXCEPT ![p][f] = @ + 1]
    BY DEF StoreLine
  <1>3. /\ pc[p] = "rows" /\ pc' = pc /\ body' = body /\ count' = count /\ run' = run
    BY DEF StoreLine
  <1>4. body[p] \in Body /\ \A g \in Files : body[p].from[g] < at[p][g]
    BY <1>3 DEF TypeInv, Control, Handles, Working
  <1>5. f \in Files /\ at[p][f] <= body[p].to[f]
    BY <1>2 DEF Current, Begun, Pending
  <1>6. at[p] \in [Files -> Nat] /\ at[p][f] \in Nat /\ rows[f] \in Seq(Nat)
    BY <1>1, <1>5
  <1>7. at' = [at EXCEPT ![p] = [at[p] EXCEPT ![f] = at[p][f] + 1]]
    BY <1>2
  <1>8. at'[p] = [at[p] EXCEPT ![f] = at[p][f] + 1]
    BY <1>1, <1>7
  <1>9. at'[p][f] = at[p][f] + 1 /\ \A g \in Files \ {f} : at'[p][g] = at[p][g]
    BY <1>5, <1>6, <1>8
  <1>10. [at[p] EXCEPT ![f] = at[p][f] + 1] \in [Files -> Nat]
    BY <1>5, <1>6
  <1>11. at' \in [Slots -> [Files -> Nat]] /\ \A q \in Slots \ {p} : at'[q] = at[q]
    BY <1>1, <1>7, <1>10
  <1>12. Append(rows[f], at[p][f]) \in Seq(Nat)
    BY <1>6
  <1>13. rows' \in [Files -> Seq(Nat)]
    BY <1>1, <1>2, <1>5, <1>12
  <1>14. /\ \A g \in Files \ {f} : rows'[g] = rows[g]
         /\ \/ rows'[f] = Append(rows[f], at[p][f])
            \/ rows'[f] = rows[f] /\ (Fails \/ ~Parses(f, at[p][f]))
    BY <1>1, <1>2, <1>5
  <1>15. Others(p) /\ SlotsTyped
    BY <1>1, <1>3, <1>11 DEF Others, SlotsTyped
  <1> QED BY <1>3, <1>4, <1>5, <1>9, <1>13, <1>14, <1>15

LEMMA UpdateFacts ==
    ASSUME TypeInv, NEW p \in Slots, UpdateRun(p)
    PROVE  /\ pc[p] = "update" /\ rows' = rows /\ Others(p) /\ SlotsTyped
           /\ pc'[p] = (IF awaited = p THEN "answered" ELSE "idle") /\ body'[p] = None
           /\ \/ /\ count' = Counted(p)
                 /\ run' = [Ended(p) EXCEPT !.summary =
                               IF body[p].summary = 0 THEN @ ELSE body[p].summary]
              \/ Fails /\ count' = count /\ run' = run
  BY ReplyFacts DEF UpdateRun

LEMMA CrashFacts ==
    ASSUME TypeInv, Crash
    PROVE  /\ \A p \in Slots : pc'[p] = "idle" /\ body'[p] = None /\ at'[p] = Start
           /\ SlotsTyped /\ awaited' = None
           /\ SameRows /\ phase' = phase /\ acked' = acked /\ sending' = sending /\ sent' = sent
           /\ retries' = retries /\ faults' = faults /\ crashes' \in 0..MaxCrashes
  <1>1. "idle" \in Steps
    BY DEF Steps
  <1>2. crashes' \in 0..MaxCrashes
    BY StreamAssumption DEF Crash, TypeInv, TypeOK, StreamAssumption
  <1>3. /\ pc' = [p \in Slots |-> "idle"] /\ body' = [p \in Slots |-> None]
        /\ at' = [p \in Slots |-> Start]
    BY DEF Crash
  <1>4. SlotsTyped /\ \A p \in Slots : pc'[p] = "idle" /\ body'[p] = None /\ at'[p] = Start
    BY <1>1, <1>3, StartType DEF SlotsTyped
  <1> QED BY <1>2, <1>4 DEF Crash, tables, SameRows

(***************************************************************************)
(* The invariants.                                                         *)
(***************************************************************************)
\* Among the rows s of f are its first n lines, but for those not parsing.
Kept(s, f, n) == \A m \in 1..n : Parses(f, m) => \E i \in 1..Len(s) : s[i] = m

\* A POST starts where the stored lines end, a handler is past the lines it
\* has stored, and one that has answered has stored them all.
Behind(p) ==
    \A f \in Files :
        /\ pc[p] = "lookup" => Kept(rows[f], f, body[p].from[f])
        /\ pc[p] = "rows" => Kept(rows[f], f, at[p][f] - 1)
        /\ pc[p] = "update" => Kept(rows[f], f, body[p].to[f])
        /\ pc[p] = "answered" => Kept(rows[f], f, sending.to[f])

\* A row comes after every line before its own.
Gapless(s, f) ==
    \A i \in 1..Len(s) : Kept(SubSeq(s, 1, i - 1), f, s[i] - 1)

LinesInv ==
    faults = 0 =>
        /\ \A f \in Files : Gapless(rows[f], f) /\ Kept(rows[f], f, acked[f])
        /\ sending # None => \A f \in Files : Kept(rows[f], f, sending.from[f])
        /\ \A p \in Slots : Behind(p)

\* The rows p has stored and not yet counted.
Owed(p, f) ==
    IF pc[p] = "rows" THEN at[p][f] - (body[p].from[f] + 1)
    ELSE IF pc[p] = "update" THEN body[p].to[f] - body[p].from[f]
    ELSE 0

\* Every row belongs to the handler that has not counted it yet, or to none.
RowsOf(owner, f, x) == {i \in 1..Len(rows[f]) : owner[i] = x}

Owners(owner, f) ==
    /\ count[f] <= Cardinality(RowsOf(owner, f, None))
    /\ \A p \in Slots : Owed(p, f) <= Cardinality(RowsOf(owner, f, p))

CountInv ==
    faults = 0 =>
        \A f \in Files \ Json : \E owner \in [1..Len(rows[f]) -> Slots \cup {None}] : Owners(owner, f)

\* As long as no POST timed out, one handler works at a time, and the summary
\* is the last one sent unless the POST under way carries it.
SummaryInv ==
    (faults = 0 /\ retries = 0) =>
        /\ \A p \in Slots : pc[p] # "idle" => awaited = p
        /\ sending = None => run.summary = sent
        /\ sending # None => /\ sending.summary \in {0, sent}
                             /\ sending.summary = 0 => run.summary = sent
        /\ \A p \in Slots : pc[p] = "answered" => run.summary = sent

\* What a refused POST is refused for, also once the client has given up.
Refusable == sending.chunks \/ faults > 0

RefusedInv ==
    /\ \A p \in Slots : pc[p] = "refused" => Refusable
    /\ phase = "stopped" => Refusable

EndInv ==
    /\ run.state = "crashed" <=> run.exit = "nonzero"
    /\ faults = 0 => /\ phase = "finished" => run.state # "running"
                     /\ \A p \in Slots : pc[p] = "answered" /\ sending.exit # None => run.state # "running"

RowInv == RefusedInv /\ SummaryInv /\ EndInv

IInv == TypeInv /\ LinesInv /\ CountInv /\ RowInv

(***************************************************************************)
(* The types and who waits for whom.                                       *)
(***************************************************************************)
LEMMA RunTyped ==
    ASSUME TypeInv, NEW p \in Slots, UpdateRun(p)
    PROVE  /\ count' \in [Files -> Nat]
           /\ run' \in [state: {"running", "finished", "crashed"},
                        exit: {"zero", "nonzero", None}, summary: Nat]
           /\ ~Fails => run'.summary = (IF body[p].summary = 0 THEN run.summary ELSE body[p].summary)
           /\ ~Fails /\ body[p].exit # None => run'.state # "running"
           /\ run'.state = "running" => run.state = "running"
           /\ (run.state = "crashed" <=> run.exit = "nonzero") => (run'.state = "crashed" <=> run'.exit = "nonzero")
           /\ ~Fails => count' = Counted(p)
  <1>1. /\ count \in [Files -> Nat]
        /\ run \in [state: {"running", "finished", "crashed"},
                     exit: {"zero", "nonzero", None}, summary: Nat]
    BY DEF TypeInv, TypeOK
  <1>2. Handler(p)
    BY DEF Handler
  <1>3. body[p] \in Body /\ Ordered(body[p])
    BY <1>2, HandlerFacts
  <1>4. Counted(p) \in [Files -> Nat]
    <2>1. SUFFICES ASSUME NEW f \in Files PROVE count[f] + (body[p].to[f] - body[p].from[f]) \in Nat
      BY DEF Counted
    <2>2. count[f] \in Nat /\ body[p].to[f] \in Nat /\ body[p].from[f] \in Nat /\ body[p].from[f] <= body[p].to[f]
      BY <1>1, <1>3, BodyFields DEF Ordered
    <2> QED BY <2>2
  <1>5. body[p].exit \in {"zero", "nonzero", "absent", None} /\ body[p].summary \in Nat
    BY <1>3, BodyFields DEF Exits
  <1>6. /\ Ended(p) \in [state: {"running", "finished", "crashed"},
                          exit: {"zero", "nonzero", None}, summary: Nat]
        /\ Ended(p).summary = run.summary
        /\ body[p].exit = None => Ended(p) = run
        /\ body[p].exit # None => /\ Ended(p).state = StateOf(body[p].exit)
                                  /\ Ended(p).exit = IF body[p].exit = "absent" THEN None ELSE body[p].exit
    BY <1>1, <1>5 DEF Ended, StateOf
  <1>7. "nonzero" # None /\ StateOf(body[p].exit) # "running"
    BY NoneIsNoBody DEF Exits, StateOf
  <1>8. Ended(p).state = "running" => run.state = "running"
    BY <1>6, <1>7
  <1>9. (run.state = "crashed" <=> run.exit = "nonzero") => (Ended(p).state = "crashed" <=> Ended(p).exit = "nonzero")
    BY <1>5, <1>6, <1>7 DEF StateOf
  <1>10. \/ /\ count' = Counted(p)
            /\ run' = [Ended(p) EXCEPT !.summary =
                          IF body[p].summary = 0 THEN @ ELSE body[p].summary]
         \/ Fails /\ count' = count /\ run' = run
    BY UpdateFacts
  <1>11. CASE /\ count' = Counted(p)
              /\ run' = [Ended(p) EXCEPT !.summary =
                            IF body[p].summary = 0 THEN @ ELSE body[p].summary]
    <2>1. /\ run' \in [state: {"running", "finished", "crashed"},
                       exit: {"zero", "nonzero", None}, summary: Nat]
          /\ run'.state = Ended(p).state /\ run'.exit = Ended(p).exit
          /\ run'.summary = (IF body[p].summary = 0 THEN run.summary ELSE body[p].summary)
      BY <1>5, <1>6, <1>11
    <2> QED BY <1>4, <1>6, <1>7, <1>8, <1>9, <1>11, <2>1
  <1>12. CASE Fails /\ count' = count /\ run' = run
    BY <1>1, <1>12
  <1> QED BY <1>10, <1>11, <1>12

LEMMA TypeInit == Init => TypeInv
  <1> SUFFICES ASSUME Init PROVE TypeInv
    OBVIOUS
  <1>1. MaxRetries \in Nat /\ MaxCrashes \in Nat /\ MaxFaults \in Nat
    BY StreamAssumption DEF StreamAssumption
  <1>2. TypeOK
    BY <1>1, StartType DEF Init, TypeOK, Steps
  <1>3. Control
    BY DEF Init, Control, Handles, Working
  <1> QED BY <1>2, <1>3 DEF TypeInv

\* TypeOK, but for what the slots hold.
Fixed ==
    /\ rows \in [Files -> Seq(Nat)] /\ count \in [Files -> Nat]
    /\ run \in [state: {"running", "finished", "crashed"},
                exit: {"zero", "nonzero", None}, summary: Nat]
    /\ phase \in {"streaming", "finished", "stopped"}
    /\ acked \in [Files -> Nat] /\ sending \in Body \cup {None}
    /\ awaited \in Slots \cup {None} /\ sent \in Nat
    /\ retries \in 0..MaxRetries /\ crashes \in 0..MaxCrashes /\ faults \in 0..MaxFaults

LEMMA TypeParts == (Fixed' /\ SlotsTyped => TypeOK') /\ (TypeInv => Fixed)
  BY DEF Fixed, SlotsTyped, TypeInv, TypeOK

LEMMA TypePost ==
    ASSUME TypeInv, Transmit \/ Heartbeat \/ Resend
    PROVE  TypeInv'
  <1>1. PICK b \in Body, p \in Slots : Posted(b, p)
    BY PostFacts
  <1>2. Fixed
    BY TypeParts
  <1>3. sent' \in Nat
    BY <1>1, <1>2 DEF Posted, Fixed
  <1>4. Fixed'
    BY <1>1, <1>2, <1>3 DEF Posted, Fixed, SameRows
  <1>5. SlotsTyped
    BY <1>1 DEF Posted
  <1>6. sending' # None /\ Ordered(b) /\ sending' = b /\ phase' = "streaming"
    BY <1>1, BodyFields DEF Posted
  <1>7. Handles(p)'
    BY <1>1 DEF Posted, Handles, Working
  <1>8. ASSUME NEW q \in Slots, q # p PROVE Handles(q)'
    <2>1. pc'[q] = pc[q] /\ body'[q] = body[q] /\ at'[q] = at[q] /\ awaited' = p /\ awaited = None
      BY <1>1, <1>8 DEF Posted, Others
    <2>2. Handles(q)
      BY DEF TypeInv, Control
    <2>3. awaited' # q /\ q # None
      BY <2>1, <1>8, NoneIsNoBody
    <2>4. pc[q] \notin {"answered", "refused"}
      BY <2>1, <2>2, <2>3 DEF Handles
    <2> QED BY <2>1, <2>2, <2>3, <2>4 DEF Handles, Ordered
  <1>9. Control'
    BY <1>6, <1>7, <1>8 DEF Control, Ordered
  <1> QED BY <1>4, <1>5, <1>9, TypeParts DEF TypeInv

LEMMA TypeHear ==
    ASSUME TypeInv, Timeout \/ Answered \/ GiveUp
    PROVE  TypeInv'
  <1>1. Fixed /\ Control
    BY TypeParts DEF TypeInv
  <1>2. /\ awaited \in Slots /\ awaited' = None /\ awaited # None
        /\ pc'[awaited] = (IF pc[awaited] \in Working THEN pc[awaited] ELSE "idle")
        /\ \A q \in Slots \ {awaited} : pc'[q] = pc[q]
        /\ pc' \in [Slots -> Steps]
        /\ body' = body /\ at' = at /\ rows' = rows /\ count' = count /\ run' = run /\ sent' = sent
        /\ crashes' = crashes /\ faults' = faults /\ retries' \in 0..MaxRetries
    BY HearFacts, NoneIsNoBody DEF SameRows
  <1>3. sending \in Body /\ Ordered(sending)
    BY <1>1, <1>2 DEF Fixed, Control
  <1>4. /\ acked' \in [Files -> Nat] /\ phase' \in {"streaming", "finished", "stopped"}
        /\ sending' \in {sending, None}
    BY <1>1, <1>3, HearFacts, BodyFields DEF Fixed
  <1>5. Fixed'
    BY <1>1, <1>2, <1>4 DEF Fixed
  <1>6. SlotsTyped
    BY <1>2 DEF SlotsTyped, TypeInv, TypeOK
  <1>7. ASSUME NEW q \in Slots PROVE Handles(q)'
    <2>1. Handles(q)
      BY <1>1 DEF Control
    <2>2. q # awaited' /\ body'[q] = body[q] /\ at'[q] = at[q]
      BY <1>2, NoneIsNoBody
    <2>3. pc'[q] \notin {"answered", "refused"}
      <3>1. CASE q = awaited
        BY <1>2, <3>1 DEF Working
      <3>2. CASE q # awaited
        BY <1>2, <2>1, <3>2 DEF Handles
      <3> QED BY <3>1, <3>2
    <2>4. pc'[q] = pc[q] \/ pc'[q] = "idle"
      BY <1>2
    <2> QED BY <2>1, <2>2, <2>3, <2>4 DEF Handles, Ordered, Working
  <1>8. Control'
    BY <1>2, <1>3, <1>4, <1>7 DEF Control, Ordered
  <1> QED BY <1>5, <1>6, <1>8, TypeParts DEF TypeInv

LEMMA TypeCrash == ASSUME TypeInv, Crash PROVE TypeInv'
  <1>1. Fixed /\ Control
    BY TypeParts DEF TypeInv
  <1>2. Fixed'
    BY <1>1, CrashFacts DEF Fixed, SameRows
  <1>3. Control'
    BY <1>1, CrashFacts DEF Control, Handles, Ordered, Working
  <1> QED BY <1>2, <1>3, CrashFacts, TypeParts DEF TypeInv

\* A step of handler p leaves the types of everything but its slot.
LEMMA TypeHandler == ASSUME TypeInv, NEW p \in Slots, Handler(p) PROVE TypeInv'
  <1>1. Fixed /\ Control /\ Handles(p)
    BY TypeParts DEF TypeInv, Control
  <1>2. /\ pc[p] \in Working /\ body[p] \in Body /\ Ordered(body[p])
        /\ phase' = phase /\ acked' = acked /\ sending' = sending /\ awaited' = awaited /\ sent' = sent
        /\ retries' = retries /\ crashes' = crashes
    BY HandlerFacts DEF SameClient
  <1>3. faults' \in 0..MaxFaults
    <2>1. MaxFaults \in Nat /\ faults \in 0..MaxFaults
      BY <1>1, StreamAssumption DEF Fixed, StreamAssumption
    <2> QED BY <2>1, HandlerFacts
  <1>4. /\ rows' \in [Files -> Seq(Nat)] /\ count' \in [Files -> Nat]
        /\ run' \in [state: {"running", "finished", "crashed"},
                     exit: {"zero", "nonzero", None}, summary: Nat]
        /\ Others(p) /\ SlotsTyped
    <2>1. CASE Lookup(p)
      BY <1>1, <2>1, LookupFacts DEF Fixed, SameRows
    <2>2. CASE StoreLine(p)
      BY <1>1, <2>2, StoreLineFacts DEF Fixed
    <2>3. CASE RowsStored(p)
      BY <1>1, <2>3, RowsStoredFacts DEF Fixed, SameRows
    <2>4. CASE UpdateRun(p)
      BY <1>1, <2>4, UpdateFacts, RunTyped DEF Fixed
    <2> QED BY <2>1, <2>2, <2>3, <2>4 DEF Handler
  <1>5. Fixed'
    BY <1>1, <1>2, <1>3, <1>4 DEF Fixed
  <1>6. Handles(p)'
    <2>1. body'[p] = body[p] \/ pc'[p] \notin Working
      BY LookupFacts, StoreLineFacts, RowsStoredFacts, UpdateFacts DEF Handler, Working
    <2>2. pc'[p] \in Working => body'[p] \in Body /\ Ordered(body'[p])
      BY <1>2, <2>1
    <2>3. pc'[p] \in Working /\ awaited' = p => body'[p] = sending'
      BY <1>1, <1>2, <2>1 DEF Handles
    <2>4. pc'[p] \in {"answered", "refused"} => awaited' = p
      BY <1>2, LookupFacts, StoreLineFacts, RowsStoredFacts, UpdateFacts DEF Handler, Working
    <2>5. pc'[p] # "lookup"
      BY LookupFacts, StoreLineFacts, RowsStoredFacts, UpdateFacts DEF Handler, Working
    <2>6. ASSUME pc'[p] = "rows", NEW f \in Files
          PROVE  body'[p].from[f] < at'[p][f] /\ at'[p][f] <= body'[p].to[f] + 1
      <3>1. /\ body[p].from[f] \in Nat /\ body[p].to[f] \in Nat /\ body[p].from[f] <= body[p].to[f]
            /\ at[p][f] \in Nat
        BY <1>2, BodyFields DEF Ordered, TypeInv, TypeOK
      <3>2. CASE Lookup(p)
        <4>1. pc[p] = "lookup" /\ body'[p] = body[p] /\ at'[p] = at[p]
          BY <2>6, <3>2, LookupFacts
        <4>2. at[p][f] = body[p].from[f] + 1
          BY <1>1, <4>1 DEF Handles
        <4> QED BY <3>1, <4>1, <4>2
      <3>3. CASE StoreLine(p)
        <4>1. pc[p] = "rows" /\ body'[p] = body[p]
          BY <3>3, StoreLineFacts
        <4>2. body[p].from[f] < at[p][f] /\ at[p][f] <= body[p].to[f] + 1
          BY <1>1, <4>1 DEF Handles
        <4>3. at'[p][f] = at[p][f] \/ (at[p][f] <= body[p].to[f] /\ at'[p][f] = at[p][f] + 1)
          BY <3>3, StoreLineFacts
        <4> QED BY <3>1, <4>1, <4>2, <4>3
      <3>4. CASE RowsStored(p) \/ UpdateRun(p)
        BY <2>6, <3>4, RowsStoredFacts, UpdateFacts
      <3> QED BY <3>2, <3>3, <3>4 DEF Handler
    <2> QED BY <2>2, <2>3, <2>4, <2>5, <2>6 DEF Handles, Ordered
  <1>7. ASSUME NEW q \in Slots, q # p PROVE Handles(q)'
    <2>1. pc'[q] = pc[q] /\ body'[q] = body[q] /\ at'[q] = at[q]
      BY <1>4, <1>7 DEF Others
    <2>2. Handles(q)
      BY <1>1 DEF Control
    <2> QED BY <1>2, <2>1, <2>2 DEF Handles, Ordered
  <1>8. Control'
    BY <1>1, <1>2, <1>6, <1>7 DEF Control, Ordered
  <1> QED BY <1>4, <1>5, <1>8, TypeParts DEF TypeInv

LEMMA TypeNext == ASSUME TypeInv, [Next]_vars PROVE TypeInv'
  <1>1. CASE UNCHANGED vars
    BY <1>1 DEF vars, tables, client, bounds, TypeInv, TypeOK, Control, Handles, Ordered
  <1>2. CASE Next
    BY <1>2, TypePost, TypeHear, TypeCrash, TypeHandler DEF Next
  <1> QED BY <1>1, <1>2

(***************************************************************************)
(* The stored lines.                                                       *)
(***************************************************************************)
LEMMA KeptAppend ==
    ASSUME NEW f \in Files, NEW s \in Seq(Nat), NEW x \in Nat, NEW n \in Nat
    PROVE  /\ Kept(s, f, n) => Kept(Append(s, x), f, n)
           /\ Kept(s, f, n) => Kept(Append(s, n + 1), f, n + 1)
           /\ Kept(s, f, n) /\ ~Parses(f, n + 1) => Kept(s, f, n + 1)
  <1>1. ASSUME NEW y \in Nat
        PROVE  /\ Len(Append(s, y)) = Len(s) + 1 /\ Append(s, y)[Len(s) + 1] = y /\ Len(s) \in Nat
               /\ \A i \in 1..Len(s) : Append(s, y)[i] = s[i]
    OBVIOUS
  <1>2. Kept(s, f, n) => Kept(Append(s, x), f, n)
    BY <1>1 DEF Kept
  <1>3. ASSUME Kept(s, f, n) PROVE Kept(Append(s, n + 1), f, n + 1)
    <2> SUFFICES ASSUME NEW m \in 1..(n + 1), Parses(f, m)
                 PROVE  \E i \in 1..Len(Append(s, n + 1)) : Append(s, n + 1)[i] = m
      BY DEF Kept
    <2>1. CASE m = n + 1
      BY <1>1, <2>1
    <2>2. CASE m # n + 1
      <3>1. m \in 1..n
        BY <2>2
      <3>2. PICK i \in 1..Len(s) : s[i] = m
        BY <1>3, <3>1 DEF Kept
      <3> QED BY <1>1, <3>2
    <2> QED BY <2>1, <2>2
  <1>4. ASSUME Kept(s, f, n), ~Parses(f, n + 1) PROVE Kept(s, f, n + 1)
    <2> SUFFICES ASSUME NEW m \in 1..(n + 1), Parses(f, m) PROVE \E i \in 1..Len(s) : s[i] = m
      BY DEF Kept
    <2>1. m # n + 1
      BY <1>4
    <2>2. m \in 1..n
      BY <2>1
    <2> QED BY <1>4, <2>2 DEF Kept
  <1> QED BY <1>2, <1>3, <1>4

LEMMA GaplessAppend ==
    ASSUME NEW f \in Files, NEW s \in Seq(Nat), NEW x \in Nat, Gapless(s, f), Kept(s, f, x - 1)
    PROVE  Gapless(Append(s, x), f)
  <1> SUFFICES ASSUME NEW i \in 1..Len(Append(s, x))
               PROVE  Kept(SubSeq(Append(s, x), 1, i - 1), f, Append(s, x)[i] - 1)
    BY DEF Gapless
  <1>1. /\ Len(Append(s, x)) = Len(s) + 1 /\ Append(s, x)[Len(s) + 1] = x /\ Len(s) \in Nat
        /\ \A j \in 1..Len(s) : Append(s, x)[j] = s[j]
    OBVIOUS
  <1>2. SubSeq(Append(s, x), 1, i - 1) = SubSeq(s, 1, i - 1)
    BY <1>1
  <1>3. CASE i = Len(s) + 1
    <2>1. SubSeq(s, 1, i - 1) = s
      BY <1>1, <1>3
    <2> QED BY <1>1, <1>2, <1>3, <2>1
  <1>4. CASE i # Len(s) + 1
    <2>1. i \in 1..Len(s) /\ Append(s, x)[i] = s[i]
      BY <1>1, <1>4
    <2>2. Kept(SubSeq(s, 1, i - 1), f, s[i] - 1)
      BY <2>1 DEF Gapless
    <2> QED BY <1>2, <2>1, <2>2
  <1> QED BY <1>3, <1>4

\* What the property says of a prefix, without cutting the sequence.
LEMMA GaplessMeans ==
    ASSUME NEW f \in Files, NEW s \in Seq(Nat), Gapless(s, f)
    PROVE  \A i \in 1..Len(s) : \A n \in 1..(s[i] - 1) :
              Parses(f, n) => \E j \in 1..(i - 1) : s[j] = n
  <1> SUFFICES ASSUME NEW i \in 1..Len(s), NEW n \in 1..(s[i] - 1), Parses(f, n)
               PROVE  \E j \in 1..(i - 1) : s[j] = n
    OBVIOUS
  <1> DEFINE t == SubSeq(s, 1, i - 1)
  <1>1. /\ Len(t) = i - 1 /\ \A j \in 1..(i - 1) : t[j] = s[j]
    OBVIOUS
  <1>2. Kept(t, f, s[i] - 1)
    BY DEF Gapless
  <1> HIDE DEF t
  <1> QED BY <1>1, <1>2 DEF Kept

LEMMA LinesInit == Init => LinesInv
  BY StreamAssumption DEF Init, LinesInv, Gapless, Kept, Behind

\* Nobody waits for the answer of a slot but the client, for one at a time.
LEMMA AnsweredAwaited ==
    ASSUME TypeInv, NEW q \in Slots, pc[q] = "answered"
    PROVE  awaited = q /\ awaited # None /\ sending \in Body
  <1>1. awaited = q
    BY DEF TypeInv, Control, Handles
  <1>2. awaited # None
    BY <1>1, NoneIsNoBody
  <1>3. sending \in Body
    BY <1>2 DEF TypeInv, TypeOK, Control
  <1> QED BY <1>1, <1>2, <1>3

LEMMA LinesPost ==
    ASSUME TypeInv, LinesInv, Transmit \/ Heartbeat \/ Resend
    PROVE  LinesInv'
  <1>1. PICK b \in Body, p \in Slots : Posted(b, p)
    BY PostFacts
  <1> SUFFICES ASSUME faults' = 0
               PROVE  /\ \A f \in Files : Gapless(rows'[f], f) /\ Kept(rows'[f], f, acked'[f])
                      /\ \A f \in Files : Kept(rows'[f], f, sending'.from[f])
                      /\ \A q \in Slots : Behind(q)'
    BY DEF LinesInv
  <1>2. /\ rows' = rows /\ acked' = acked /\ sending' = b /\ faults = 0
        /\ pc'[p] = "lookup" /\ body'[p] = b /\ awaited = None
    BY <1>1 DEF Posted, SameRows
  <1>3. \A f \in Files : Gapless(rows[f], f) /\ Kept(rows[f], f, acked[f])
    BY <1>2 DEF LinesInv
  <1>4. ASSUME NEW f \in Files PROVE Kept(rows[f], f, b.from[f])
    <2>1. CASE sending = b
      BY <1>2, <2>1, BodyFields DEF LinesInv
    <2>2. CASE b.from = acked
      BY <1>3, <2>2
    <2> QED BY <1>1, <2>1, <2>2 DEF Posted
  <1>5. ASSUME NEW q \in Slots PROVE Behind(q)'
    <2>1. CASE q = p
      BY <1>2, <1>4, <2>1 DEF Behind
    <2>2. CASE q # p
      <3>1. pc'[q] = pc[q] /\ body'[q] = body[q] /\ at'[q] = at[q]
        BY <1>1, <2>2 DEF Posted, Others
      <3>2. pc[q] # "answered"
        BY <1>2, AnsweredAwaited
      <3>3. Behind(q)
        BY <1>2 DEF LinesInv
      <3> QED BY <1>2, <3>1, <3>2, <3>3 DEF Behind
    <2> QED BY <2>1, <2>2
  <1> QED BY <1>2, <1>3, <1>4, <1>5

LEMMA LinesHear ==
    ASSUME TypeInv, LinesInv, Timeout \/ Answered \/ GiveUp
    PROVE  LinesInv'
  <1> SUFFICES ASSUME faults' = 0
               PROVE  /\ \A f \in Files : Gapless(rows'[f], f) /\ Kept(rows'[f], f, acked'[f])
                      /\ sending' # None => \A f \in Files : Kept(rows'[f], f, sending'.from[f])
                      /\ \A q \in Slots : Behind(q)'
    BY DEF LinesInv
  <1>1. /\ awaited \in Slots /\ awaited' = None /\ rows' = rows /\ faults = 0
        /\ \A q \in Slots : body'[q] = body[q] /\ at'[q] = at[q]
        /\ \A q \in Slots : pc'[q] = pc[q] \/ pc'[q] = "idle"
        /\ sending' \in {sending, None}
    BY HearFacts DEF SameRows
  <1>2. ASSUME NEW f \in Files PROVE Kept(rows[f], f, acked'[f])
    <2>1. CASE acked' = acked
      BY <1>1, <2>1 DEF LinesInv
    <2>2. CASE acked' = sending.to /\ pc[awaited] = "answered"
      <3>1. Behind(awaited)
        BY <1>1 DEF LinesInv
      <3> QED BY <2>2, <3>1 DEF Behind
    <2> QED BY <2>1, <2>2, HearFacts
  <1>3. ASSUME NEW q \in Slots PROVE Behind(q)'
    <2>1. TypeInv'
      BY TypeHear
    <2>2. pc'[q] # "answered"
      BY <1>1, <2>1, NoneIsNoBody DEF TypeInv, Control, Handles
    <2>3. Behind(q)
      BY <1>1 DEF LinesInv
    <2> QED BY <1>1, <2>2, <2>3 DEF Behind
  <1> QED BY <1>1, <1>2, <1>3 DEF LinesInv

LEMMA LinesCrash == ASSUME TypeInv, LinesInv, Crash PROVE LinesInv'
  BY CrashFacts DEF LinesInv, Behind, SameRows

\* The rows a handler's step leaves, of any file, keep what they kept.
LEMMA RowsGrow ==
    ASSUME TypeInv, NEW p \in Slots, Handler(p), NEW f \in Files
    PROVE  /\ rows[f] \in Seq(Nat)
           /\ rows'[f] = rows[f] \/ \E x \in Nat : rows'[f] = Append(rows[f], x)
           /\ \A n \in Nat : Kept(rows[f], f, n) => Kept(rows'[f], f, n)
  <1>1. rows[f] \in Seq(Nat) /\ at[p] \in [Files -> Nat] /\ \A g \in Files : at[p][g] \in Nat
    BY DEF TypeInv, TypeOK
  <1>2. rows'[f] = rows[f] \/ \E x \in Nat : rows'[f] = Append(rows[f], x)
    <2>1. CASE StoreLine(p)
      <3>1. PICK g \in Files :
              /\ \A h \in Files \ {g} : rows'[h] = rows[h]
              /\ rows'[g] = Append(rows[g], at[p][g]) \/ rows'[g] = rows[g]
        BY <2>1, StoreLineFacts
      <3>2. at[p][g] \in Nat
        BY <1>1
      <3> QED BY <3>1, <3>2
    <2>2. CASE ~StoreLine(p)
      BY <2>2, LookupFacts, RowsStoredFacts, UpdateFacts DEF Handler, SameRows
    <2> QED BY <2>1, <2>2
  <1>3. ASSUME NEW n \in Nat, Kept(rows[f], f, n) PROVE Kept(rows'[f], f, n)
    BY <1>1, <1>2, <1>3, KeptAppend
  <1> QED BY <1>1, <1>2, <1>3

LEMMA LinesHandler ==
    ASSUME TypeInv, LinesInv, NEW p \in Slots, Handler(p)
    PROVE  LinesInv'
  <1> SUFFICES ASSUME faults' = 0
               PROVE  /\ \A f \in Files : Gapless(rows'[f], f) /\ Kept(rows'[f], f, acked'[f])
                      /\ sending' # None => \A f \in Files : Kept(rows'[f], f, sending'.from[f])
                      /\ \A q \in Slots : Behind(q)'
    BY DEF LinesInv
  <1>1. /\ faults = 0 /\ ~Fails /\ body[p] \in Body
        /\ acked' = acked /\ sending' = sending /\ awaited' = awaited
    BY HandlerFacts DEF SameClient
  <1>2. /\ \A f \in Files : Gapless(rows[f], f) /\ Kept(rows[f], f, acked[f]) /\ acked[f] \in Nat
        /\ sending # None => \A f \in Files : Kept(rows[f], f, sending.from[f])
                                              /\ sending.from[f] \in Nat /\ sending.to[f] \in Nat
        /\ \A q \in Slots : Behind(q)
    BY <1>1, BodyFields DEF LinesInv, TypeInv, TypeOK
  <1>3. \A f \in Files : \A n \in Nat : Kept(rows[f], f, n) => Kept(rows'[f], f, n)
    BY RowsGrow
  <1>4. ASSUME NEW f \in Files
        PROVE  /\ body[p].from[f] \in Nat /\ body[p].to[f] \in Nat /\ at[p][f] \in Nat
    BY <1>1, BodyFields DEF TypeInv, TypeOK
  <1>5. ASSUME StoreLine(p), NEW f \in Files
        PROVE  Gapless(rows'[f], f) /\ Kept(rows'[f], f, at'[p][f] - 1)
    <2>1. PICK g \in Files :
            /\ at[p][g] <= body[p].to[g] /\ body[p].from[g] < at[p][g]
            /\ at'[p][g] = at[p][g] + 1 /\ \A h \in Files \ {g} : at'[p][h] = at[p][h]
            /\ \A h \in Files \ {g} : rows'[h] = rows[h]
            /\ \/ rows'[g] = Append(rows[g], at[p][g])
               \/ rows'[g] = rows[g] /\ ~Parses(g, at[p][g])
      BY <1>1, <1>5, StoreLineFacts
    <2>2. pc[p] = "rows"
      BY <1>5, StoreLineFacts
    <2>3. Kept(rows[f], f, at[p][f] - 1) /\ Gapless(rows[f], f) /\ rows[f] \in Seq(Nat)
      BY <1>2, <2>2, RowsGrow DEF Behind
    <2>4. CASE f # g
      BY <2>1, <2>3, <2>4
    <2>5. CASE f = g
      <3>1. PICK n \in Nat : n + 1 = at[p][f]
        <4>1. at[p][f] \in Nat /\ body[p].from[f] \in Nat /\ body[p].from[f] < at[p][f]
          BY <1>4, <2>1, <2>5
        <4>2. at[p][f] - 1 \in Nat /\ (at[p][f] - 1) + 1 = at[p][f]
          BY <4>1
        <4> QED BY <4>2
      <3>2. at[p][f] - 1 = n /\ at'[p][f] - 1 = n + 1
        BY <2>1, <2>5, <3>1
      <3>3. Kept(rows[f], f, n)
        BY <2>3, <3>2
      <3>4. CASE rows'[f] = Append(rows[f], n + 1)
        <4>1. Kept(rows'[f], f, n + 1)
          BY <2>3, <3>3, <3>4, KeptAppend
        <4>2. Gapless(rows'[f], f)
          BY <2>3, <3>1, <3>2, <3>3, <3>4, GaplessAppend
        <4> QED BY <3>2, <4>1, <4>2
      <3>5. CASE rows'[f] = rows[f] /\ ~Parses(f, n + 1)
        BY <2>3, <3>2, <3>3, <3>5, KeptAppend
      <3> QED BY <2>1, <2>5, <3>1, <3>4, <3>5
    <2> QED BY <2>4, <2>5
  <1>6. ASSUME NEW f \in Files PROVE Gapless(rows'[f], f)
    <2>1. CASE StoreLine(p)
      BY <1>5, <2>1
    <2>2. CASE ~StoreLine(p)
      BY <1>2, <2>2, LookupFacts, RowsStoredFacts, UpdateFacts DEF Handler, SameRows
    <2> QED BY <2>1, <2>2
  <1>7. Behind(p)'
    <2> SUFFICES ASSUME NEW f \in Files
                 PROVE  /\ pc'[p] # "lookup"
                        /\ pc'[p] = "rows" => Kept(rows'[f], f, at'[p][f] - 1)
                        /\ pc'[p] = "update" => Kept(rows'[f], f, body'[p].to[f])
                        /\ pc'[p] = "answered" => Kept(rows'[f], f, sending'.to[f])
      BY DEF Behind
    <2>1. CASE Lookup(p)
      <3>1. /\ rows' = rows /\ pc[p] = "lookup"
            /\ \/ pc'[p] = "rows" /\ body'[p] = body[p] /\ at'[p] = at[p]
               \/ pc'[p] \in {"refused", "idle"}
        BY <2>1, LookupFacts DEF SameRows
      <3>2. at[p][f] = body[p].from[f] + 1
        BY <3>1 DEF TypeInv, Control, Handles
      <3>3. at[p][f] - 1 = body[p].from[f]
        BY <1>4, <3>2
      <3> QED BY <1>2, <3>1, <3>3 DEF Behind
    <2>2. CASE StoreLine(p)
      BY <1>5, <2>2, StoreLineFacts
    <2>3. CASE RowsStored(p)
      <3>1. rows' = rows /\ pc[p] = "rows" /\ pc'[p] = "update" /\ body' = body /\ Pending(p) = {}
        BY <2>3, RowsStoredFacts DEF SameRows
      <3>2. ~(at[p][f] <= body[p].to[f]) /\ at[p][f] <= body[p].to[f] + 1
        BY <3>1 DEF Pending, TypeInv, Control, Handles
      <3>3. at[p][f] - 1 = body[p].to[f]
        BY <1>4, <3>2
      <3> QED BY <1>2, <3>1, <3>3 DEF Behind
    <2>4. CASE UpdateRun(p)
      <3>1. rows' = rows /\ pc[p] = "update" /\ pc'[p] = (IF awaited = p THEN "answered" ELSE "idle")
        BY <2>4, UpdateFacts
      <3>2. awaited = p => body[p] = sending
        BY <3>1 DEF TypeInv, Control, Handles, Working
      <3> QED BY <1>1, <1>2, <3>1, <3>2 DEF Behind
    <2> QED BY <2>1, <2>2, <2>3, <2>4 DEF Handler
  <1>8. ASSUME NEW q \in Slots, q # p PROVE Behind(q)'
    <2> SUFFICES ASSUME NEW f \in Files
                 PROVE  /\ pc'[q] = "lookup" => Kept(rows'[f], f, body'[q].from[f])
                        /\ pc'[q] = "rows" => Kept(rows'[f], f, at'[q][f] - 1)
                        /\ pc'[q] = "update" => Kept(rows'[f], f, body'[q].to[f])
                        /\ pc'[q] = "answered" => Kept(rows'[f], f, sending'.to[f])
      BY DEF Behind
    <2>1. pc'[q] = pc[q] /\ body'[q] = body[q] /\ at'[q] = at[q]
      <3>1. Others(p)
        BY LookupFacts, StoreLineFacts, RowsStoredFacts, UpdateFacts DEF Handler
      <3> QED BY <1>8, <3>1 DEF Others
    <2>2. Handles(q) /\ Behind(q)
      BY <1>2 DEF TypeInv, Control
    <2>3. pc[q] \in Working => body[q].from[f] \in Nat /\ body[q].to[f] \in Nat
      BY <2>2, BodyFields DEF Handles
    <2>4. pc[q] = "rows" => at[q][f] - 1 \in Nat
      <3>1. at[q][f] \in Nat
        BY DEF TypeInv, TypeOK
      <3>2. pc[q] = "rows" => body[q].from[f] < at[q][f]
        BY <2>2 DEF Handles
      <3> QED BY <2>3, <3>1, <3>2 DEF Working
    <2>5. pc[q] = "answered" => sending.to[f] \in Nat
      BY AnsweredAwaited, BodyFields
    <2> QED BY <1>1, <1>3, <2>1, <2>2, <2>3, <2>4, <2>5 DEF Behind, Working
  <1> QED BY <1>1, <1>2, <1>3, <1>6, <1>7, <1>8

LEMMA LinesNext == ASSUME TypeInv, LinesInv, [Next]_vars PROVE LinesInv'
  <1>1. CASE UNCHANGED vars
    BY <1>1 DEF vars, tables, client, bounds, LinesInv, Behind
  <1>2. CASE Next
    BY <1>2, LinesPost, LinesHear, LinesCrash, LinesHandler DEF Next
  <1> QED BY <1>1, <1>2

(***************************************************************************)
(* The row of the run.                                                     *)
(***************************************************************************)
LEMMA RowInit == Init => RowInv
  BY NoneIsNoBody DEF Init, RowInv, RefusedInv, SummaryInv, EndInv, Exits

LEMMA RowPost ==
    ASSUME TypeInv, RowInv, Transmit \/ Heartbeat \/ Resend
    PROVE  RowInv'
  <1>1. PICK b \in Body, p \in Slots : Posted(b, p)
    BY PostFacts
  <1>2. /\ faults' = faults /\ retries' = retries /\ run' = run /\ phase' = phase /\ pc'[p] = "lookup"
        /\ sending' = b /\ awaited' = p /\ awaited = None /\ b # None /\ phase = "streaming"
        /\ \A q \in Slots \ {p} : pc'[q] = pc[q]
    BY <1>1, BodyFields DEF Posted, Others, SameRows
  <1>3. \A q \in Slots : q # None
    BY NoneIsNoBody
  <1>4. \A q \in Slots : pc[q] # "answered"
    BY <1>2, AnsweredAwaited
  <1>5. RefusedInv'
    <2>1. TypeInv'
      BY TypePost
    <2>2. \A q \in Slots : pc'[q] # "refused"
      BY <1>2, <2>1 DEF TypeInv, Control, Handles
    <2> QED BY <1>2, <2>2 DEF RefusedInv
  <1>6. SummaryInv'
    <2> SUFFICES ASSUME faults = 0, retries = 0
                 PROVE  /\ \A q \in Slots : pc'[q] # "idle" => q = p
                        /\ b.summary \in {0, sent'} /\ (b.summary = 0 => run.summary = sent')
                        /\ \A q \in Slots : pc'[q] # "answered"
      BY <1>2 DEF SummaryInv
    <2>1. \A q \in Slots : pc[q] = "idle"
      BY <1>2, <1>3 DEF RowInv, SummaryInv
    <2>2. b.summary \in {0, sent'} /\ (b.summary = 0 => run.summary = sent')
      <3>1. CASE sending = b /\ sent' = sent
        BY <1>2, <3>1 DEF RowInv, SummaryInv
      <3>2. CASE /\ sending = None /\ b.summary \in {0, sent + 1}
                 /\ sent' = (IF b.summary = 0 THEN sent ELSE b.summary)
        BY <1>2, <3>2 DEF RowInv, SummaryInv
      <3> QED BY <1>1, <3>1, <3>2 DEF Posted
    <2> QED BY <1>2, <2>1, <2>2
  <1>7. EndInv'
    BY <1>2, <1>4 DEF RowInv, EndInv
  <1> QED BY <1>5, <1>6, <1>7 DEF RowInv

LEMMA RowHear ==
    ASSUME TypeInv, RowInv, Timeout \/ Answered \/ GiveUp
    PROVE  RowInv'
  <1>1. /\ awaited \in Slots /\ awaited # None /\ awaited' = None /\ run' = run /\ sent' = sent /\ faults' = faults
        /\ pc'[awaited] = (IF pc[awaited] \in Working THEN pc[awaited] ELSE "idle")
        /\ \A q \in Slots \ {awaited} : pc'[q] = pc[q]
        /\ \A q \in Slots : pc'[q] = pc[q] \/ pc'[q] = "idle"
        /\ sending' \in {sending, None} /\ sending # None
    BY HearFacts, NoneIsNoBody DEF SameRows, TypeInv, Control
  <1>2. \A q \in Slots : pc'[q] # "answered"
    <2>1. TypeInv'
      BY TypeHear
    <2> QED BY <1>1, <2>1, NoneIsNoBody DEF TypeInv, Control, Handles
  <1>3. RefusedInv'
    <2>1. TypeInv'
      BY TypeHear
    <2>2. \A q \in Slots : pc'[q] # "refused"
      BY <1>1, <2>1, NoneIsNoBody DEF TypeInv, Control, Handles
    <2>3. phase' = "stopped" => pc[awaited] = "refused" /\ sending' = sending
      BY <1>1, HearFacts DEF TypeInv, Control
    <2> QED BY <1>1, <2>2, <2>3 DEF RowInv, RefusedInv, Refusable
  <1>4. SummaryInv'
    <2>0. retries' = 0 => retries = 0
      BY HearFacts
    <2> SUFFICES ASSUME faults = 0, retries' = 0
                 PROVE  /\ \A q \in Slots : pc'[q] = "idle"
                        /\ sending' = None => run.summary = sent
                        /\ sending' # None => sending' = sending
      BY <1>1, <1>2, <2>0 DEF RowInv, SummaryInv
    <2>1. retries = 0 /\ pc[awaited] \in {"answered", "refused"} /\ (pc[awaited] = "refused" => sending' = sending)
      BY HearFacts
    <2>2. \A q \in Slots \ {awaited} : pc[q] = "idle"
      BY <2>1 DEF RowInv, SummaryInv
    <2>3. sending' = None => run.summary = sent
      BY <1>1, <2>1 DEF RowInv, SummaryInv
    <2> QED BY <1>1, <2>1, <2>2, <2>3 DEF Working
  <1>5. EndInv'
    <2>1. ASSUME faults = 0, phase' = "finished" PROVE run.state # "running"
      <3>1. CASE phase' = phase
        BY <2>1, <3>1 DEF RowInv, EndInv
      <3>2. CASE phase' # phase
        <4>1. pc[awaited] = "answered" /\ sending.exit # None
          BY <2>1, <3>2, HearFacts
        <4> QED BY <1>1, <2>1, <4>1 DEF RowInv, EndInv
      <3> QED BY <3>1, <3>2
    <2> QED BY <1>1, <1>2, <2>1 DEF RowInv, EndInv
  <1> QED BY <1>3, <1>4, <1>5 DEF RowInv

LEMMA RowCrash == ASSUME TypeInv, RowInv, Crash PROVE RowInv'
  BY CrashFacts DEF RowInv, RefusedInv, Refusable, SummaryInv, EndInv, SameRows

LEMMA RowHandler ==
    ASSUME TypeInv, RowInv, NEW p \in Slots, Handler(p)
    PROVE  RowInv'
  <1>1. /\ pc[p] \in Working /\ body[p] \in Body
        /\ phase' = phase /\ sending' = sending /\ awaited' = awaited /\ sent' = sent
        /\ retries' = retries /\ faults \in Nat
        /\ (faults' = faults \/ faults' = faults + 1)
        /\ (faults' = 0 => faults = 0 /\ ~Fails)
    BY HandlerFacts, StreamAssumption DEF SameClient, TypeInv, TypeOK, StreamAssumption
  <1>2. \A q \in Slots \ {p} : pc'[q] = pc[q]
    BY LookupFacts, StoreLineFacts, RowsStoredFacts, UpdateFacts DEF Handler, Others
  <1>3. pc'[p] = "refused" => Refusable'
    <2>1. pc'[p] = "refused" => awaited = p /\ (Fails \/ body[p].chunks)
      BY LookupFacts, StoreLineFacts, RowsStoredFacts, UpdateFacts DEF Handler
    <2>2. awaited = p => body[p] = sending
      BY <1>1 DEF TypeInv, Control, Handles
    <2>3. Fails => faults' > 0
      BY <1>1 DEF Fails
    <2> QED BY <1>1, <2>1, <2>2, <2>3 DEF Refusable
  <1>4. RefusedInv'
    <2>1. Refusable => Refusable'
      BY <1>1 DEF Refusable
    <2> QED BY <1>1, <1>2, <1>3, <2>1 DEF RowInv, RefusedInv
  <1>5. pc'[p] = "answered" => UpdateRun(p) /\ awaited = p /\ body[p] = sending /\ sending # None
    <2>1. pc'[p] = "answered" => UpdateRun(p) /\ awaited = p
      BY <1>1, LookupFacts, StoreLineFacts, RowsStoredFacts, UpdateFacts DEF Handler
    <2>2. awaited = p => body[p] = sending
      BY <1>1 DEF TypeInv, Control, Handles
    <2> QED BY <1>1, <2>1, <2>2, BodyFields
  <1>6. \/ run' = run
        \/ /\ UpdateRun(p)
           /\ awaited = p => pc'[p] = "answered"
    BY LookupFacts, StoreLineFacts, RowsStoredFacts, UpdateFacts DEF Handler, SameRows
  <1>7. SummaryInv'
    <2> SUFFICES ASSUME faults' = 0, retries = 0
                 PROVE  /\ \A q \in Slots : pc'[q] # "idle" => awaited = q
                        /\ sending # None
                        /\ sending.summary \in {0, sent}
                        /\ sending.summary = 0 => run'.summary = sent
                        /\ \A q \in Slots : pc'[q] = "answered" => run'.summary = sent
      BY <1>1 DEF SummaryInv
    <2>1. SummaryInv /\ faults = 0 /\ ~Fails
      BY <1>1 DEF RowInv
    <2>2. awaited = p /\ \A q \in Slots : pc[q] # "idle" => awaited = q
      BY <1>1, <2>1 DEF SummaryInv, Working
    <2>3. body[p] = sending /\ sending # None
      BY <1>1, <2>2, BodyFields DEF TypeInv, Control, Handles
    <2>4. sending.summary \in {0, sent} /\ (sending.summary = 0 => run.summary = sent)
      BY <2>1, <2>3 DEF SummaryInv
    <2>5. UpdateRun(p) => run'.summary = sent
      BY <2>1, <2>3, <2>4, RunTyped
    <2>6. \A q \in Slots : pc'[q] = "answered" => q = p
      BY <1>1, <1>2, <2>2
    <2> QED BY <1>2, <1>5, <1>6, <2>2, <2>3, <2>4, <2>5, <2>6
  <1>8. EndInv'
    <2>1. run'.state = "crashed" <=> run'.exit = "nonzero"
      BY <1>6, RunTyped DEF RowInv, EndInv
    <2>2. run'.state = "running" => run.state = "running"
      BY <1>6, RunTyped
    <2>3. ASSUME faults' = 0, pc'[p] = "answered", sending.exit # None PROVE run'.state # "running"
      BY <1>1, <1>5, <2>3, RunTyped
    <2> QED BY <1>1, <1>2, <2>1, <2>2, <2>3 DEF RowInv, EndInv
  <1> QED BY <1>4, <1>7, <1>8 DEF RowInv

LEMMA RowNext == ASSUME TypeInv, RowInv, [Next]_vars PROVE RowInv'
  <1>1. CASE UNCHANGED vars
    BY <1>1 DEF vars, tables, client, bounds, RowInv, RefusedInv, Refusable, SummaryInv, EndInv
  <1>2. CASE Next
    BY <1>2, RowPost, RowHear, RowCrash, RowHandler DEF Next
  <1> QED BY <1>1, <1>2

(***************************************************************************)
(* The counters: whose row is whose.                                       *)
(***************************************************************************)
LEMMA RowsOfFinite ==
    ASSUME TypeInv, NEW f \in Files, NEW owner, NEW x
    PROVE  /\ IsFiniteSet(RowsOf(owner, f, x)) /\ Cardinality(RowsOf(owner, f, x)) \in Nat
           /\ Cardinality(RowsOf(owner, f, x)) <= Len(rows[f]) /\ Len(rows[f]) \in Nat
  <1>1. Len(rows[f]) \in Nat
    BY DEF TypeInv, TypeOK
  <1>2. IsFiniteSet(1..Len(rows[f])) /\ Cardinality(1..Len(rows[f])) = Len(rows[f])
    BY <1>1, FS_Interval
  <1>3. RowsOf(owner, f, x) \subseteq 1..Len(rows[f])
    BY DEF RowsOf
  <1> QED BY <1>1, <1>2, <1>3, FS_Subset, FS_CardinalityType

LEMMA CountInit == Init => CountInv
  <1> SUFFICES ASSUME Init, NEW f \in Files \ Json
               PROVE  \E owner \in [1..Len(rows[f]) -> Slots \cup {None}] : Owners(owner, f)
    BY DEF CountInv
  <1>1. TypeInv
    BY TypeInit
  <1> DEFINE owner == [i \in 1..Len(rows[f]) |-> None]
  <1>2. \A x : Cardinality(RowsOf(owner, f, x)) \in Nat
    BY <1>1, RowsOfFinite
  <1>3. count[f] = 0 /\ \A p \in Slots : Owed(p, f) = 0
    BY DEF Init, Owed
  <1>4. Owners(owner, f)
    BY <1>2, <1>3 DEF Owners
  <1> QED BY <1>4

\* A step that stores no row and counts none, after which no slot owes more.
LEMMA CountStays ==
    ASSUME TypeInv, CountInv, rows' = rows, count' = count, faults' = 0 => faults = 0,
           \A p \in Slots : \A f \in Files : Owed(p, f)' = Owed(p, f) \/ Owed(p, f)' = 0
    PROVE  CountInv'
  <1> SUFFICES ASSUME faults' = 0, NEW f \in Files \ Json
               PROVE  \E owner \in [1..Len(rows'[f]) -> Slots \cup {None}] : Owners(owner, f)'
    BY DEF CountInv
  <1>1. PICK owner \in [1..Len(rows[f]) -> Slots \cup {None}] : Owners(owner, f)
    BY DEF CountInv
  <1>2. \A x : RowsOf(owner, f, x)' = RowsOf(owner, f, x)
    BY DEF RowsOf
  <1>3. \A x : Cardinality(RowsOf(owner, f, x)) \in Nat
    BY RowsOfFinite
  <1>4. count'[f] <= Cardinality(RowsOf(owner, f, None)')
    BY <1>1, <1>2 DEF Owners
  <1>5. ASSUME NEW p \in Slots PROVE Owed(p, f)' <= Cardinality(RowsOf(owner, f, p)')
    <2>1. Owed(p, f) <= Cardinality(RowsOf(owner, f, p))
      BY <1>1 DEF Owners
    <2>2. Owed(p, f)' = Owed(p, f) \/ Owed(p, f)' = 0
      OBVIOUS
    <2> QED BY <1>2, <1>3, <2>1, <2>2
  <1>6. Owners(owner, f)'
    BY <1>4, <1>5 DEF Owners
  <1> QED BY <1>1, <1>6

\* A handler stores a row: it is its own.
LEMMA CountStore ==
    ASSUME TypeInv, CountInv, NEW p \in Slots, StoreLine(p)
    PROVE  CountInv'
  <1> SUFFICES ASSUME faults' = 0, NEW f \in Files \ Json
               PROVE  \E owner \in [1..Len(rows'[f]) -> Slots \cup {None}] : Owners(owner, f)'
    BY DEF CountInv
  <1>1. faults = 0 /\ ~Fails
    BY HandlerFacts DEF Handler
  <1>2. PICK owner \in [1..Len(rows[f]) -> Slots \cup {None}] : Owners(owner, f)
    BY <1>1 DEF CountInv
  <1>3. pc[p] = "rows" /\ pc' = pc /\ body' = body /\ count' = count /\ Others(p)
    BY StoreLineFacts
  <1>4. PICK g \in Files :
            /\ body[p].from[g] < at[p][g]
            /\ at'[p][g] = at[p][g] + 1 /\ \A h \in Files \ {g} : at'[p][h] = at[p][h]
            /\ \A h \in Files \ {g} : rows'[h] = rows[h]
            /\ \/ rows'[g] = Append(rows[g], at[p][g])
               \/ rows'[g] = rows[g] /\ ~Parses(g, at[p][g])
    BY <1>1, StoreLineFacts
  <1>5. \A q \in Slots \ {p} : Owed(q, f)' = Owed(q, f)
    BY <1>3 DEF Others, Owed
  <1>6. \A x : Cardinality(RowsOf(owner, f, x)) \in Nat /\ IsFiniteSet(RowsOf(owner, f, x))
    BY RowsOfFinite
  <1>7. count[f] <= Cardinality(RowsOf(owner, f, None)) /\ Owed(p, f) <= Cardinality(RowsOf(owner, f, p))
        /\ \A q \in Slots : Owed(q, f) <= Cardinality(RowsOf(owner, f, q))
    BY <1>2 DEF Owners
  <1>8. CASE f # g
    <2>1. rows'[f] = rows[f] /\ at'[p][f] = at[p][f]
      BY <1>4, <1>8
    <2>2. \A q \in Slots : Owed(q, f)' = Owed(q, f)
      BY <1>3, <1>5, <2>1 DEF Owed
    <2>3. \A x : RowsOf(owner, f, x)' = RowsOf(owner, f, x)
      BY <2>1 DEF RowsOf
    <2>4. Owners(owner, f)'
      BY <1>3, <1>7, <2>2, <2>3 DEF Owners
    <2> QED BY <1>2, <2>1, <2>4
  <1>9. CASE f = g
    <2> DEFINE n == Len(rows[f])
    <2>1. rows[f] \in Seq(Nat) /\ n \in Nat /\ at[p][f] \in Nat
      BY DEF TypeInv, TypeOK
    <2>2. rows'[f] = Append(rows[f], at[p][f])
      BY <1>4, <1>9 DEF Parses
    <2>3. Len(rows'[f]) = n + 1
      BY <2>1, <2>2
    <2> HIDE DEF n
    <2>new. PICK new : new = [i \in 1..(n + 1) |-> IF i = n + 1 THEN p ELSE owner[i]]
      OBVIOUS
    <2>dom. owner \in [1..n -> Slots \cup {None}]
      BY <1>2 DEF n
    <2>sets. /\ RowsOf(owner, f, p) \subseteq 1..n
             /\ \A x : RowsOf(owner, f, x) = {i \in 1..n : owner[i] = x}
             /\ \A x : RowsOf(new, f, x)' = {i \in 1..(n + 1) : new[i] = x}
      BY <2>3 DEF RowsOf, n
    <2>vals. new[n + 1] = p /\ \A i \in 1..n : new[i] = owner[i]
      BY <2>1, <2>new DEF n
    <2>4. new \in [1..Len(rows'[f]) -> Slots \cup {None}]
      BY <2>1, <2>3, <2>new, <2>dom DEF n
    <2>5. ASSUME NEW x, x # p PROVE RowsOf(new, f, x)' = RowsOf(owner, f, x)
      <3>1. \A i \in 1..(n + 1) : i \in 1..n \/ i = n + 1
        BY <2>1 DEF n
      <3>2. \A i \in 1..n : i \in 1..(n + 1)
        BY <2>1 DEF n
      <3>3. {i \in 1..(n + 1) : new[i] = x} = {i \in 1..n : owner[i] = x}
        BY <2>5, <2>vals, <3>1, <3>2
      <3> QED BY <2>sets, <3>3
    <2>6. RowsOf(new, f, p)' = RowsOf(owner, f, p) \cup {n + 1}
      BY <2>1, <2>sets, <2>vals DEF n
    <2>7. n + 1 \notin RowsOf(owner, f, p)
      BY <2>1, <2>sets DEF n
    <2>8. Cardinality(RowsOf(new, f, p)') = Cardinality(RowsOf(owner, f, p)) + 1
      BY <1>6, <2>6, <2>7, FS_AddElement
    <2>9. Owed(p, f)' = Owed(p, f) + 1
      <3>1. body[p] \in Body
        BY HandlerFacts DEF Handler
      <3>2. body[p].from[f] \in Nat
        BY <3>1, BodyFields
      <3>3. at'[p][f] = at[p][f] + 1 /\ body[p].from[f] < at[p][f]
        BY <1>4, <1>9
      <3>4. Owed(p, f) = at[p][f] - (body[p].from[f] + 1) /\ Owed(p, f)' = at'[p][f] - (body[p].from[f] + 1)
        BY <1>3 DEF Owed
      <3> QED BY <2>1, <3>2, <3>3, <3>4
    <2>10. Owed(p, f) \in Int
      <3>1. body[p] \in Body
        BY HandlerFacts DEF Handler
      <3>2. body[p].from[f] \in Nat
        BY <3>1, BodyFields
      <3>3. Owed(p, f) = at[p][f] - (body[p].from[f] + 1)
        BY <1>3 DEF Owed
      <3>4. at[p][f] \in Nat
        BY <2>1
      <3>5. \A a, b \in Nat : a - (b + 1) \in Int
        OBVIOUS
      <3>6. at[p][f] - (body[p].from[f] + 1) \in Int
        BY <3>2, <3>4, <3>5
      <3> QED BY <3>3, <3>6
    <2>11. count'[f] <= Cardinality(RowsOf(new, f, None)')
      BY <1>3, <1>7, <2>5, NoneIsNoBody
    <2>12. ASSUME NEW q \in Slots PROVE Owed(q, f)' <= Cardinality(RowsOf(new, f, q)')
      <3>1. CASE q = p
        BY <1>6, <1>7, <2>8, <2>9, <2>10, <3>1
      <3>2. CASE q # p
        BY <1>5, <1>7, <2>5, <3>2
      <3> QED BY <3>1, <3>2
    <2>13. Owners(new, f)'
      BY <2>11, <2>12 DEF Owners
    <2> QED BY <2>4, <2>13
  <1> QED BY <1>8, <1>9

\* The UPDATE counts what its handler stored: these rows are nobody's now.
LEMMA CountUpdate ==
    ASSUME TypeInv, CountInv, NEW p \in Slots, UpdateRun(p)
    PROVE  CountInv'
  <1> SUFFICES ASSUME faults' = 0, NEW f \in Files \ Json
               PROVE  \E owner \in [1..Len(rows'[f]) -> Slots \cup {None}] : Owners(owner, f)'
    BY DEF CountInv
  <1>1. faults = 0 /\ ~Fails /\ body[p] \in Body
    BY HandlerFacts DEF Handler
  <1>2. PICK owner \in [1..Len(rows[f]) -> Slots \cup {None}] : Owners(owner, f)
    BY <1>1 DEF CountInv
  <1>3. /\ pc[p] = "update" /\ rows' = rows /\ Others(p)
        /\ pc'[p] \in {"answered", "idle"} /\ count' = Counted(p)
    BY <1>1, UpdateFacts
  <1>4. \A q \in Slots \ {p} : Owed(q, f)' = Owed(q, f)
    BY <1>3 DEF Others, Owed
  <1>5. Owed(p, f)' = 0 /\ Owed(p, f) = body[p].to[f] - body[p].from[f]
    BY <1>3 DEF Owed
  <1>6. count'[f] = count[f] + Owed(p, f)
    BY <1>3, <1>5 DEF Counted
  <1>7. count[f] \in Nat /\ body[p].to[f] \in Nat /\ body[p].from[f] \in Nat
    BY <1>1, BodyFields DEF TypeInv, TypeOK
  <1>8. \A x : Cardinality(RowsOf(owner, f, x)) \in Nat /\ IsFiniteSet(RowsOf(owner, f, x))
    BY RowsOfFinite
  <1>9. /\ count[f] <= Cardinality(RowsOf(owner, f, None))
        /\ \A q \in Slots : Owed(q, f) <= Cardinality(RowsOf(owner, f, q))
    BY <1>2 DEF Owners
  <1>new. PICK new : new = [i \in 1..Len(rows[f]) |-> IF owner[i] = p THEN None ELSE owner[i]]
    OBVIOUS
  <1>10. new \in [1..Len(rows'[f]) -> Slots \cup {None}]
    BY <1>2, <1>3, <1>new
  <1>11. p # None
    BY NoneIsNoBody
  <1>12. RowsOf(new, f, None)' = RowsOf(owner, f, None) \cup RowsOf(owner, f, p)
    BY <1>3, <1>new DEF RowsOf
  <1>13. RowsOf(owner, f, None) \cap RowsOf(owner, f, p) = {}
    BY <1>11 DEF RowsOf
  <1>14. Cardinality(RowsOf(new, f, None)')
            = Cardinality(RowsOf(owner, f, None)) + Cardinality(RowsOf(owner, f, p))
    <2>1. Cardinality(RowsOf(owner, f, None) \cap RowsOf(owner, f, p)) = 0
      BY <1>13, FS_EmptySet
    <2>2. Cardinality(RowsOf(owner, f, None) \cup RowsOf(owner, f, p))
            = Cardinality(RowsOf(owner, f, None)) + Cardinality(RowsOf(owner, f, p))
                - Cardinality(RowsOf(owner, f, None) \cap RowsOf(owner, f, p))
      BY <1>8, FS_Union
    <2> QED BY <1>8, <1>12, <2>1, <2>2
  <1>15. ASSUME NEW q \in Slots, q # p PROVE RowsOf(new, f, q)' = RowsOf(owner, f, q)
    BY <1>3, <1>15, <1>new, NoneIsNoBody DEF RowsOf
  <1>16. Cardinality(RowsOf(new, f, p)') \in Nat
    <2>1. RowsOf(new, f, p)' = {}
      BY <1>3, <1>11, <1>new DEF RowsOf
    <2> QED BY <2>1, FS_EmptySet
  <1>17. count'[f] <= Cardinality(RowsOf(new, f, None)')
    <2>1. Owed(p, f) <= Cardinality(RowsOf(owner, f, p)) /\ Owed(p, f) \in Int
      BY <1>5, <1>7, <1>9
    <2>2. Cardinality(RowsOf(owner, f, None)) \in Nat /\ Cardinality(RowsOf(owner, f, p)) \in Nat
      BY <1>8
    <2>3. count[f] + Owed(p, f) <= Cardinality(RowsOf(owner, f, None)) + Cardinality(RowsOf(owner, f, p))
      BY <1>7, <1>9, <2>1, <2>2
    <2> QED BY <1>6, <1>14, <2>3
  <1>18. ASSUME NEW q \in Slots PROVE Owed(q, f)' <= Cardinality(RowsOf(new, f, q)')
    <2>1. CASE q = p
      BY <1>5, <1>16, <2>1
    <2>2. CASE q # p
      BY <1>4, <1>9, <1>15, <2>2
    <2> QED BY <2>1, <2>2
  <1>19. Owners(new, f)'
    BY <1>17, <1>18 DEF Owners
  <1> QED BY <1>10, <1>19

LEMMA CountNext == ASSUME TypeInv, CountInv, [Next]_vars PROVE CountInv'
  <1>1. ASSUME NEW p \in Slots, pc'[p] = pc[p], body'[p] = body[p], at'[p] = at[p], NEW f \in Files
        PROVE  Owed(p, f)' = Owed(p, f)
    BY <1>1 DEF Owed
  <1>2. CASE Transmit \/ Heartbeat \/ Resend
    <2>1. PICK b \in Body, p \in Slots : Posted(b, p)
      BY <1>2, PostFacts
    <2>2. rows' = rows /\ count' = count /\ faults' = faults /\ pc'[p] = "lookup" /\ Others(p)
      BY <2>1 DEF Posted, SameRows
    <2>3. ASSUME NEW q \in Slots, NEW f \in Files PROVE Owed(q, f)' = Owed(q, f) \/ Owed(q, f)' = 0
      <3>1. CASE q = p
        BY <2>2, <3>1 DEF Owed
      <3>2. CASE q # p
        BY <1>1, <2>2, <3>2 DEF Others
      <3> QED BY <3>1, <3>2
    <2> QED BY <2>2, <2>3, CountStays
  <1>3. CASE Timeout \/ Answered \/ GiveUp
    <2>1. rows' = rows /\ count' = count /\ faults' = faults /\ body' = body /\ at' = at
          /\ \A q \in Slots : pc'[q] = pc[q] \/ pc'[q] = "idle"
      BY <1>3, HearFacts DEF SameRows
    <2>2. \A q \in Slots : \A f \in Files : Owed(q, f)' = Owed(q, f) \/ Owed(q, f)' = 0
      BY <2>1 DEF Owed
    <2> QED BY <2>1, <2>2, CountStays
  <1>4. CASE Crash
    <2>1. rows' = rows /\ count' = count /\ faults' = faults /\ \A q \in Slots : pc'[q] = "idle"
      BY <1>4, CrashFacts DEF SameRows
    <2>2. \A q \in Slots : \A f \in Files : Owed(q, f)' = 0
      BY <2>1 DEF Owed
    <2> QED BY <2>1, <2>2, CountStays
  <1>5. ASSUME NEW p \in Slots, Lookup(p) PROVE CountInv'
    <2>1. /\ rows' = rows /\ count' = count /\ (faults' = 0 => faults = 0) /\ Others(p) /\ pc[p] = "lookup"
          /\ \/ pc'[p] = "rows" /\ body'[p] = body[p] /\ at'[p] = at[p]
             \/ pc'[p] \in {"refused", "idle"}
      BY <1>5, LookupFacts, HandlerFacts DEF Handler, SameRows
    <2>2. ASSUME NEW f \in Files PROVE Owed(p, f)' = 0
      <3>1. at[p][f] = body[p].from[f] + 1 /\ body[p] \in Body
        BY <2>1 DEF TypeInv, Control, Handles, Working
      <3>2. body[p].from[f] \in Nat
        BY <3>1, BodyFields
      <3>3. CASE pc'[p] = "rows" /\ body'[p] = body[p] /\ at'[p] = at[p]
        <4>1. Owed(p, f)' = at[p][f] - (body[p].from[f] + 1)
          BY <3>3 DEF Owed
        <4> QED BY <3>1, <3>2, <4>1
      <3>4. CASE pc'[p] \in {"refused", "idle"}
        BY <3>4 DEF Owed
      <3> QED BY <2>1, <3>3, <3>4
    <2>3. \A q \in Slots : \A f \in Files : Owed(q, f)' = Owed(q, f) \/ Owed(q, f)' = 0
      BY <1>1, <2>1, <2>2 DEF Others
    <2> QED BY <2>1, <2>3, CountStays
  <1>6. ASSUME NEW p \in Slots, RowsStored(p) PROVE CountInv'
    <2>1. /\ rows' = rows /\ count' = count /\ faults' = faults /\ Others(p) /\ body' = body
          /\ pc[p] = "rows" /\ pc'[p] = "update" /\ Pending(p) = {}
      BY <1>6, RowsStoredFacts DEF SameRows
    <2>2. ASSUME NEW f \in Files PROVE Owed(p, f)' = Owed(p, f)
      <3>1. ~(at[p][f] <= body[p].to[f]) /\ at[p][f] <= body[p].to[f] + 1 /\ body[p] \in Body
        BY <2>1 DEF Pending, TypeInv, Control, Handles, Working
      <3>2. body[p].from[f] \in Nat /\ body[p].to[f] \in Nat /\ at[p][f] \in Nat
        BY <3>1, BodyFields DEF TypeInv, TypeOK
      <3>3. at[p][f] = body[p].to[f] + 1
        BY <3>1, <3>2
      <3>4. Owed(p, f) = at[p][f] - (body[p].from[f] + 1) /\ Owed(p, f)' = body[p].to[f] - body[p].from[f]
        BY <2>1 DEF Owed
      <3> QED BY <3>2, <3>3, <3>4
    <2>3. \A q \in Slots : \A f \in Files : Owed(q, f)' = Owed(q, f) \/ Owed(q, f)' = 0
      BY <1>1, <2>1, <2>2 DEF Others
    <2> QED BY <2>1, <2>3, CountStays
  <1>7. CASE UNCHANGED vars
    <2>1. rows' = rows /\ count' = count /\ faults' = faults /\ body' = body /\ at' = at /\ pc' = pc
      BY <1>7 DEF vars, tables, bounds
    <2>2. \A q \in Slots : \A f \in Files : Owed(q, f)' = Owed(q, f)
      BY <2>1 DEF Owed
    <2> QED BY <2>1, <2>2, CountStays
  <1> QED BY <1>2, <1>3, <1>4, <1>5, <1>6, <1>7, CountStore, CountUpdate DEF Next, Handler

(***************************************************************************)
(* The theorems.                                                           *)
(***************************************************************************)
LEMMA InvInit == Init => IInv
  BY TypeInit, LinesInit, CountInit, RowInit DEF IInv

LEMMA InvNext == IInv /\ [Next]_vars => IInv'
  BY TypeNext, LinesNext, CountNext, RowNext DEF IInv

\* The invariant the theorems rest on holds in every state.
THEOREM Inductive == Spec => []IInv
  BY InvInit, InvNext, PTL DEF Spec

\* For any number of handlers that run next to their own repetitions, any
\* timeouts and any deaths of the server: what is stored of a file is a
\* beginning of what the run logged, with every line whose POST was answered.
THEOREM LinesHold == Spec => []LinesKept
  <1>1. IInv => LinesKept
    <2> SUFFICES ASSUME IInv PROVE LinesKept
      OBVIOUS
    <2>1. TypeOK
      BY DEF IInv, TypeInv
    <2>2. NoGaps
      BY <2>1, GaplessMeans DEF IInv, LinesInv, NoGaps, TypeOK
    <2>3. AckedLinesStored
      BY DEF IInv, LinesInv, AckedLinesStored, Kept, Stored
    <2> QED BY <2>1, <2>2, <2>3 DEF LinesKept
  <1> QED BY <1>1, Inductive, PTL

\* Under the same repetitions and deaths the counters are never ahead of the
\* rows; the summary and the final state are those the client was answered.
THEOREM RunRowTrue == Spec => []RunRowHolds
  <1>1. IInv => RunRowHolds
    <2> SUFFICES ASSUME IInv PROVE RunRowHolds
      OBVIOUS
    <2>1. TypeInv
      BY DEF IInv
    <2>2. CountNeverAhead
      <3> SUFFICES ASSUME faults = 0, NEW f \in Files \ Json PROVE count[f] <= Len(rows[f])
        BY DEF CountNeverAhead
      <3>1. PICK owner \in [1..Len(rows[f]) -> Slots \cup {None}] : Owners(owner, f)
        BY DEF IInv, CountInv
      <3>2. count[f] <= Cardinality(RowsOf(owner, f, None))
        BY <3>1 DEF Owners
      <3>3. count[f] \in Nat
        BY <2>1 DEF TypeInv, TypeOK
      <3>4. /\ Cardinality(RowsOf(owner, f, None)) \in Nat /\ Len(rows[f]) \in Nat
            /\ Cardinality(RowsOf(owner, f, None)) <= Len(rows[f])
        BY <2>1, RowsOfFinite
      <3> QED BY <3>2, <3>3, <3>4
    <2>3. SummaryFollowsAcks
      BY DEF IInv, RowInv, SummaryInv, SummaryFollowsAcks
    <2>4. FinalStateKept
      <3>1. run.state \in {"running", "finished", "crashed"}
        BY <2>1 DEF TypeInv, TypeOK
      <3> QED BY <3>1 DEF IInv, RowInv, EndInv, FinalStateKept
    <2> QED BY <2>2, <2>3, <2>4 DEF RunRowHolds
  <1> QED BY <1>1, Inductive, PTL

\* The safety half of Delivered: a client that stopped was refused a POST with
\* a list of chunks, or a lookup of the handler failed; nothing else, no
\* timeout, repetition or death of the server, stops a stream.
THEOREM OnlyRefusalsStop == Spec => [](phase = "stopped" => sending.chunks \/ faults > 0)
  <1>1. IInv => (phase = "stopped" => sending.chunks \/ faults > 0)
    BY DEF IInv, RowInv, RefusedInv, Refusable
  <1> QED BY <1>1, Inductive, PTL
=============================================================================
