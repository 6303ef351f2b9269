------------------------- MODULE ArtifactUploadProof -------------------------
(***************************************************************************)
(* Proofs about ArtifactUpload, for every number of files, pieces, handlers*)
(* and downloads, and any number of timeouts, deaths of the server, failing*)
(* statements and broken PUTs.                                             *)
(***************************************************************************)
EXTENDS ArtifactUpload, FiniteSetTheorems, WellFoundedInduction, TLAPS

(***************************************************************************)
(* The invariants.                                                         *)
(***************************************************************************)
\* What a handler has been asked, at each of its statements.
Handles(p) ==
    /\ pc[p] # "idle" => arg[p] \in Request
    /\ pc[p] \in {"insert manifest", "insert file", "set file"} => arg[p].op = "create"
    /\ pc[p] = "insert files" => arg[p].op = "files" /\ at[p] < Len(Entries)
    /\ pc[p] # "idle" /\ arg[p].op = "files" => at[p] <= Len(Entries)
    /\ pc[p] \in {"find manifest", "update file", "update manifest"} => arg[p].op = "update"
    /\ pc[p] \in {"open", "copy"} => arg[p].op = "put"
    /\ pc[p] \in {"count", "commit"} => arg[p].op = "commit"
    /\ pc[p] = "open" => at[p] = 0
    /\ pc[p] = "copy" => at[p] < Size /\ blob[arg[p].path] # None
    /\ pc[p] # "idle" /\ arg[p].op = "put" => arg[p].path \in Names
    /\ pc[p] # "idle" /\ arg[p].op = "update" => local[p].manifest = arg[p].manifest
          /\ arg[p].manifest \in DOMAIN manifests
    /\ pc[p] \in {"insert file", "set file"} => local[p].manifest \in DOMAIN manifests /\ arg[p].upload
    /\ pc[p] = "ok" /\ arg[p].op = "create" => local[p].manifest \in DOMAIN manifests

\* What the client asks for in each phase.
Fits(r) ==
    /\ r.op = "create" => phase = "reserve" \/ (phase = "finalize" /\ r.upload /\ r.final)
    /\ r.op = "files"  => phase = "files"
    /\ r.op = "update" => phase = "finalize" /\ r.manifest = held
    /\ r.op = "put"    => \/ phase = "puts" /\ r.path = Entries[Cardinality(answered) + 1]
                          \/ phase = "manifest" /\ r.path = ManifestName
    /\ r.op = "commit" => phase = "commit"

Asked == request # None => Fits(request)

Awaits == awaited # None => request # None /\ arg[awaited] = request /\ pc[awaited] # "idle"

\* The first n entries, and how much is answered in each phase.
First(n) == {Entries[i] : i \in 1..n}

Progress ==
    /\ phase \in {"reserve", "files"} => answered = {}
    /\ phase = "puts" => \E n \in 0..Len(Entries) : n < Len(Entries) /\ answered = First(n)
          /\ Cardinality(answered) = n
    /\ phase \in {"finalize", "manifest"} => answered = Range(Entries)
    /\ phase \in {"commit", "done"} => answered = Names
    /\ phase \notin {"reserve", "failed"} => held \in DOMAIN manifests

\* What is downloaded is there.
Reads == \A d \in Readers : reader[d] # None => blob[reader[d].path] # None

TypeInv == TypeOK /\ (\A p \in Slots : Handles(p)) /\ Asked /\ Awaits /\ Progress /\ Reads

FaultInv ==
    /\ RetriesAccepted
    /\ \A p \in Slots : pc[p] = "error" /\ arg[p].op # "put" => faults > 0

\* A handler nobody waits for is at work for a request that was given up.
LeftInv ==
    \A p \in Slots : pc[p] \in Working /\ p # awaited =>
        (IF arg[p].op = "put" THEN arg[p].path ELSE arg[p].op) \in gaveUp

\* The first n pieces.
Pieces(n) == [i \in 1..n |-> TRUE]

BlobInv ==
    /\ \A f \in answered \ gaveUp : Whole(f)
    /\ \A p \in Slots : p = awaited /\ arg[p].op = "put" /\ arg[p].path \notin gaveUp =>
          /\ pc[p] = "copy" => blob[arg[p].path] = Pieces(at[p])
          /\ pc[p] = "ok" => Whole(arg[p].path)

Committing == artifact.committed \/ \E p \in Slots : pc[p] # "idle" /\ arg[p].op = "commit"

LateInv == Committing => phase \in {"commit", "done", "failed"} /\ answered = Names

ReadInv ==
    \A d \in Readers : reader[d] # None =>
        /\ reader[d].path \in answered
        /\ reader[d].path \notin gaveUp =>
              /\ reader[d].good /\ reader[d].size = Size /\ reader[d].got <= Size
              /\ reader[d].state = "complete" => reader[d].got = Size

\* Every file record a manifest or a handler refers to is a manifest's.
IsRecord(n) == n \in DOMAIN files /\ files[n] = ManifestName

RowsInv ==
    /\ \A m \in DOMAIN manifests : manifests[m].file = 0 \/ IsRecord(manifests[m].file)
    /\ \A p \in Slots : pc[p] \in {"set file", "update manifest"} => IsRecord(local[p].file)

\* A manifest is final, and has a file unless a statement failed.
Finished(m) == manifests[m].final /\ (faults = 0 => manifests[m].file # 0)

Sealed == phase \in {"manifest", "commit", "done"} \/ Committing

\* What a handler of createArtifactManifest or updateArtifactManifest did.
Done(p) ==
    /\ pc[p] \in {"insert file", "set file", "ok"} /\ arg[p].op = "create" /\ arg[p].final =>
          manifests[local[p].manifest].final
    /\ pc[p] = "ok" /\ arg[p].op = "create" /\ arg[p].upload /\ faults = 0 =>
          manifests[local[p].manifest].file # 0
    /\ pc[p] = "ok" /\ arg[p].op = "update" => Finished(arg[p].manifest)

FinalInv ==
    /\ \A p \in Slots : Done(p)
    /\ Sealed => held \in DOMAIN manifests /\ Finished(held)

\* The manifest held is the latest, unless one is being created or was
\* created and not answered.
LatestInv ==
    "create" \notin gaveUp =>
        /\ phase \in {"files", "puts", "finalize"}
              /\ (request # None => request.op # "create") => held = Len(manifests)
        /\ Sealed => held = Len(manifests)
        /\ awaited # None /\ arg[awaited].op = "create"
              /\ pc[awaited] \in {"insert file", "set file", "ok"} =>
              local[awaited].manifest = Len(manifests)

EntryInv ==
    /\ \A p \in Slots :
          /\ pc[p] = "insert files" => First(at[p]) \subseteq Range(files)
          /\ pc[p] = "ok" /\ arg[p].op = "files" => Range(Entries) \subseteq Range(files)
    /\ phase \in {"puts", "finalize"} \/ Sealed => Range(Entries) \subseteq Range(files)

AtLeast(n) == n >= Len(Entries) + 1

CountInv ==
    faults = 0 =>
        /\ \A p \in Slots : pc[p] = "commit" => AtLeast(local[p].count)
        /\ artifact.committed => AtLeast(artifact.count)

\* The records stored at most when nothing failed and nothing is repeated:
\* before and after the record of the manifest's file, and entry by entry.
Early   == {"insert manifest", "insert file", "find manifest", "update file"}
Pending == awaited = None \/ pc[awaited] \in Early
Listed  == IF awaited = None THEN 0 ELSE at[awaited]

Room ==
    /\ phase = "reserve"  => Len(files) <= IF Pending THEN 0 ELSE 1
    /\ phase = "files"    => Len(files) <= 1 + Listed
    /\ phase = "puts"     => Len(files) <= Len(Entries) + 1
    /\ phase = "finalize" => Len(files) <= Len(Entries) + IF Pending THEN 1 ELSE 2
    /\ phase \in {"manifest", "commit", "done"} => Len(files) <= Len(Entries) + 2

AtMost(n) == n <= Len(Entries) + 2

Undisturbed == timeouts = 0 /\ crashes = 0 /\ faults = 0

BudgetInv ==
    Undisturbed =>
        /\ \A p \in Slots : pc[p] # "idle" => p = awaited
        /\ request # None /\ awaited = None => request.op = "put"
        /\ Room
        /\ \A p \in Slots : pc[p] = "commit" => AtMost(local[p].count)
        /\ artifact.committed => AtMost(artifact.count)

(***************************************************************************)
(* What each action does, as the invariants see it.                        *)
(***************************************************************************)
SlotsTyped ==
    /\ pc' \in [Slots -> Steps] /\ arg' \in [Slots -> {None} \cup Request]
    /\ at' \in [Slots -> Nat] /\ local' \in [Slots -> [manifest: Nat, file: Nat, count: Nat]]

\* The slots but p stay as they are.
Others(p) ==
    \A q \in Slots \ {p} : pc'[q] = pc[q] /\ arg'[q] = arg[q] /\ at'[q] = at[q] /\ local'[q] = local[q]

SameTables == manifests' = manifests /\ files' = files /\ artifact' = artifact /\ blob' = blob

SameClient ==
    /\ phase' = phase /\ request' = request /\ awaited' = awaited /\ held' = held
    /\ answered' = answered /\ gaveUp' = gaveUp

\* What a handler leaves alone, whichever statement it executes.
Frame(p) ==
    /\ Others(p) /\ SlotsTyped /\ arg'[p] = arg[p] /\ SameClient /\ reader' = reader
    /\ timeouts' = timeouts /\ crashes' = crashes
    /\ faults' \in Nat /\ faults' >= faults /\ breaks' \in Nat

LEMMA SlotTypes ==
    ASSUME TypeInv
    PROVE  /\ pc \in [Slots -> Steps] /\ arg \in [Slots -> {None} \cup Request] /\ at \in [Slots -> Nat]
           /\ local \in [Slots -> [manifest: Nat, file: Nat, count: Nat]]
           /\ faults \in Nat /\ breaks \in Nat /\ timeouts \in Nat /\ crashes \in Nat
  BY DEF TypeInv, TypeOK

LEMMA TableTypes ==
    ASSUME TypeInv
    PROVE  /\ manifests \in Seq(Manifest) /\ files \in Seq(Names)
           /\ artifact \in [committed: BOOLEAN, count: Nat]
           /\ blob \in [Names -> {None} \cup Seq(BOOLEAN)]
  BY DEF TypeInv, TypeOK

LEMMA ConstantFacts ==
    /\ Entries \in Seq(Range(Entries)) /\ Len(Entries) \in Nat \ {0}
    /\ Range(Entries) = {Entries[i] : i \in 1..Len(Entries)}
    /\ \A i, j \in 1..Len(Entries) : Entries[i] = Entries[j] => i = j
    /\ ManifestName \notin Range(Entries)
    /\ Names = Range(Entries) \cup {ManifestName}
    /\ None \notin Names /\ None \notin Slots /\ None \notin Request /\ None \notin Download
    /\ None \notin Seq(BOOLEAN)
    /\ Size \in Nat \ {0}
  <1>1. Entries \in Seq(Range(Entries)) /\ Entries # <<>> /\ IsInjective(Entries)
    BY UploadAssumption DEF UploadAssumption
  <1>2. DOMAIN Entries = 1..Len(Entries) /\ Len(Entries) \in Nat
    BY <1>1
  <1>3. Len(Entries) # 0
    BY <1>1
  <1>4. Range(Entries) = {Entries[i] : i \in 1..Len(Entries)}
    BY <1>2 DEF Range
  <1>5. \A i, j \in 1..Len(Entries) : Entries[i] = Entries[j] => i = j
    BY <1>1, <1>2 DEF IsInjective
  <1> QED BY <1>1, <1>2, <1>3, <1>4, <1>5, UploadAssumption DEF UploadAssumption, Names

Local == [manifest: Nat, file: Nat, count: Nat]

LEMMA FrameOf ==
    ASSUME TypeInv, NEW p \in Slots, NEW s \in Steps, NEW l \in Local, NEW a \in Nat,
           pc' = [pc EXCEPT ![p] = s], local' = [local EXCEPT ![p] = l], at' = [at EXCEPT ![p] = a], arg' = arg,
           SameClient, reader' = reader, timeouts' = timeouts, crashes' = crashes,
           faults' \in {faults, faults + 1}, breaks' \in {breaks, breaks + 1}
    PROVE  Frame(p) /\ pc'[p] = s /\ local'[p] = l /\ at'[p] = a
  <1>1. SlotsTyped
    BY SlotTypes DEF SlotsTyped, Local
  <1>2. Others(p)
    BY SlotTypes DEF Others
  <1> QED BY <1>1, <1>2, SlotTypes DEF Frame

\* A slot in the terms of FrameOf.
LEMMA Unchanged ==
    ASSUME TypeInv, NEW p \in Slots
    PROVE  /\ local[p] \in Local /\ at[p] \in Nat /\ pc[p] \in Steps
           /\ local = [local EXCEPT ![p] = local[p]] /\ at = [at EXCEPT ![p] = at[p]]
           /\ pc = [pc EXCEPT ![p] = pc[p]]
           /\ local[p].manifest \in Nat /\ local[p].file \in Nat /\ local[p].count \in Nat
  BY SlotTypes DEF Local

LEMMA LocalSet ==
    ASSUME NEW l \in Local, NEW n \in Nat
    PROVE  /\ [l EXCEPT !.manifest = n] \in Local /\ [l EXCEPT !.file = n] \in Local
           /\ [l EXCEPT !.count = n] \in Local
           /\ [l EXCEPT !.manifest = n].manifest = n /\ [l EXCEPT !.manifest = n].file = l.file
           /\ [l EXCEPT !.manifest = n].count = l.count
           /\ [l EXCEPT !.file = n].file = n /\ [l EXCEPT !.file = n].manifest = l.manifest
           /\ [l EXCEPT !.file = n].count = l.count
           /\ [l EXCEPT !.count = n].count = n /\ [l EXCEPT !.count = n].manifest = l.manifest
           /\ [l EXCEPT !.count = n].file = l.file
  BY DEF Local

LEMMA NextOf ==
    ASSUME NEW n \in Nat, NEW m \in Nat, n < m
    PROVE  n + 1 \in Nat /\ n + 1 <= m /\ (n + 1 # m => n + 1 < m)
  OBVIOUS

LEMMA StepNames ==
    /\ Working \subseteq Steps /\ {"idle", "ok", "error"} \subseteq Steps
    /\ {"insert manifest", "insert file", "set file", "insert files", "find manifest", "update file",
        "update manifest", "count", "commit", "open", "copy"} \subseteq Steps
    /\ \A s \in Working : s # "idle" /\ s # "ok" /\ s # "error"
  BY DEF Steps, Working

LEMMA RequestFields ==
    ASSUME NEW r \in Request
    PROVE  /\ r.op \in Ops /\ r.path \in Names \cup {None} /\ r.upload \in BOOLEAN /\ r.final \in BOOLEAN
           /\ r.manifest \in Nat /\ r # None
  BY ConstantFacts DEF Request

LEMMA Handled ==
    ASSUME TypeInv, NEW p \in Slots, pc[p] # "idle"
    PROVE  arg[p] \in Request
  BY DEF TypeInv, Handles

\* A failing statement.
Failing(p) ==
    /\ pc'[p] = "error" /\ faults' = faults + 1 /\ SameTables /\ local'[p] = local[p] /\ at'[p] = at[p]

LEMMA FailFacts ==
    ASSUME TypeInv, NEW p \in Slots, pc' = [pc EXCEPT ![p] = "error"], local' = local, at' = at, arg' = arg,
           SameTables, SameClient, reader' = reader, timeouts' = timeouts, crashes' = crashes, breaks' = breaks,
           faults' = faults + 1
    PROVE  Frame(p) /\ Failing(p)
  <1>1. SlotsTyped
    BY SlotTypes, StepNames DEF SlotsTyped
  <1>2. Others(p)
    BY SlotTypes DEF Others
  <1>3. pc'[p] = "error"
    BY SlotTypes
  <1> QED BY <1>1, <1>2, <1>3, SlotTypes DEF Frame, Failing

LEMMA AppendFacts ==
    ASSUME NEW T, NEW s \in Seq(T), NEW x \in T, NEW t, t = Append(s, x)
    PROVE  /\ t \in Seq(T) /\ Len(t) = Len(s) + 1 /\ Len(s) \in Nat /\ Len(s) + 1 \in Nat
           /\ DOMAIN s = 1..Len(s) /\ DOMAIN t = 1..Len(s) + 1
           /\ t[Len(s) + 1] = x /\ Len(s) + 1 \in DOMAIN t
           /\ \A i \in DOMAIN s : i \in DOMAIN t /\ t[i] = s[i] /\ s[i] \in T
           /\ \A i \in DOMAIN t : i \in DOMAIN s \/ i = Len(s) + 1
  OBVIOUS

LEMMA InsertManifestFacts ==
    ASSUME TypeInv, NEW p \in Slots, InsertManifest(p)
    PROVE  /\ pc[p] = "insert manifest" /\ Frame(p)
           /\ \/ /\ faults' = faults /\ manifests' = Append(manifests, [final |-> arg[p].final, file |-> 0])
                 /\ [final |-> arg[p].final, file |-> 0] \in Manifest
                 /\ local'[p].manifest = Len(manifests) + 1 /\ local'[p].file = local[p].file
                 /\ local'[p].count = local[p].count /\ at'[p] = at[p]
                 /\ pc'[p] = (IF arg[p].upload THEN "insert file" ELSE "ok")
                 /\ files' = files /\ artifact' = artifact /\ blob' = blob
              \/ Failing(p)
  <1>1. /\ pc[p] = "insert manifest" /\ arg' = arg /\ at' = at /\ SameClient /\ reader' = reader
        /\ timeouts' = timeouts /\ crashes' = crashes /\ breaks' = breaks
        /\ files' = files /\ artifact' = artifact /\ blob' = blob
    BY DEF InsertManifest, client, SameClient
  <1>2. CASE /\ faults' = faults /\ manifests' = Append(manifests, [final |-> arg[p].final, file |-> 0])
             /\ local' = [local EXCEPT ![p].manifest = Len(manifests')]
             /\ pc' = [pc EXCEPT ![p] = IF arg[p].upload THEN "insert file" ELSE "ok"]
    <2>1. arg[p] \in Request
      BY <1>1, Handled
    <2>2. [final |-> arg[p].final, file |-> 0] \in Manifest
      BY <2>1, RequestFields DEF Manifest
    <2>a. manifests \in Seq(Manifest) /\ manifests' = Append(manifests, [final |-> arg[p].final, file |-> 0])
      BY <1>2, TableTypes
    <2>3. Len(manifests') = Len(manifests) + 1 /\ Len(manifests) + 1 \in Nat
      BY <2>2, <2>a, AppendFacts
    <2> DEFINE l == [local[p] EXCEPT !.manifest = Len(manifests) + 1]
               s == IF arg[p].upload THEN "insert file" ELSE "ok"
    <2>4. local' = [local EXCEPT ![p] = l]
      BY <1>2, <2>3, SlotTypes
    <2>5. l \in Local
      BY <2>3, Unchanged, LocalSet
    <2>6. s \in Steps
      BY StepNames
    <2>7. pc' = [pc EXCEPT ![p] = s] /\ at' = [at EXCEPT ![p] = at[p]] /\ at[p] \in Nat
      BY <1>1, <1>2, Unchanged
    <2> HIDE DEF l, s
    <2>b. faults' \in {faults, faults + 1} /\ breaks' \in {breaks, breaks + 1}
      BY <1>1, <1>2
    <2>c. arg' = arg /\ SameClient /\ reader' = reader /\ timeouts' = timeouts /\ crashes' = crashes
      BY <1>1
    <2>8. Frame(p) /\ pc'[p] = s /\ local'[p] = l /\ at'[p] = at[p]
      BY <2>b, <2>c, <2>4, <2>5, <2>6, <2>7, FrameOf
    <2>9. l.manifest = Len(manifests) + 1 /\ l.file = local[p].file /\ l.count = local[p].count
      BY <2>3, Unchanged DEF l, Local
    <2> QED BY <1>1, <1>2, <2>2, <2>8, <2>9 DEF s
  <1>3. CASE faults' = faults + 1 /\ pc' = [pc EXCEPT ![p] = "error"] /\ manifests' = manifests
                /\ local' = local
    BY <1>1, <1>3, FailFacts DEF SameTables
  <1> QED BY <1>2, <1>3 DEF InsertManifest, Succeeds, Fails, Goto

LEMMA InsertManifestFileFacts ==
    ASSUME TypeInv, NEW p \in Slots, InsertManifestFile(p)
    PROVE  /\ pc[p] = "insert file" /\ Frame(p)
           /\ \/ /\ faults' = faults /\ files' = Append(files, ManifestName) /\ pc'[p] = "set file"
                 /\ local'[p].file = Len(files) + 1 /\ local'[p].manifest = local[p].manifest
                       /\ local'[p].count = local[p].count
                 /\ at'[p] = at[p]
                 /\ manifests' = manifests /\ artifact' = artifact /\ blob' = blob
              \/ Failing(p)
  <1>1. /\ pc[p] = "insert file" /\ arg' = arg /\ SameClient /\ reader' = reader /\ timeouts' = timeouts
              /\ crashes' = crashes
        /\ at' = at /\ breaks' = breaks /\ manifests' = manifests /\ artifact' = artifact /\ blob' = blob
    BY DEF InsertManifestFile, client, bounds, SameClient, NewFile
  <1>2. CASE /\ faults' = faults /\ files' = Append(files, ManifestName)
             /\ local' = [local EXCEPT ![p].file = Len(files')] /\ pc' = [pc EXCEPT ![p] = "set file"]
    <2>a. files \in Seq(Names) /\ ManifestName \in Names /\ files' = Append(files, ManifestName)
      BY <1>2, TableTypes, ConstantFacts
    <2>b. Len(files') = Len(files) + 1 /\ Len(files) + 1 \in Nat
      BY <2>a, AppendFacts
    <2> DEFINE s == "set file"
               l == [local[p] EXCEPT !.file = Len(files) + 1]
               a == at[p]
    <2>1. s \in Steps /\ l \in Local /\ a \in Nat
      BY <1>1, <2>b, Unchanged, LocalSet, StepNames
    <2>2. pc' = [pc EXCEPT ![p] = s] /\ local' = [local EXCEPT ![p] = l] /\ at' = [at EXCEPT ![p] = a]
      BY <1>1, <1>2, <2>b, Unchanged, SlotTypes
    <2>3. faults' \in {faults, faults + 1} /\ breaks' \in {breaks, breaks + 1}
      BY <1>1, <1>2
    <2>4. arg' = arg /\ SameClient /\ reader' = reader /\ timeouts' = timeouts /\ crashes' = crashes
      BY <1>1
    <2> HIDE DEF s, l, a
    <2>5. Frame(p) /\ pc'[p] = s /\ local'[p] = l /\ at'[p] = a
      BY <2>1, <2>2, <2>3, <2>4, FrameOf
    <2>6. l.file = Len(files) + 1 /\ l.manifest = local[p].manifest /\ l.count = local[p].count
      BY <1>1, <2>b, Unchanged DEF l, Local
    <2> QED BY <1>1, <1>2, <2>b, <2>6, <2>5 DEF s, l, a, SameTables
  <1>3. CASE faults' = faults + 1 /\ pc' = [pc EXCEPT ![p] = "error"] /\ files' = files /\ local' = local
    BY <1>1, <1>3, FailFacts DEF SameTables
  <1> QED BY <1>1, <1>2, <1>3 DEF InsertManifestFile, Succeeds, Fails, Goto, NewFile

LEMMA SetManifestFileFacts ==
    ASSUME TypeInv, NEW p \in Slots, SetManifestFile(p)
    PROVE  /\ pc[p] = "set file" /\ Frame(p)
           /\ \/ /\ pc'[p] = "ok" /\ local'[p] = local[p] /\ at'[p] = at[p]
                 /\ files' = files /\ artifact' = artifact /\ blob' = blob
                 /\ \/ faults' = faults
                          /\ manifests' = [manifests EXCEPT ![local[p].manifest].file = local[p].file]
                    \/ faults' = faults + 1 /\ manifests' = manifests
  <1>1. /\ pc[p] = "set file" /\ arg' = arg /\ SameClient /\ reader' = reader /\ timeouts' = timeouts
              /\ crashes' = crashes
        /\ at' = at /\ local' = local /\ breaks' = breaks /\ files' = files /\ artifact' = artifact
              /\ blob' = blob
        /\ pc' = [pc EXCEPT ![p] = "ok"]
    BY DEF SetManifestFile, Goto, client, bounds, SameClient, NewFile
  <1>2. CASE \/ faults' = faults /\ manifests' = [manifests EXCEPT ![local[p].manifest].file = local[p].file]
             \/ faults' = faults + 1 /\ manifests' = manifests
    <2> DEFINE s == "ok"
               l == local[p]
               a == at[p]
    <2>1. s \in Steps /\ l \in Local /\ a \in Nat
      BY <1>1, Unchanged, LocalSet, StepNames
    <2>2. pc' = [pc EXCEPT ![p] = s] /\ local' = [local EXCEPT ![p] = l] /\ at' = [at EXCEPT ![p] = a]
      BY <1>1, <1>2, Unchanged, SlotTypes
    <2>3. faults' \in {faults, faults + 1} /\ breaks' \in {breaks, breaks + 1}
      BY <1>1, <1>2
    <2>4. arg' = arg /\ SameClient /\ reader' = reader /\ timeouts' = timeouts /\ crashes' = crashes
      BY <1>1
    <2> HIDE DEF s, l, a
    <2>5. Frame(p) /\ pc'[p] = s /\ local'[p] = l /\ at'[p] = a
      BY <2>1, <2>2, <2>3, <2>4, FrameOf
    <2> QED BY <1>1, <1>2, <2>5 DEF s, l, a, SameTables
  <1> QED BY <1>1, <1>2 DEF SetManifestFile, Succeeds, Fails, Goto

LEMMA InsertFileFacts ==
    ASSUME TypeInv, NEW p \in Slots, InsertFile(p)
    PROVE  /\ pc[p] = "insert files" /\ Frame(p)
           /\ \/ /\ faults' = faults /\ files' = Append(files, Entries[at[p] + 1])
                       /\ Entries[at[p] + 1] \in Names
                 /\ local'[p] = local[p] /\ at'[p] = at[p] + 1
                 /\ pc'[p] = (IF at[p] + 1 = Len(Entries) THEN "ok" ELSE "insert files")
                 /\ manifests' = manifests /\ artifact' = artifact /\ blob' = blob
              \/ Failing(p)
  <1>1. /\ pc[p] = "insert files" /\ arg' = arg /\ SameClient /\ reader' = reader
              /\ timeouts' = timeouts /\ crashes' = crashes
        /\ local' = local /\ breaks' = breaks /\ manifests' = manifests /\ artifact' = artifact
              /\ blob' = blob
    BY DEF InsertFile, client, bounds, SameClient, NewFile
  <1>2. CASE /\ faults' = faults /\ files' = Append(files, Entries[at[p] + 1])
             /\ at' = [at EXCEPT ![p] = @ + 1]
             /\ pc' = [pc EXCEPT ![p] = IF at'[p] = Len(Entries) THEN "ok" ELSE "insert files"]
    <2>a. at'[p] = at[p] + 1 /\ at[p] \in Nat
      BY <1>2, SlotTypes
    <2>b. at[p] < Len(Entries)
      BY <1>1 DEF TypeInv, Handles
    <2>c. Entries[at[p] + 1] \in Names
      <3>1. /\ Range(Entries) = {Entries[i] : i \in 1..Len(Entries)} /\ Range(Entries) \subseteq Names
            /\ Len(Entries) \in Nat
        BY ConstantFacts
      <3>2. at[p] + 1 \in 1..Len(Entries)
        BY <2>a, <2>b, <3>1
      <3> QED BY <3>1, <3>2
    <2> DEFINE s == IF at[p] + 1 = Len(Entries) THEN "ok" ELSE "insert files"
               l == local[p]
               a == at[p] + 1
    <2>d. s \in Steps
      BY StepNames
    <2>e. l \in Local /\ a \in Nat
      BY <2>a, Unchanged
    <2>1. s \in Steps /\ l \in Local /\ a \in Nat
      BY <2>d, <2>e
    <2>2. pc' = [pc EXCEPT ![p] = s] /\ local' = [local EXCEPT ![p] = l] /\ at' = [at EXCEPT ![p] = a]
      BY <1>1, <1>2, <2>a, <2>c, Unchanged, SlotTypes
    <2>3. faults' \in {faults, faults + 1} /\ breaks' \in {breaks, breaks + 1}
      BY <1>1, <1>2
    <2>4. arg' = arg /\ SameClient /\ reader' = reader /\ timeouts' = timeouts /\ crashes' = crashes
      BY <1>1
    <2> HIDE DEF s, l, a
    <2>5. Frame(p) /\ pc'[p] = s /\ local'[p] = l /\ at'[p] = a
      BY <2>1, <2>2, <2>3, <2>4, FrameOf
    <2> QED BY <1>1, <1>2, <2>a, <2>c, <2>5 DEF s, l, a, SameTables
  <1>3. CASE faults' = faults + 1 /\ pc' = [pc EXCEPT ![p] = "error"] /\ files' = files /\ at' = at
    BY <1>1, <1>3, FailFacts DEF SameTables
  <1> QED BY <1>1, <1>2, <1>3 DEF InsertFile, Succeeds, Fails, Goto, NewFile

LEMMA FindManifestFacts ==
    ASSUME TypeInv, NEW p \in Slots, FindManifest(p)
    PROVE  /\ pc[p] = "find manifest" /\ Frame(p)
           /\ \/ /\ faults' = faults
                 /\ local'[p].file = manifests[local[p].manifest].file
                       /\ local'[p].manifest = local[p].manifest /\ local'[p].count = local[p].count
                 /\ pc'[p] = (IF manifests[local[p].manifest].file = 0 THEN "update file" ELSE "update manifest")
                 /\ at'[p] = at[p] /\ SameTables
              \/ /\ faults' = faults + 1 /\ pc'[p] = "update file" /\ local'[p] = local[p]
                 /\ at'[p] = at[p] /\ SameTables
              \/ Failing(p)
  <1>1. /\ pc[p] = "find manifest" /\ arg' = arg /\ SameClient /\ reader' = reader
              /\ timeouts' = timeouts /\ crashes' = crashes
        /\ at' = at /\ breaks' = breaks /\ SameTables
    BY DEF FindManifest, client, SameClient, tables, SameTables
  <1>a. local[p].manifest \in DOMAIN manifests /\ manifests[local[p].manifest].file \in Nat
    <2>1. arg[p].op = "update" /\ pc[p] # "idle"
      BY <1>1 DEF TypeInv, Handles
    <2>2. local[p].manifest \in DOMAIN manifests
      BY <2>1 DEF TypeInv, Handles
    <2>3. manifests[local[p].manifest] \in Manifest
      BY <2>2, TableTypes
    <2> QED BY <2>2, <2>3 DEF Manifest
  <1>2. CASE /\ faults' = faults /\ local' = [local EXCEPT ![p].file = manifests[local[p].manifest].file]
             /\ pc' = [pc EXCEPT ![p] = IF manifests[local[p].manifest].file = 0 THEN "update file" ELSE "update manifest"]
    <2> DEFINE s == IF manifests[local[p].manifest].file = 0 THEN "update file" ELSE "update manifest"
               l == [local[p] EXCEPT !.file = manifests[local[p].manifest].file]
               a == at[p]
    <2>1. s \in Steps /\ l \in Local /\ a \in Nat
      BY <1>1, <1>a, Unchanged, LocalSet, StepNames
    <2>2. pc' = [pc EXCEPT ![p] = s] /\ local' = [local EXCEPT ![p] = l] /\ at' = [at EXCEPT ![p] = a]
      BY <1>1, <1>2, <1>a, Unchanged, SlotTypes
    <2>3. faults' \in {faults, faults + 1} /\ breaks' \in {breaks, breaks + 1}
      BY <1>1, <1>2
    <2>4. arg' = arg /\ SameClient /\ reader' = reader /\ timeouts' = timeouts /\ crashes' = crashes
      BY <1>1
    <2> HIDE DEF s, l, a
    <2>5. Frame(p) /\ pc'[p] = s /\ local'[p] = l /\ at'[p] = a
      BY <2>1, <2>2, <2>3, <2>4, FrameOf
    <2>6. l.file = manifests[local[p].manifest].file /\ l.manifest = local[p].manifest
             /\ l.count = local[p].count
      BY <1>1, <1>a, Unchanged DEF l, Local
    <2> QED BY <1>1, <1>2, <1>a, <2>6, <2>5 DEF s, l, a, SameTables
  <1>3. CASE faults' = faults + 1 /\ pc' = [pc EXCEPT ![p] = "update file"] /\ local' = local
    <2> DEFINE s == "update file"
               l == local[p]
               a == at[p]
    <2>1. s \in Steps /\ l \in Local /\ a \in Nat
      BY <1>1, Unchanged, LocalSet, StepNames
    <2>2. pc' = [pc EXCEPT ![p] = s] /\ local' = [local EXCEPT ![p] = l] /\ at' = [at EXCEPT ![p] = a]
      BY <1>1, <1>3, Unchanged, SlotTypes
    <2>3. faults' \in {faults, faults + 1} /\ breaks' \in {breaks, breaks + 1}
      BY <1>1, <1>3
    <2>4. arg' = arg /\ SameClient /\ reader' = reader /\ timeouts' = timeouts /\ crashes' = crashes
      BY <1>1
    <2> HIDE DEF s, l, a
    <2>5. Frame(p) /\ pc'[p] = s /\ local'[p] = l /\ at'[p] = a
      BY <2>1, <2>2, <2>3, <2>4, FrameOf
    <2> QED BY <1>1, <1>3, <2>5 DEF s, l, a, SameTables
  <1>4. CASE faults' = faults + 1 /\ pc' = [pc EXCEPT ![p] = "error"] /\ local' = local
    BY <1>1, <1>4, FailFacts DEF SameTables
  <1> QED BY <1>1, <1>2, <1>3, <1>4 DEF FindManifest, Succeeds, Fails, Goto

LEMMA ReplaceManifestFileFacts ==
    ASSUME TypeInv, NEW p \in Slots, ReplaceManifestFile(p)
    PROVE  /\ pc[p] = "update file" /\ Frame(p)
           /\ \/ /\ faults' = faults /\ files' = Append(files, ManifestName) /\ pc'[p] = "update manifest"
                 /\ local'[p].file = Len(files) + 1 /\ local'[p].manifest = local[p].manifest
                       /\ local'[p].count = local[p].count
                 /\ at'[p] = at[p]
                 /\ manifests' = manifests /\ artifact' = artifact /\ blob' = blob
              \/ Failing(p)
  <1>1. /\ pc[p] = "update file" /\ arg' = arg /\ SameClient /\ reader' = reader /\ timeouts' = timeouts
              /\ crashes' = crashes
        /\ at' = at /\ breaks' = breaks /\ manifests' = manifests /\ artifact' = artifact /\ blob' = blob
    BY DEF ReplaceManifestFile, client, bounds, SameClient, NewFile
  <1>2. CASE /\ faults' = faults /\ files' = Append(files, ManifestName)
             /\ local' = [local EXCEPT ![p].file = Len(files')] /\ pc' = [pc EXCEPT ![p] = "update manifest"]
    <2>a. files \in Seq(Names) /\ ManifestName \in Names /\ files' = Append(files, ManifestName)
      BY <1>2, TableTypes, ConstantFacts
    <2>b. Len(files') = Len(files) + 1 /\ Len(files) + 1 \in Nat
      BY <2>a, AppendFacts
    <2> DEFINE s == "update manifest"
               l == [local[p] EXCEPT !.file = Len(files) + 1]
               a == at[p]
    <2>1. s \in Steps /\ l \in Local /\ a \in Nat
      BY <1>1, <2>b, Unchanged, LocalSet, StepNames
    <2>2. pc' = [pc EXCEPT ![p] = s] /\ local' = [local EXCEPT ![p] = l] /\ at' = [at EXCEPT ![p] = a]
      BY <1>1, <1>2, <2>b, Unchanged, SlotTypes
    <2>3. faults' \in {faults, faults + 1} /\ breaks' \in {breaks, breaks + 1}
      BY <1>1, <1>2
    <2>4. arg' = arg /\ SameClient /\ reader' = reader /\ timeouts' = timeouts /\ crashes' = crashes
      BY <1>1
    <2> HIDE DEF s, l, a
    <2>5. Frame(p) /\ pc'[p] = s /\ local'[p] = l /\ at'[p] = a
      BY <2>1, <2>2, <2>3, <2>4, FrameOf
    <2>6. l.file = Len(files) + 1 /\ l.manifest = local[p].manifest /\ l.count = local[p].count
      BY <1>1, <2>b, Unchanged DEF l, Local
    <2> QED BY <1>1, <1>2, <2>b, <2>6, <2>5 DEF s, l, a, SameTables
  <1>3. CASE faults' = faults + 1 /\ pc' = [pc EXCEPT ![p] = "error"] /\ files' = files /\ local' = local
    BY <1>1, <1>3, FailFacts DEF SameTables
  <1> QED BY <1>1, <1>2, <1>3 DEF ReplaceManifestFile, Succeeds, Fails, Goto, NewFile

LEMMA UpdateManifestDigestFacts ==
    ASSUME TypeInv, NEW p \in Slots, UpdateManifestDigest(p)
    PROVE  /\ pc[p] = "update manifest" /\ Frame(p)
           /\ \/ /\ \/ faults' = faults /\ pc'[p] = "ok"
                    \/ faults' = faults + 1 /\ pc'[p] = "error"
                 /\ local'[p] = local[p] /\ at'[p] = at[p]
                 /\ manifests' = [manifests EXCEPT ![local[p].manifest] = [final |-> TRUE, file |-> local[p].file]]
                 /\ files' = files /\ artifact' = artifact /\ blob' = blob
              \/ Failing(p)
  <1> DEFINE updated == [manifests EXCEPT ![local[p].manifest] = [final |-> TRUE, file |-> local[p].file]]
  <1>1. /\ pc[p] = "update manifest" /\ arg' = arg /\ SameClient /\ reader' = reader
              /\ timeouts' = timeouts /\ crashes' = crashes
        /\ at' = at /\ local' = local /\ breaks' = breaks /\ files' = files /\ artifact' = artifact
              /\ blob' = blob
    BY DEF UpdateManifestDigest, client, bounds, SameClient, NewFile
  <1>2. ASSUME NEW s \in {"ok", "error"}, pc' = [pc EXCEPT ![p] = s], faults' \in {faults, faults + 1}
        PROVE  Frame(p) /\ pc'[p] = s /\ local'[p] = local[p] /\ at'[p] = at[p]
    <2> DEFINE l == local[p]
               a == at[p]
    <2>1. s \in Steps /\ l \in Local /\ a \in Nat
      BY <1>1, <1>2, Unchanged, LocalSet, StepNames
    <2>2. pc' = [pc EXCEPT ![p] = s] /\ local' = [local EXCEPT ![p] = l] /\ at' = [at EXCEPT ![p] = a]
      BY <1>1, <1>2, Unchanged, SlotTypes
    <2>3. faults' \in {faults, faults + 1} /\ breaks' \in {breaks, breaks + 1}
      BY <1>1, <1>2
    <2>4. arg' = arg /\ SameClient /\ reader' = reader /\ timeouts' = timeouts /\ crashes' = crashes
      BY <1>1
    <2> HIDE DEF l, a
    <2>5. Frame(p) /\ pc'[p] = s /\ local'[p] = l /\ at'[p] = a
      BY <2>1, <2>2, <2>3, <2>4, FrameOf
    <2> QED BY <2>5 DEF l, a
  <1>3. CASE faults' = faults /\ pc' = [pc EXCEPT ![p] = "ok"] /\ manifests' = updated
    <2>1. Frame(p) /\ pc'[p] = "ok" /\ local'[p] = local[p] /\ at'[p] = at[p]
      BY <1>2, <1>3
    <2> QED BY <1>1, <1>3, <2>1
  <1>4. CASE faults' = faults + 1 /\ pc' = [pc EXCEPT ![p] = "error"] /\ manifests' = updated
    <2>1. Frame(p) /\ pc'[p] = "error" /\ local'[p] = local[p] /\ at'[p] = at[p]
      BY <1>2, <1>4
    <2> QED BY <1>1, <1>4, <2>1
  <1>5. CASE faults' = faults + 1 /\ pc' = [pc EXCEPT ![p] = "error"] /\ manifests' = manifests
    BY <1>1, <1>5, FailFacts DEF SameTables
  <1>6. \/ faults' = faults /\ pc' = [pc EXCEPT ![p] = "ok"] /\ manifests' = updated
        \/ faults' = faults + 1 /\ pc' = [pc EXCEPT ![p] = "error"] /\ manifests' \in {manifests, updated}
    BY DEF UpdateManifestDigest, Succeeds, Fails, Goto
  <1> QED BY <1>1, <1>3, <1>4, <1>5, <1>6

LEMMA CountFilesFacts ==
    ASSUME TypeInv, NEW p \in Slots, CountFiles(p)
    PROVE  /\ pc[p] = "count" /\ Frame(p)
           /\ \/ /\ faults' = faults /\ pc'[p] = "commit" 
                 /\ local'[p].count = Len(files) /\ local'[p].manifest = local[p].manifest
                       /\ local'[p].file = local[p].file
                 /\ at'[p] = at[p] /\ SameTables
              \/ /\ faults' = faults + 1 /\ pc'[p] = "commit" /\ local'[p] = local[p]
                 /\ at'[p] = at[p] /\ SameTables
              \/ Failing(p)
  <1>1. /\ pc[p] = "count" /\ arg' = arg /\ SameClient /\ reader' = reader /\ timeouts' = timeouts
              /\ crashes' = crashes
        /\ at' = at /\ breaks' = breaks /\ SameTables
    BY DEF CountFiles, client, SameClient, tables, SameTables
  <1>2. CASE faults' = faults /\ local' = [local EXCEPT ![p].count = Len(files)]
                /\ pc' = [pc EXCEPT ![p] = "commit"]
    <2>a. Len(files) \in Nat
      BY TableTypes
    <2> DEFINE s == "commit"
               l == [local[p] EXCEPT !.count = Len(files)]
               a == at[p]
    <2>1. s \in Steps /\ l \in Local /\ a \in Nat
      BY <1>1, <2>a, Unchanged, LocalSet, StepNames
    <2>2. pc' = [pc EXCEPT ![p] = s] /\ local' = [local EXCEPT ![p] = l] /\ at' = [at EXCEPT ![p] = a]
      BY <1>1, <1>2, <2>a, Unchanged, SlotTypes
    <2>3. faults' \in {faults, faults + 1} /\ breaks' \in {breaks, breaks + 1}
      BY <1>1, <1>2
    <2>4. arg' = arg /\ SameClient /\ reader' = reader /\ timeouts' = timeouts /\ crashes' = crashes
      BY <1>1
    <2> HIDE DEF s, l, a
    <2>5. Frame(p) /\ pc'[p] = s /\ local'[p] = l /\ at'[p] = a
      BY <2>1, <2>2, <2>3, <2>4, FrameOf
    <2>6. l.count = Len(files) /\ l.manifest = local[p].manifest /\ l.file = local[p].file
      BY <1>1, <2>a, Unchanged DEF l, Local
    <2> QED BY <1>1, <1>2, <2>a, <2>6, <2>5 DEF s, l, a, SameTables
  <1>3. CASE faults' = faults + 1 /\ pc' = [pc EXCEPT ![p] = "commit"] /\ local' = local
    <2> DEFINE s == "commit"
               l == local[p]
               a == at[p]
    <2>1. s \in Steps /\ l \in Local /\ a \in Nat
      BY <1>1, Unchanged, LocalSet, StepNames
    <2>2. pc' = [pc EXCEPT ![p] = s] /\ local' = [local EXCEPT ![p] = l] /\ at' = [at EXCEPT ![p] = a]
      BY <1>1, <1>3, Unchanged, SlotTypes
    <2>3. faults' \in {faults, faults + 1} /\ breaks' \in {breaks, breaks + 1}
      BY <1>1, <1>3
    <2>4. arg' = arg /\ SameClient /\ reader' = reader /\ timeouts' = timeouts /\ crashes' = crashes
      BY <1>1
    <2> HIDE DEF s, l, a
    <2>5. Frame(p) /\ pc'[p] = s /\ local'[p] = l /\ at'[p] = a
      BY <2>1, <2>2, <2>3, <2>4, FrameOf
    <2> QED BY <1>1, <1>3, <2>5 DEF s, l, a, SameTables
  <1>4. CASE faults' = faults + 1 /\ pc' = [pc EXCEPT ![p] = "error"] /\ local' = local
    BY <1>1, <1>4, FailFacts DEF SameTables
  <1> QED BY <1>1, <1>2, <1>3, <1>4 DEF CountFiles, Succeeds, Fails, Goto

LEMMA CommitFacts ==
    ASSUME TypeInv, NEW p \in Slots, Commit(p)
    PROVE  /\ pc[p] = "commit" /\ Frame(p)
           /\ \/ /\ faults' = faults /\ pc'[p] = "ok" /\ local'[p] = local[p] /\ at'[p] = at[p]
                 /\ artifact' = [committed |-> TRUE, count |-> local[p].count]
                 /\ manifests' = manifests /\ files' = files /\ blob' = blob
              \/ Failing(p)
  <1>1. /\ pc[p] = "commit" /\ arg' = arg /\ SameClient /\ reader' = reader /\ timeouts' = timeouts
              /\ crashes' = crashes
        /\ at' = at /\ local' = local /\ breaks' = breaks /\ manifests' = manifests /\ files' = files
              /\ blob' = blob
    BY DEF Commit, client, bounds, SameClient, NewFile
  <1>2. CASE /\ faults' = faults /\ pc' = [pc EXCEPT ![p] = "ok"]
             /\ artifact' = [committed |-> TRUE, count |-> local[p].count]
    <2> DEFINE s == "ok"
               l == local[p]
               a == at[p]
    <2>1. s \in Steps /\ l \in Local /\ a \in Nat
      BY <1>1, Unchanged, LocalSet, StepNames
    <2>2. pc' = [pc EXCEPT ![p] = s] /\ local' = [local EXCEPT ![p] = l] /\ at' = [at EXCEPT ![p] = a]
      BY <1>1, <1>2, Unchanged, SlotTypes
    <2>3. faults' \in {faults, faults + 1} /\ breaks' \in {breaks, breaks + 1}
      BY <1>1, <1>2
    <2>4. arg' = arg /\ SameClient /\ reader' = reader /\ timeouts' = timeouts /\ crashes' = crashes
      BY <1>1
    <2> HIDE DEF s, l, a
    <2>5. Frame(p) /\ pc'[p] = s /\ local'[p] = l /\ at'[p] = a
      BY <2>1, <2>2, <2>3, <2>4, FrameOf
    <2> QED BY <1>1, <1>2, <2>5 DEF s, l, a, SameTables
  <1>3. CASE faults' = faults + 1 /\ pc' = [pc EXCEPT ![p] = "error"] /\ artifact' = artifact
    BY <1>1, <1>3, FailFacts DEF SameTables
  <1> QED BY <1>1, <1>2, <1>3 DEF Commit, Succeeds, Fails, Goto

LEMMA OpenFacts ==
    ASSUME TypeInv, NEW p \in Slots, Open(p)
    PROVE  /\ pc[p] = "open" /\ Frame(p)
           /\ \/ /\ faults' = faults /\ pc'[p] = "copy" /\ local'[p] = local[p] /\ at'[p] = at[p]
                 /\ blob' = [blob EXCEPT ![arg[p].path] = <<>>]
                 /\ manifests' = manifests /\ files' = files /\ artifact' = artifact
              \/ /\ pc'[p] = "error" /\ faults' = faults /\ SameTables /\ local'[p] = local[p]
                       /\ at'[p] = at[p]
  <1>1. /\ pc[p] = "open" /\ arg' = arg /\ SameClient /\ reader' = reader /\ timeouts' = timeouts
              /\ crashes' = crashes
        /\ at' = at /\ local' = local /\ faults' = faults /\ manifests' = manifests /\ files' = files
              /\ artifact' = artifact
    BY DEF Open, client, bounds, SameClient, NewFile
  <1>2. CASE /\ breaks' = breaks /\ pc' = [pc EXCEPT ![p] = "copy"]
             /\ blob' = [blob EXCEPT ![arg[p].path] = <<>>]
    <2> DEFINE s == "copy"
               l == local[p]
               a == at[p]
    <2>1. s \in Steps /\ l \in Local /\ a \in Nat
      BY <1>1, Unchanged, LocalSet, StepNames
    <2>2. pc' = [pc EXCEPT ![p] = s] /\ local' = [local EXCEPT ![p] = l] /\ at' = [at EXCEPT ![p] = a]
      BY <1>1, <1>2, Unchanged, SlotTypes
    <2>3. faults' \in {faults, faults + 1} /\ breaks' \in {breaks, breaks + 1}
      BY <1>1, <1>2
    <2>4. arg' = arg /\ SameClient /\ reader' = reader /\ timeouts' = timeouts /\ crashes' = crashes
      BY <1>1
    <2> HIDE DEF s, l, a
    <2>5. Frame(p) /\ pc'[p] = s /\ local'[p] = l /\ at'[p] = a
      BY <2>1, <2>2, <2>3, <2>4, FrameOf
    <2> QED BY <1>1, <1>2, <2>5 DEF s, l, a, SameTables
  <1>3. CASE breaks' = breaks + 1 /\ pc' = [pc EXCEPT ![p] = "error"] /\ blob' = blob
    <2> DEFINE s == "error"
               l == local[p]
               a == at[p]
    <2>1. s \in Steps /\ l \in Local /\ a \in Nat
      BY <1>1, Unchanged, LocalSet, StepNames
    <2>2. pc' = [pc EXCEPT ![p] = s] /\ local' = [local EXCEPT ![p] = l] /\ at' = [at EXCEPT ![p] = a]
      BY <1>1, <1>3, Unchanged, SlotTypes
    <2>3. faults' \in {faults, faults + 1} /\ breaks' \in {breaks, breaks + 1}
      BY <1>1, <1>3
    <2>4. arg' = arg /\ SameClient /\ reader' = reader /\ timeouts' = timeouts /\ crashes' = crashes
      BY <1>1
    <2> HIDE DEF s, l, a
    <2>5. Frame(p) /\ pc'[p] = s /\ local'[p] = l /\ at'[p] = a
      BY <2>1, <2>2, <2>3, <2>4, FrameOf
    <2> QED BY <1>1, <1>3, <2>5 DEF s, l, a, SameTables
  <1> QED BY <1>1, <1>2, <1>3 DEF Open, Succeeds, Fails, Goto

LEMMA CopyFacts ==
    ASSUME TypeInv, NEW p \in Slots, Copy(p)
    PROVE  /\ pc[p] = "copy" /\ Frame(p)
           /\ \/ /\ faults' = faults /\ at[p] < Size /\ local'[p] = local[p] /\ at'[p] = at[p] + 1
                 /\ pc'[p] = (IF at[p] + 1 = Size THEN "ok" ELSE "copy")
                 /\ blob' = [blob EXCEPT ![arg[p].path] = Written(blob[arg[p].path], at[p] + 1)]
                 /\ manifests' = manifests /\ files' = files /\ artifact' = artifact
  <1>1. /\ pc[p] = "copy" /\ arg' = arg /\ SameClient /\ reader' = reader /\ timeouts' = timeouts
              /\ crashes' = crashes
        /\ local' = local /\ breaks' = breaks /\ faults' = faults /\ manifests' = manifests
              /\ files' = files /\ artifact' = artifact
    BY DEF Copy, client, bounds, SameClient, NewFile
  <1>2. CASE /\ at[p] < Size /\ at' = [at EXCEPT ![p] = @ + 1]
                   /\ blob' = [blob EXCEPT ![arg[p].path] = Written(@, at'[p])]
             /\ pc' = [pc EXCEPT ![p] = IF at'[p] = Size THEN "ok" ELSE "copy"]
    <2>a. at'[p] = at[p] + 1 /\ at[p] \in Nat
      BY <1>2, SlotTypes
    <2> DEFINE s == IF at[p] + 1 = Size THEN "ok" ELSE "copy"
               l == local[p]
               a == at[p] + 1
    <2>d. s \in Steps
      BY StepNames
    <2>e. l \in Local /\ a \in Nat
      BY <2>a, Unchanged
    <2>1. s \in Steps /\ l \in Local /\ a \in Nat
      BY <2>d, <2>e
    <2>2. pc' = [pc EXCEPT ![p] = s] /\ local' = [local EXCEPT ![p] = l] /\ at' = [at EXCEPT ![p] = a]
      BY <1>1, <1>2, <2>a, Unchanged, SlotTypes
    <2>3. faults' \in {faults, faults + 1} /\ breaks' \in {breaks, breaks + 1}
      BY <1>1, <1>2
    <2>4. arg' = arg /\ SameClient /\ reader' = reader /\ timeouts' = timeouts /\ crashes' = crashes
      BY <1>1
    <2> HIDE DEF s, l, a
    <2>5. Frame(p) /\ pc'[p] = s /\ local'[p] = l /\ at'[p] = a
      BY <2>1, <2>2, <2>3, <2>4, FrameOf
    <2> QED BY <1>1, <1>2, <2>a, <2>5 DEF s, l, a, SameTables
  <1> QED BY <1>1, <1>2 DEF Copy, Succeeds, Fails, Goto

LEMMA CopyBreaksFacts ==
    ASSUME TypeInv, NEW p \in Slots, CopyBreaks(p)
    PROVE  /\ pc[p] = "copy" /\ Frame(p)
           /\ \/ /\ pc'[p] = "error" /\ faults' = faults /\ SameTables /\ local'[p] = local[p]
                       /\ at'[p] = at[p]
  <1>1. /\ pc[p] = "copy" /\ arg' = arg /\ SameClient /\ reader' = reader /\ timeouts' = timeouts
              /\ crashes' = crashes
        /\ at' = at /\ local' = local /\ faults' = faults /\ SameTables /\ pc' = [pc EXCEPT ![p] = "error"]
    BY DEF CopyBreaks, Goto, client, SameClient, tables, SameTables
  <1>2. CASE breaks' \in {breaks, breaks + 1}
    <2> DEFINE s == "error"
               l == local[p]
               a == at[p]
    <2>1. s \in Steps /\ l \in Local /\ a \in Nat
      BY <1>1, Unchanged, LocalSet, StepNames
    <2>2. pc' = [pc EXCEPT ![p] = s] /\ local' = [local EXCEPT ![p] = l] /\ at' = [at EXCEPT ![p] = a]
      BY <1>1, <1>2, Unchanged, SlotTypes
    <2>3. faults' \in {faults, faults + 1} /\ breaks' \in {breaks, breaks + 1}
      BY <1>1, <1>2
    <2>4. arg' = arg /\ SameClient /\ reader' = reader /\ timeouts' = timeouts /\ crashes' = crashes
      BY <1>1
    <2> HIDE DEF s, l, a
    <2>5. Frame(p) /\ pc'[p] = s /\ local'[p] = l /\ at'[p] = a
      BY <2>1, <2>2, <2>3, <2>4, FrameOf
    <2> QED BY <1>1, <1>2, <2>5 DEF s, l, a, SameTables
  <1> QED BY <1>1, <1>2 DEF CopyBreaks, Succeeds, Fails, Goto

Freed(p) ==
    pc'[p] = "idle" /\ arg'[p] = None /\ at'[p] = 0 /\ local'[p] = Nothing /\ Others(p) /\ SlotsTyped

LEMMA FreeFacts ==
    ASSUME TypeInv, NEW p \in Slots, Free({p})
    PROVE  Freed(p)
  <1>1. Nothing \in Local
    BY DEF Nothing, Local
  <1>2. SlotsTyped
    BY <1>1, SlotTypes, StepNames DEF Free, SlotsTyped, Local
  <1>3. Others(p)
    BY SlotTypes DEF Free, Others
  <1> QED BY <1>2, <1>3 DEF Free, Freed

LEMMA UnheardFacts ==
    ASSUME TypeInv, NEW p \in Slots, Unheard(p)
    PROVE  /\ pc[p] \in {"ok", "error"} /\ p # awaited /\ Freed(p) /\ SameTables /\ SameClient
           /\ reader' = reader /\ timeouts' = timeouts /\ crashes' = crashes /\ faults' = faults
                 /\ breaks' = breaks
  BY FreeFacts DEF Unheard, tables, client, bounds, SameTables, SameClient

LEMMA FirstSteps ==
    ASSUME NEW op \in Ops
    PROVE  /\ op = "create" => FirstStep[op] = "insert manifest"
           /\ op = "files"  => FirstStep[op] = "insert files"
           /\ op = "update" => FirstStep[op] = "find manifest"
           /\ op = "put"    => FirstStep[op] = "open"
           /\ op = "commit" => FirstStep[op] = "count"
           /\ FirstStep[op] \in Working
  <1>1. /\ FirstStep["create"] = "insert manifest" /\ FirstStep["files"] = "insert files"
        /\ FirstStep["update"] = "find manifest" /\ FirstStep["put"] = "open" /\ FirstStep["commit"] = "count"
    BY DEF FirstStep
  <1> QED BY <1>1 DEF Ops, Working

LEMMA SendsFit ==
    ASSUME TypeInv, NEW r \in Sends
    PROVE  r \in Request /\ Fits(r) /\ (r.op = "put" => r.path \in Names)
  <1>1. phase \in Phases /\ held \in Nat
    BY DEF TypeInv, TypeOK
  <1> DEFINE c(u, f) == [op |-> "create", path |-> None, upload |-> u, final |-> f, manifest |-> 0]
  <1>2. CASE phase = "reserve"
    <2>1. PICK u \in BOOLEAN : r = [op |-> "create", path |-> None, upload |-> u, final |-> FALSE, manifest |-> 0]
      BY <1>2 DEF Sends, Plain
    <2> QED BY <1>2, <2>1 DEF Request, Ops, Fits
  <1>3. CASE phase = "files"
    <2>1. r = [op |-> "files", path |-> None, upload |-> FALSE, final |-> FALSE, manifest |-> 0]
      BY <1>3 DEF Sends, Plain
    <2> QED BY <1>3, <2>1 DEF Request, Ops, Fits
  <1>4. CASE phase = "puts"
    <2>1. r = [op |-> "put", path |-> Entries[Cardinality(answered) + 1], upload |-> FALSE, final |-> FALSE, manifest |-> 0]
      BY <1>4 DEF Sends, Plain
    <2>2. PICK n \in 0..Len(Entries) : n < Len(Entries) /\ answered = First(n) /\ Cardinality(answered) = n
      BY <1>4 DEF TypeInv, Progress
    <2>3. n + 1 \in 1..Len(Entries)
      BY <2>2, ConstantFacts
    <2>4. Entries[Cardinality(answered) + 1] \in Names
      BY <2>2, <2>3, ConstantFacts
    <2> QED BY <1>4, <2>1, <2>4 DEF Request, Ops, Fits
  <1>5. CASE phase = "finalize"
    <2>1. CASE r = [op |-> "create", path |-> None, upload |-> TRUE, final |-> TRUE, manifest |-> 0]
      BY <1>5, <2>1 DEF Request, Ops, Fits
    <2>2. CASE r = [op |-> "update", path |-> None, upload |-> FALSE, final |-> TRUE, manifest |-> held]
      BY <1>1, <1>5, <2>2 DEF Request, Ops, Fits
    <2> QED BY <1>5, <2>1, <2>2 DEF Sends, Plain
  <1>6. CASE phase = "manifest"
    <2>1. r = [op |-> "put", path |-> ManifestName, upload |-> FALSE, final |-> FALSE, manifest |-> 0]
      BY <1>6 DEF Sends, Plain
    <2> QED BY <1>6, <2>1, ConstantFacts DEF Request, Ops, Fits
  <1>7. CASE phase = "commit"
    <2>1. r = [op |-> "commit", path |-> None, upload |-> FALSE, final |-> FALSE, manifest |-> 0]
      BY <1>7 DEF Sends, Plain
    <2> QED BY <1>7, <2>1 DEF Request, Ops, Fits
  <1>8. CASE phase \in {"done", "failed"}
    BY <1>8 DEF Sends
  <1> QED BY <1>1, <1>2, <1>3, <1>4, <1>5, <1>6, <1>7, <1>8 DEF Phases

\* A request is sent, for the first time or again.
Sent(p, r) ==
    /\ awaited = None /\ pc[p] = "idle" /\ (request = None \/ request = r)
    /\ request' = r /\ awaited' = p
    /\ phase' = phase /\ held' = held /\ answered' = answered /\ gaveUp' = gaveUp
    /\ SameTables /\ reader' = reader
    /\ timeouts' = timeouts /\ crashes' = crashes /\ faults' = faults /\ breaks' = breaks
    /\ Fits(r) /\ (r.op = "put" => r.path \in Names)
    /\ pc'[p] = FirstStep[r.op] /\ arg'[p] = r /\ at'[p] = 0
    /\ local'[p] = [manifest |-> r.manifest, file |-> 0, count |-> 0]
    /\ Others(p) /\ SlotsTyped

LEMMA SendFacts ==
    ASSUME TypeInv, Send
    PROVE  \E p \in Slots, r \in Request : Sent(p, r)
  <1> DEFINE p == CHOOSE q \in Slots : pc[q] = "idle"
  <1>1. p \in Slots /\ pc[p] = "idle"
    BY DEF Send
  <1>2. PICK r : /\ r \in (IF request = None THEN Sends ELSE {request})
                 /\ request' = r /\ Deliver(p, r)
    BY DEF Send
  <1> HIDE DEF p
  <1>3. r \in Request /\ Fits(r) /\ (r.op = "put" => r.path \in Names)
    <2>1. CASE request = None
      BY <1>2, <2>1, SendsFit
    <2>2. CASE request # None
      <3>1. r = request /\ r \in Request /\ Fits(r)
        BY <1>2, <2>2 DEF TypeInv, TypeOK, Asked
      <3>2. ASSUME r.op = "put", phase = "puts" PROVE r.path \in Names
        <4>1. PICK n \in 0..Len(Entries) : n < Len(Entries) /\ answered = First(n)
                 /\ Cardinality(answered) = n
          BY <3>2 DEF TypeInv, Progress
        <4>2. n + 1 \in 1..Len(Entries)
          BY <4>1, ConstantFacts
        <4>3. r.path = Entries[n + 1]
          BY <3>1, <3>2, <4>1 DEF Fits
        <4> QED BY <4>2, <4>3, ConstantFacts
      <3> QED BY <3>1, <3>2, ConstantFacts DEF Fits
    <2> QED BY <2>1, <2>2
  <1>4. r.op \in Ops /\ FirstStep[r.op] \in Steps /\ r.manifest \in Nat
    BY <1>3, RequestFields, FirstSteps, StepNames
  <1>5. /\ pc' = [pc EXCEPT ![p] = FirstStep[r.op]] /\ arg' = [arg EXCEPT ![p] = r]
        /\ at' = [at EXCEPT ![p] = 0] /\ awaited' = p
        /\ local' = [local EXCEPT ![p] = [manifest |-> r.manifest, file |-> 0, count |-> 0]]
    <2>1. [Nothing EXCEPT !.manifest = r.manifest] = [manifest |-> r.manifest, file |-> 0, count |-> 0]
      BY DEF Nothing
    <2> QED BY <1>2, <2>1 DEF Deliver, Goto
  <1>6. SlotsTyped
    BY <1>1, <1>3, <1>4, <1>5, SlotTypes DEF SlotsTyped
  <1>7. Others(p)
    BY <1>1, <1>5, SlotTypes DEF Others
  <1>8. /\ awaited = None /\ phase' = phase /\ held' = held /\ answered' = answered /\ gaveUp' = gaveUp
        /\ SameTables /\ reader' = reader
        /\ timeouts' = timeouts /\ crashes' = crashes /\ faults' = faults /\ breaks' = breaks
    BY DEF Send, tables, bounds, SameTables
  <1>9. request = None \/ request = r
    BY <1>2
  <1>10. pc'[p] = FirstStep[r.op] /\ arg'[p] = r /\ at'[p] = 0
         /\ local'[p] = [manifest |-> r.manifest, file |-> 0, count |-> 0]
    BY <1>1, <1>5, SlotTypes
  <1>11. Sent(p, r)
    BY <1>1, <1>2, <1>3, <1>5, <1>6, <1>7, <1>8, <1>9, <1>10 DEF Sent
  <1> QED BY <1>1, <1>3, <1>11

LEMMA Awaited ==
    ASSUME TypeInv, awaited # None
    PROVE  /\ awaited \in Slots /\ request \in Request /\ request # None /\ Fits(request)
           /\ arg[awaited] = request /\ pc[awaited] # "idle"
  BY DEF TypeInv, TypeOK, Awaits, Asked

SameSlots == pc' = pc /\ arg' = arg /\ at' = at /\ local' = local

LEMMA TimeoutFacts ==
    ASSUME TypeInv, Timeout
    PROVE  /\ awaited # None /\ awaited' = None /\ request' = request
           /\ phase' = phase /\ held' = held /\ answered' = answered /\ SameTables /\ reader' = reader
           /\ timeouts' = timeouts + 1 /\ crashes' = crashes /\ faults' = faults /\ breaks' = breaks
           /\ \/ /\ pc[awaited] \in Working /\ SameSlots
                 /\ gaveUp' = gaveUp \cup {IF request.op = "put" THEN request.path ELSE request.op}
              \/ pc[awaited] \in {"ok", "error"} /\ Freed(awaited) /\ gaveUp' = gaveUp
  <1>1. pc[awaited] \in Steps /\ pc[awaited] # "idle" /\ awaited \in Slots
    BY Awaited, SlotTypes DEF Timeout
  <1>2. CASE pc[awaited] \in Working
    BY <1>2 DEF Timeout, SameSlots, slots, tables, SameTables
  <1>3. CASE pc[awaited] \notin Working
    <2>1. Freed(awaited) /\ gaveUp' = gaveUp
      BY <1>1, <1>3, FreeFacts DEF Timeout
    <2>2. pc[awaited] \in {"ok", "error"}
      BY <1>1, <1>3 DEF Steps
    <2> QED BY <2>1, <2>2 DEF Timeout, tables, SameTables
  <1> QED BY <1>2, <1>3

LEMMA AcceptedFacts ==
    ASSUME TypeInv, Accepted
    PROVE  /\ awaited # None /\ pc[awaited] = "ok" /\ Freed(awaited) /\ request' = None /\ awaited' = None
           /\ held' = (IF request.op \in {"create", "update"} THEN local[awaited].manifest ELSE held)
           /\ answered' = (IF request.op = "put" THEN answered \cup {request.path} ELSE answered)
           /\ phase # "puts" => phase' = NextPhase[phase]
           /\ phase = "puts" => phase' = (IF Range(Entries) \subseteq answered' THEN "finalize" ELSE "puts")
           /\ gaveUp' = gaveUp /\ SameTables /\ reader' = reader
           /\ timeouts' = timeouts /\ crashes' = crashes /\ faults' = faults /\ breaks' = breaks
  <1>1. Freed(awaited)
    BY Awaited, FreeFacts DEF Accepted
  <1> QED BY <1>1 DEF Accepted, tables, bounds, SameTables

LEMMA RefusedFacts ==
    ASSUME TypeInv, Refused
    PROVE  /\ awaited # None /\ pc[awaited] = "error" /\ Freed(awaited) /\ awaited' = None
           /\ request.op = "put" => phase' = phase /\ request' = request
           /\ request.op # "put" => phase' = "failed" /\ request' = None
           /\ held' = held /\ answered' = answered /\ gaveUp' = gaveUp /\ SameTables /\ reader' = reader
           /\ timeouts' = timeouts /\ crashes' = crashes /\ faults' = faults /\ breaks' = breaks
  <1>1. Freed(awaited)
    BY Awaited, FreeFacts DEF Refused
  <1> QED BY <1>1 DEF Refused, tables, bounds, SameTables

LEMMA CrashFacts ==
    ASSUME TypeInv, Crash
    PROVE  /\ \A p \in Slots : pc'[p] = "idle" /\ arg'[p] = None /\ at'[p] = 0 /\ local'[p] = Nothing
           /\ SlotsTyped /\ SameTables /\ awaited' = None /\ request' = request
           /\ phase' = phase /\ held' = held /\ answered' = answered /\ gaveUp' = gaveUp
           /\ crashes' = crashes + 1 /\ timeouts' = timeouts /\ faults' = faults /\ breaks' = breaks
           /\ \A d \in Readers : reader'[d] = (IF reader[d] # None /\ reader[d].state = "copying"
                                               THEN [reader[d] EXCEPT !.state = "broken"] ELSE reader[d])
           /\ reader' \in [Readers -> {None} \cup Download]
  <1>1. Nothing \in Local
    BY DEF Nothing, Local
  <1>2. Free(Slots)
    BY DEF Crash
  <1>3. SlotsTyped
    BY <1>1, <1>2, SlotTypes, StepNames DEF Free, SlotsTyped, Local
  <1>4. \A p \in Slots : pc'[p] = "idle" /\ arg'[p] = None /\ at'[p] = 0 /\ local'[p] = Nothing
    BY <1>2 DEF Free
  <1>5. reader \in [Readers -> {None} \cup Download]
    BY DEF TypeInv, TypeOK
  <1>6. \A r \in Download : [r EXCEPT !.state = "broken"] \in Download
    BY DEF Download
  <1>7. reader' = [d \in Readers |-> IF reader[d] # None /\ reader[d].state = "copying"
                                     THEN [reader[d] EXCEPT !.state = "broken"] ELSE reader[d]]
    BY DEF Crash
  <1>8. reader' \in [Readers -> {None} \cup Download]
    BY <1>5, <1>6, <1>7
  <1> QED BY <1>3, <1>4, <1>7, <1>8 DEF Crash, tables, SameTables

(***************************************************************************)
(* The tables.                                                             *)
(***************************************************************************)
TablesTyped ==
    /\ manifests' \in Seq(Manifest) /\ files' \in Seq(Names)
    /\ artifact' \in [committed: BOOLEAN, count: Nat]
    /\ blob' \in [Names -> {None} \cup Seq(BOOLEAN)]

\* Rows and files stay, and final manifests remain final.
Grows ==
    /\ DOMAIN manifests \subseteq DOMAIN manifests' /\ DOMAIN files \subseteq DOMAIN files'
    /\ \A m \in DOMAIN manifests : manifests[m].final => manifests'[m].final
    /\ \A i \in DOMAIN files : files'[i] = files[i]
    /\ \A f \in Names : blob[f] # None => blob'[f] # None

LEMMA SameGrows == ASSUME TypeInv, SameTables PROVE TablesTyped /\ Grows
  BY TableTypes DEF SameTables, TablesTyped, Grows

LEMMA ExceptFacts ==
    ASSUME NEW T, NEW s \in Seq(T), NEW n \in DOMAIN s, NEW x \in T
    PROVE  /\ [s EXCEPT ![n] = x] \in Seq(T) /\ DOMAIN [s EXCEPT ![n] = x] = DOMAIN s
           /\ Len([s EXCEPT ![n] = x]) = Len(s)
           /\ [s EXCEPT ![n] = x][n] = x
           /\ \A i \in DOMAIN s \ {n} : [s EXCEPT ![n] = x][i] = s[i]
  OBVIOUS

LEMMA WrittenType ==
    ASSUME NEW old \in Seq(BOOLEAN), NEW n \in Nat
    PROVE  Written(old, n) \in Seq(BOOLEAN)
  <1> DEFINE m == IF n > Len(old) THEN n ELSE Len(old)
             v(i) == i = n \/ (i <= Len(old) /\ old[i])
  <1>1. m \in Nat
    OBVIOUS
  <1>2. \A i \in 1..m : v(i) \in BOOLEAN
    OBVIOUS
  <1> HIDE DEF m, v
  <1>3. [i \in 1..m |-> v(i)] \in Seq(BOOLEAN)
    BY <1>1, <1>2
  <1> QED BY <1>3 DEF Written, m, v

LEMMA ManifestAppended ==
    ASSUME TypeInv, NEW x \in Manifest, manifests' = Append(manifests, x),
           files' = files, artifact' = artifact, blob' = blob
    PROVE  TablesTyped /\ Grows
  <1>1. manifests \in Seq(Manifest)
    BY TableTypes
  <1>2. /\ manifests' \in Seq(Manifest) /\ DOMAIN manifests \subseteq DOMAIN manifests'
        /\ \A m \in DOMAIN manifests : manifests'[m] = manifests[m]
    BY <1>1, AppendFacts
  <1> QED BY <1>2, TableTypes DEF TablesTyped, Grows

LEMMA ManifestChanged ==
    ASSUME TypeInv, NEW n \in DOMAIN manifests, NEW x \in Manifest, manifests' = [manifests EXCEPT ![n] = x],
           manifests[n].final => x.final, files' = files, artifact' = artifact, blob' = blob
    PROVE  TablesTyped /\ Grows
  <1>1. manifests \in Seq(Manifest)
    BY TableTypes
  <1>2. /\ manifests' \in Seq(Manifest) /\ DOMAIN manifests' = DOMAIN manifests /\ manifests'[n] = x
        /\ \A m \in DOMAIN manifests \ {n} : manifests'[m] = manifests[m]
    BY <1>1, ExceptFacts
  <1> QED BY <1>2, TableTypes DEF TablesTyped, Grows

LEMMA FileAppended ==
    ASSUME TypeInv, NEW f \in Names, files' = Append(files, f),
           manifests' = manifests, artifact' = artifact, blob' = blob
    PROVE  TablesTyped /\ Grows
  <1>1. files \in Seq(Names)
    BY TableTypes
  <1>2. /\ files' \in Seq(Names) /\ DOMAIN files \subseteq DOMAIN files'
        /\ \A i \in DOMAIN files : files'[i] = files[i]
    BY <1>1, AppendFacts
  <1> QED BY <1>2, TableTypes DEF TablesTyped, Grows

LEMMA BlobChanged ==
    ASSUME TypeInv, NEW f \in Names, NEW b \in Seq(BOOLEAN), blob' = [blob EXCEPT ![f] = b],
           manifests' = manifests, files' = files, artifact' = artifact
    PROVE  TablesTyped /\ Grows
  <1>1. blob' \in [Names -> {None} \cup Seq(BOOLEAN)]
    BY TableTypes
  <1>2. \A g \in Names : blob[g] # None => blob'[g] # None
    BY TableTypes, ConstantFacts
  <1> QED BY <1>1, <1>2, TableTypes DEF TablesTyped, Grows

LEMMA Element == ASSUME NEW T, NEW s \in Seq(T), NEW n \in DOMAIN s PROVE s[n] \in T
  OBVIOUS

\* The row a handler is about to change.
LEMMA OwnManifest ==
    ASSUME TypeInv, NEW p \in Slots, pc[p] \in {"insert file", "set file", "find manifest", "update file", "update manifest"}
    PROVE  local[p].manifest \in DOMAIN manifests /\ manifests[local[p].manifest] \in Manifest
  <1>1. local[p].manifest \in DOMAIN manifests
    BY DEF TypeInv, Handles
  <1>2. manifests \in Seq(Manifest)
    BY TableTypes
  <1> QED BY <1>1, <1>2, Element

LEMMA SetShape ==
    ASSUME TypeInv, NEW p \in Slots, pc[p] = "set file"
    PROVE  LET row == [manifests[local[p].manifest] EXCEPT !.file = local[p].file] IN
           /\ row \in Manifest /\ row.final = manifests[local[p].manifest].final /\ row.file = local[p].file
           /\ [manifests EXCEPT ![local[p].manifest].file = local[p].file] = [manifests EXCEPT ![local[p].manifest] = row]
  BY OwnManifest, Unchanged DEF Manifest

LEMMA UpdateShape ==
    ASSUME TypeInv, NEW p \in Slots
    PROVE  [final |-> TRUE, file |-> local[p].file] \in Manifest
  BY Unchanged DEF Manifest

LEMMA TablesStep ==
    ASSUME TypeInv, NEW p \in Slots, Step(p)
    PROVE  TablesTyped /\ Grows
  <1>1. CASE InsertManifest(p)
    BY <1>1, InsertManifestFacts, ManifestAppended, SameGrows DEF Failing
  <1>2. CASE InsertManifestFile(p)
    BY <1>2, InsertManifestFileFacts, FileAppended, SameGrows, ConstantFacts DEF Failing
  <1>3. CASE SetManifestFile(p)
    <2>1. pc[p] = "set file"
      BY <1>3, SetManifestFileFacts
    <2>2. local[p].manifest \in DOMAIN manifests
      BY <2>1, OwnManifest
    <2>3. CASE manifests' = [manifests EXCEPT ![local[p].manifest].file = local[p].file]
      BY <1>3, <2>1, <2>2, <2>3, SetManifestFileFacts, SetShape, ManifestChanged
    <2>4. CASE manifests' = manifests
      BY <1>3, <2>4, SetManifestFileFacts, SameGrows DEF SameTables
    <2> QED BY <1>3, <2>3, <2>4, SetManifestFileFacts
  <1>4. CASE InsertFile(p)
    BY <1>4, InsertFileFacts, FileAppended, SameGrows DEF Failing
  <1>5. CASE FindManifest(p)
    BY <1>5, FindManifestFacts, SameGrows DEF Failing
  <1>6. CASE ReplaceManifestFile(p)
    BY <1>6, ReplaceManifestFileFacts, FileAppended, SameGrows, ConstantFacts DEF Failing
  <1>7. CASE UpdateManifestDigest(p)
    <2>1. pc[p] = "update manifest"
      BY <1>7, UpdateManifestDigestFacts
    <2>2. local[p].manifest \in DOMAIN manifests
      BY <2>1, OwnManifest
    <2>3. CASE Failing(p)
      BY <2>3, SameGrows DEF Failing
    <2>4. CASE ~Failing(p)
      BY <1>7, <2>2, <2>4, UpdateManifestDigestFacts, UpdateShape, ManifestChanged
    <2> QED BY <2>3, <2>4
  <1>8. CASE CountFiles(p)
    BY <1>8, CountFilesFacts, SameGrows DEF Failing
  <1>9. CASE Commit(p)
    <2>1. CASE Failing(p)
      BY <2>1, SameGrows DEF Failing
    <2>2. CASE ~Failing(p)
      <3>1. /\ artifact' = [committed |-> TRUE, count |-> local[p].count]
            /\ manifests' = manifests /\ files' = files /\ blob' = blob
        BY <1>9, <2>2, CommitFacts
      <3>2. local[p].count \in Nat
        BY Unchanged
      <3> QED BY <3>1, <3>2, TableTypes DEF TablesTyped, Grows
    <2> QED BY <2>1, <2>2
  <1>10. CASE Open(p)
    <2>a. pc[p] = "open" /\ arg[p].op = "put"
      BY <1>10, OpenFacts DEF TypeInv, Handles
    <2>1. arg[p].path \in Names
      BY <2>a DEF TypeInv, Handles
    <2>b. <<>> \in Seq(BOOLEAN)
      OBVIOUS
    <2> QED BY <1>10, <2>1, <2>b, OpenFacts, BlobChanged, SameGrows
  <1>11. CASE Copy(p)
    <2>1. arg[p].op = "put" /\ blob[arg[p].path] # None
      BY <1>11, CopyFacts DEF TypeInv, Handles
    <2>2. arg[p].path \in Names
      BY <1>11, <2>1, CopyFacts DEF TypeInv, Handles
    <2>3. blob[arg[p].path] \in Seq(BOOLEAN) /\ at[p] + 1 \in Nat
      BY <2>1, <2>2, TableTypes, Unchanged
    <2>4. Written(blob[arg[p].path], at[p] + 1) \in Seq(BOOLEAN)
      BY <2>3, WrittenType
    <2> QED BY <1>11, <2>2, <2>4, CopyFacts, BlobChanged
  <1>12. CASE CopyBreaks(p)
    BY <1>12, CopyBreaksFacts, SameGrows
  <1>13. CASE Unheard(p)
    BY <1>13, UnheardFacts, SameGrows
  <1> QED BY <1>1, <1>2, <1>3, <1>4, <1>5, <1>6, <1>7, <1>8, <1>9, <1>10, <1>11, <1>12, <1>13 DEF Step

(***************************************************************************)
(* Types and control.                                                      *)
(***************************************************************************)
LEMMA HandlesOther ==
    ASSUME TypeInv, Grows, NEW q \in Slots,
           pc'[q] = pc[q], arg'[q] = arg[q], at'[q] = at[q], local'[q] = local[q]
    PROVE  Handles(q)'
  <1>1. Handles(q)
    BY DEF TypeInv
  <1> QED BY <1>1 DEF Handles, Grows

LEMMA HandlesFree ==
    ASSUME NEW q \in Slots, pc'[q] = "idle"
    PROVE  Handles(q)'
  BY DEF Handles

LEMMA HandlesError ==
    ASSUME TypeInv, Grows, NEW p \in Slots, pc[p] # "idle", pc'[p] = "error",
           arg'[p] = arg[p], at'[p] = at[p], local'[p] = local[p]
    PROVE  Handles(p)'
  <1>1. Handles(p)
    BY DEF TypeInv
  <1> QED BY <1>1 DEF Handles, Grows

\* The statements of the mutations.
LEMMA HandlesRow ==
    ASSUME TypeInv, NEW p \in Slots,
           \/ InsertManifest(p) \/ InsertManifestFile(p) \/ SetManifestFile(p) \/ InsertFile(p)
           \/ FindManifest(p) \/ ReplaceManifestFile(p) \/ UpdateManifestDigest(p) \/ CountFiles(p) \/ Commit(p)
    PROVE  Handles(p)'
  <1>1. Grows /\ Handles(p) /\ local[p] \in Local /\ at[p] \in Nat
    BY TablesStep, Unchanged DEF Step, TypeInv
  <1>2. CASE InsertManifest(p)
    <2>1. CASE Failing(p)
      BY <1>1, <1>2, <2>1, InsertManifestFacts, HandlesError DEF Failing, Frame
    <2>2. CASE ~Failing(p)
      <3>1. /\ pc[p] = "insert manifest" /\ arg'[p] = arg[p]
            /\ manifests' = Append(manifests, [final |-> arg[p].final, file |-> 0])
            /\ [final |-> arg[p].final, file |-> 0] \in Manifest
            /\ local'[p].manifest = Len(manifests) + 1 /\ at'[p] = at[p]
            /\ pc'[p] = (IF arg[p].upload THEN "insert file" ELSE "ok")
        BY <1>2, <2>2, InsertManifestFacts DEF Frame
      <3> DEFINE row == [final |-> arg[p].final, file |-> 0]
      <3>2. manifests \in Seq(Manifest) /\ row \in Manifest /\ manifests' = Append(manifests, row)
        BY <3>1, TableTypes
      <3> HIDE DEF row
      <3>3. Len(manifests) + 1 \in DOMAIN manifests'
        BY <3>2, AppendFacts
      <3>4. local'[p].manifest \in DOMAIN manifests'
        BY <3>1, <3>3
      <3> QED BY <1>1, <3>1, <3>4 DEF Handles
    <2> QED BY <2>1, <2>2
  <1>3. CASE InsertManifestFile(p)
    <2>1. CASE Failing(p)
      BY <1>1, <1>3, <2>1, InsertManifestFileFacts, HandlesError DEF Failing, Frame
    <2>2. CASE ~Failing(p)
      <3>1. /\ pc[p] = "insert file" /\ arg'[p] = arg[p] /\ pc'[p] = "set file"
            /\ local'[p].manifest = local[p].manifest /\ at'[p] = at[p]
        BY <1>3, <2>2, InsertManifestFileFacts DEF Frame
      <3> QED BY <1>1, <3>1 DEF Handles, Grows
    <2> QED BY <2>1, <2>2
  <1>4. CASE SetManifestFile(p)
    <2>1. /\ pc[p] = "set file" /\ arg'[p] = arg[p] /\ pc'[p] = "ok" /\ local'[p] = local[p] /\ at'[p] = at[p]
      BY <1>4, SetManifestFileFacts DEF Frame
    <2> QED BY <1>1, <2>1 DEF Handles, Grows
  <1>5. CASE InsertFile(p)
    <2>1. CASE Failing(p)
      BY <1>1, <1>5, <2>1, InsertFileFacts, HandlesError DEF Failing, Frame
    <2>2. CASE ~Failing(p)
      <3>1. /\ pc[p] = "insert files" /\ arg'[p] = arg[p] /\ local'[p] = local[p] /\ at'[p] = at[p] + 1
            /\ pc'[p] = (IF at[p] + 1 = Len(Entries) THEN "ok" ELSE "insert files")
        BY <1>5, <2>2, InsertFileFacts DEF Frame
      <3>2. arg[p].op = "files" /\ at[p] < Len(Entries) /\ Len(Entries) \in Nat /\ arg[p] \in Request
        BY <1>1, <3>1, ConstantFacts DEF Handles
      <3>3. at'[p] <= Len(Entries) /\ (pc'[p] = "insert files" => at'[p] < Len(Entries))
        BY <1>1, <3>1, <3>2, NextOf
      <3> QED BY <3>1, <3>2, <3>3 DEF Handles
    <2> QED BY <2>1, <2>2
  <1>6. CASE FindManifest(p)
    <2>1. CASE Failing(p)
      BY <1>1, <1>6, <2>1, FindManifestFacts, HandlesError DEF Failing, Frame
    <2>2. CASE ~Failing(p)
      <3>1. /\ pc[p] = "find manifest" /\ arg'[p] = arg[p] /\ pc'[p] \in {"update file", "update manifest"}
            /\ local'[p].manifest = local[p].manifest /\ at'[p] = at[p]
        BY <1>6, <2>2, FindManifestFacts DEF Frame
      <3> QED BY <1>1, <3>1 DEF Handles, Grows
    <2> QED BY <2>1, <2>2
  <1>7. CASE ReplaceManifestFile(p)
    <2>1. CASE Failing(p)
      BY <1>1, <1>7, <2>1, ReplaceManifestFileFacts, HandlesError DEF Failing, Frame
    <2>2. CASE ~Failing(p)
      <3>1. /\ pc[p] = "update file" /\ arg'[p] = arg[p] /\ pc'[p] = "update manifest"
            /\ local'[p].manifest = local[p].manifest /\ at'[p] = at[p]
        BY <1>7, <2>2, ReplaceManifestFileFacts DEF Frame
      <3> QED BY <1>1, <3>1 DEF Handles, Grows
    <2> QED BY <2>1, <2>2
  <1>8. CASE UpdateManifestDigest(p)
    <2>1. CASE Failing(p)
      BY <1>1, <1>8, <2>1, UpdateManifestDigestFacts, HandlesError DEF Failing, Frame
    <2>2. CASE ~Failing(p)
      <3>1. /\ pc[p] = "update manifest" /\ arg'[p] = arg[p] /\ pc'[p] \in {"ok", "error"}
            /\ local'[p] = local[p] /\ at'[p] = at[p]
        BY <1>8, <2>2, UpdateManifestDigestFacts DEF Frame
      <3>2. CASE pc'[p] = "ok"
        BY <1>1, <3>1, <3>2 DEF Handles, Grows
      <3>3. CASE pc'[p] = "error"
        BY <1>1, <3>1, <3>3, HandlesError
      <3> QED BY <3>1, <3>2, <3>3
    <2> QED BY <2>1, <2>2
  <1>9. CASE CountFiles(p)
    <2>1. CASE Failing(p)
      BY <1>1, <1>9, <2>1, CountFilesFacts, HandlesError DEF Failing, Frame
    <2>2. CASE ~Failing(p)
      <3>1. pc[p] = "count" /\ arg'[p] = arg[p] /\ pc'[p] = "commit" /\ at'[p] = at[p]
        BY <1>9, <2>2, CountFilesFacts DEF Frame
      <3> QED BY <1>1, <3>1 DEF Handles
    <2> QED BY <2>1, <2>2
  <1>10. CASE Commit(p)
    <2>1. CASE Failing(p)
      BY <1>1, <1>10, <2>1, CommitFacts, HandlesError DEF Failing, Frame
    <2>2. CASE ~Failing(p)
      <3>1. pc[p] = "commit" /\ arg'[p] = arg[p] /\ pc'[p] = "ok" /\ at'[p] = at[p]
        BY <1>10, <2>2, CommitFacts DEF Frame
      <3> QED BY <1>1, <3>1 DEF Handles
    <2> QED BY <2>1, <2>2
  <1> QED BY <1>2, <1>3, <1>4, <1>5, <1>6, <1>7, <1>8, <1>9, <1>10

\* The calls of a PUT, and the end of a handler.
LEMMA HandlesFile ==
    ASSUME TypeInv, NEW p \in Slots, Open(p) \/ Copy(p) \/ CopyBreaks(p) \/ Unheard(p)
    PROVE  Handles(p)'
  <1>1. Grows /\ Handles(p) /\ local[p] \in Local /\ at[p] \in Nat
    BY TablesStep, Unchanged DEF Step, TypeInv
  <1>2. CASE Open(p)
    <2>1. CASE pc'[p] = "error"
      BY <1>1, <1>2, <2>1, OpenFacts, HandlesError DEF Frame
    <2>2. CASE pc'[p] # "error"
      <3>1. /\ pc[p] = "open" /\ arg'[p] = arg[p] /\ pc'[p] = "copy" /\ at'[p] = at[p]
            /\ blob' = [blob EXCEPT ![arg[p].path] = <<>>]
        BY <1>2, <2>2, OpenFacts DEF Frame
      <3>2. arg[p].op = "put" /\ at[p] = 0 /\ arg[p] \in Request
        BY <1>1, <3>1 DEF Handles
      <3>3. arg[p].path \in Names
        BY <1>1, <3>1, <3>2 DEF Handles
      <3>4. blob'[arg[p].path] = <<>> /\ <<>> \in Seq(BOOLEAN)
        BY <3>1, <3>3, TableTypes
      <3>5. blob'[arg[p].path] # None
        BY <3>4, ConstantFacts
      <3>6. at[p] < Size
        BY <3>2, ConstantFacts
      <3> QED BY <3>1, <3>2, <3>3, <3>5, <3>6 DEF Handles
    <2> QED BY <2>1, <2>2
  <1>3. CASE Copy(p)
    <2>1. /\ pc[p] = "copy" /\ arg'[p] = arg[p] /\ at[p] < Size /\ at'[p] = at[p] + 1
          /\ pc'[p] = (IF at[p] + 1 = Size THEN "ok" ELSE "copy")
      BY <1>3, CopyFacts DEF Frame
    <2>2. arg[p].op = "put" /\ arg[p] \in Request /\ blob[arg[p].path] # None
      BY <1>1, <2>1 DEF Handles
    <2>3. arg[p].path \in Names
      BY <1>1, <2>1, <2>2 DEF Handles
    <2>4. blob'[arg[p].path] # None
      BY <1>1, <2>2, <2>3 DEF Grows
    <2>5. pc'[p] = "copy" => at'[p] < Size
      BY <1>1, <2>1, NextOf, ConstantFacts
    <2> QED BY <2>1, <2>2, <2>3, <2>4, <2>5 DEF Handles
  <1>4. CASE CopyBreaks(p)
    BY <1>1, <1>4, CopyBreaksFacts, HandlesError DEF Frame
  <1>5. CASE Unheard(p)
    BY <1>5, UnheardFacts, HandlesFree DEF Freed
  <1> QED BY <1>2, <1>3, <1>4, <1>5

LEMMA HandlesStep ==
    ASSUME TypeInv, NEW p \in Slots, Step(p), NEW q \in Slots
    PROVE  Handles(q)'
  <1>1. CASE q = p
    BY <1>1, HandlesRow, HandlesFile DEF Step
  <1>2. CASE q # p
    <2>1. Others(p)
      BY InsertManifestFacts, InsertManifestFileFacts, SetManifestFileFacts, InsertFileFacts,
         FindManifestFacts,
         ReplaceManifestFileFacts, UpdateManifestDigestFacts, CountFilesFacts, CommitFacts, OpenFacts, CopyFacts,
         CopyBreaksFacts, UnheardFacts DEF Step, Frame, Freed
    <2> QED BY <1>2, <2>1, TablesStep, HandlesOther DEF Others
  <1> QED BY <1>1, <1>2

LEMMA StepClient ==
    ASSUME TypeInv, NEW p \in Slots, Step(p)
    PROVE  /\ SameClient /\ SlotsTyped /\ Others(p) /\ reader' = reader
           /\ timeouts' = timeouts /\ crashes' = crashes /\ faults' \in Nat /\ faults' >= faults
                 /\ breaks' \in Nat
           /\ pc[p] # "idle"
           /\ \/ Unheard(p)
              \/ pc[p] \in Working /\ pc'[p] # "idle" /\ arg'[p] = arg[p]
  <1>1. CASE Unheard(p)
    BY <1>1, UnheardFacts, SlotTypes DEF Freed
  <1>2. CASE \/ InsertManifest(p) \/ InsertManifestFile(p) \/ SetManifestFile(p) \/ InsertFile(p)
             \/ FindManifest(p) \/ ReplaceManifestFile(p) \/ UpdateManifestDigest(p) \/ CountFiles(p) \/ Commit(p)
             \/ Open(p) \/ Copy(p) \/ CopyBreaks(p)
    <2>1. Frame(p)
      BY <1>2, InsertManifestFacts, InsertManifestFileFacts, SetManifestFileFacts, InsertFileFacts,
         FindManifestFacts,
         ReplaceManifestFileFacts, UpdateManifestDigestFacts, CountFilesFacts, CommitFacts, OpenFacts, CopyFacts,
         CopyBreaksFacts
    <2>2. pc[p] \in Working
      BY <1>2, InsertManifestFacts, InsertManifestFileFacts, SetManifestFileFacts, InsertFileFacts,
         FindManifestFacts,
         ReplaceManifestFileFacts, UpdateManifestDigestFacts, CountFilesFacts, CommitFacts, OpenFacts, CopyFacts,
         CopyBreaksFacts DEF Working
    <2>3. pc'[p] # "idle"
      <3>1. CASE InsertManifest(p) \/ InsertManifestFile(p) \/ SetManifestFile(p) \/ InsertFile(p)
        BY <3>1, InsertManifestFacts, InsertManifestFileFacts, SetManifestFileFacts, InsertFileFacts DEF Failing
      <3>2. CASE FindManifest(p) \/ ReplaceManifestFile(p) \/ UpdateManifestDigest(p) \/ CountFiles(p)
        BY <3>2, FindManifestFacts, ReplaceManifestFileFacts, UpdateManifestDigestFacts, CountFilesFacts DEF Failing
      <3>3. CASE Commit(p) \/ Open(p) \/ Copy(p) \/ CopyBreaks(p)
        BY <3>3, CommitFacts, OpenFacts, CopyFacts, CopyBreaksFacts DEF Failing
      <3> QED BY <1>2, <3>1, <3>2, <3>3
    <2> QED BY <2>1, <2>2, <2>3, StepNames DEF Frame
  <1> QED BY <1>1, <1>2 DEF Step

LEMMA ClientTypes ==
    ASSUME TypeInv
    PROVE  /\ phase \in Phases /\ request \in {None} \cup Request /\ awaited \in {None} \cup Slots
           /\ held \in Nat /\ answered \subseteq Names /\ gaveUp \subseteq Names \cup Ops
           /\ reader \in [Readers -> {None} \cup Download]
  BY DEF TypeInv, TypeOK

LEMMA ProgressGrows ==
    ASSUME TypeInv, Grows, phase' = phase, answered' = answered, held' = held
    PROVE  Progress'
  BY DEF TypeInv, Progress, Grows, First

LEMMA ReadsGrow ==
    ASSUME TypeInv, Grows, reader' = reader
    PROVE  Reads'
  <1> SUFFICES ASSUME NEW d \in Readers, reader[d] # None PROVE blob'[reader[d].path] # None
    BY DEF Reads
  <1>1. reader[d] \in Download /\ blob[reader[d].path] # None
    BY ClientTypes DEF TypeInv, Reads
  <1>2. reader[d].path \in Names
    BY <1>1 DEF Download
  <1> QED BY <1>1, <1>2 DEF Grows

LEMMA TypeStep == ASSUME TypeInv, NEW p \in Slots, Step(p) PROVE TypeInv'
  <1>1. TypeOK'
    <2>1. TablesTyped
      BY TablesStep
    <2>2. SlotsTyped
      BY StepClient
    <2>3. SameClient /\ reader' = reader
      BY StepClient
    <2>4. timeouts' \in Nat /\ crashes' \in Nat /\ faults' \in Nat /\ breaks' \in Nat
      BY StepClient, SlotTypes
    <2> QED BY <2>1, <2>2, <2>3, <2>4, ClientTypes DEF TypeOK, TablesTyped, SlotsTyped, SameClient
  <1>2. \A q \in Slots : Handles(q)'
    BY HandlesStep
  <1>3. SameClient
    BY StepClient
  <1>4. Asked'
    BY <1>3 DEF SameClient, TypeInv, Asked, Fits
  <1>5. Awaits'
    <2>1. \/ p # awaited
          \/ pc'[p] # "idle" /\ arg'[p] = arg[p]
      BY StepClient, UnheardFacts
    <2>2. Others(p)
      BY StepClient
    <2>3. CASE awaited = None
      BY <1>3, <2>3 DEF SameClient, Awaits
    <2>4. CASE awaited # None
      BY <1>3, <2>1, <2>2, <2>4, Awaited DEF SameClient, Awaits, Others
    <2> QED BY <2>3, <2>4
  <1>6. Progress'
    BY <1>3, TablesStep, ProgressGrows DEF SameClient
  <1>7. Reads'
    BY TablesStep, StepClient, ReadsGrow
  <1> QED BY <1>1, <1>2, <1>4, <1>5, <1>6, <1>7 DEF TypeInv

LEMMA TypeSend == ASSUME TypeInv, Send PROVE TypeInv'
  <1>1. PICK p \in Slots, r \in Request : Sent(p, r)
    BY SendFacts
  <1>2. TablesTyped /\ Grows
    BY <1>1, SameGrows DEF Sent
  <1>3. TypeOK'
    <2>1. SlotsTyped
      BY <1>1 DEF Sent
    <2>2. /\ phase' = phase /\ request' = r /\ awaited' = p /\ held' = held /\ answered' = answered
          /\ gaveUp' = gaveUp /\ reader' = reader
          /\ timeouts' = timeouts /\ crashes' = crashes /\ faults' = faults /\ breaks' = breaks
      BY <1>1 DEF Sent
    <2> QED BY <1>2, <2>1, <2>2, ClientTypes, SlotTypes DEF TypeOK, TablesTyped, SlotsTyped
  <1>4. r \in Request /\ r # None /\ r.op \in Ops
    BY <1>1, RequestFields
  <1>5. \A q \in Slots : Handles(q)'
    <2>1. TAKE q \in Slots
    <2>2. CASE q # p
      BY <1>1, <1>2, <2>2, HandlesOther DEF Sent, Others
    <2>3. CASE q = p
      <3>1. /\ pc'[p] = FirstStep[r.op] /\ arg'[p] = r /\ at'[p] = 0 /\ local'[p].manifest = r.manifest
            /\ (r.op = "put" => r.path \in Names) /\ Fits(r)
        BY <1>1 DEF Sent
      <3>2. manifests' = manifests /\ (r.op = "update" => r.manifest \in DOMAIN manifests)
        BY <1>1, <3>1 DEF Sent, SameTables, Fits, TypeInv, Progress
      <3>3. 0 < Len(Entries)
        BY ConstantFacts
      <3>4. CASE r.op = "create"
        BY <1>4, <2>3, <3>1, <3>4, FirstSteps DEF Handles
      <3>5. CASE r.op = "files"
        <4>1. 0 <= Len(Entries)
          BY ConstantFacts
        <4> QED BY <1>4, <2>3, <3>1, <3>3, <3>5, <4>1, FirstSteps DEF Handles
      <3>6. CASE r.op = "update"
        BY <1>4, <2>3, <3>1, <3>2, <3>6, FirstSteps DEF Handles
      <3>7. CASE r.op = "put"
        BY <1>4, <2>3, <3>1, <3>7, FirstSteps DEF Handles
      <3>8. CASE r.op = "commit"
        BY <1>4, <2>3, <3>1, <3>8, FirstSteps DEF Handles
      <3> QED BY <1>4, <2>3, <3>4, <3>5, <3>6, <3>7, <3>8 DEF Ops
    <2> QED BY <2>2, <2>3
  <1>6. Asked'
    BY <1>1 DEF Sent, Asked, Fits
  <1>7. Awaits'
    <2>1. pc'[p] # "idle"
      BY <1>1, <1>4, FirstSteps, StepNames DEF Sent
    <2> QED BY <1>1, <1>4, <2>1 DEF Sent, Awaits
  <1>8. Progress' /\ Reads'
    BY <1>1, <1>2, ProgressGrows, ReadsGrow DEF Sent
  <1> QED BY <1>3, <1>5, <1>6, <1>7, <1>8 DEF TypeInv

LEMMA FreedHandles ==
    ASSUME TypeInv, NEW p \in Slots, Freed(p), SameTables
    PROVE  \A q \in Slots : Handles(q)'
  <1>1. TAKE q \in Slots
  <1>2. CASE q = p
    BY <1>2, HandlesFree DEF Freed
  <1>3. CASE q # p
    BY <1>3, SameGrows, HandlesOther DEF Freed, Others
  <1> QED BY <1>2, <1>3

LEMMA TypeTimeout == ASSUME TypeInv, Timeout PROVE TypeInv'
  <1>1. /\ phase' = phase /\ request' = request /\ awaited' = None /\ held' = held /\ answered' = answered
        /\ SameTables /\ reader' = reader
    BY TimeoutFacts
  <1>2. TablesTyped /\ Grows
    BY <1>1, SameGrows
  <1>3. awaited \in Slots /\ request \in Request
    BY TimeoutFacts, Awaited
  <1>4. SlotsTyped /\ \A q \in Slots : Handles(q)'
    <2>1. CASE SameSlots
      BY <1>2, <2>1, SlotTypes, HandlesOther DEF SameSlots, SlotsTyped
    <2>2. CASE Freed(awaited)
      BY <1>1, <1>3, <2>2, FreedHandles DEF Freed
    <2> QED BY <2>1, <2>2, TimeoutFacts
  <1>5. gaveUp' \subseteq Names \cup Ops
    <2>1. (IF request.op = "put" THEN request.path ELSE request.op) \in Names \cup Ops
      <3>1. arg[awaited] = request /\ pc[awaited] # "idle" /\ request.op \in Ops
        BY <1>3, TimeoutFacts, Awaited, RequestFields
      <3>2. request.op = "put" => request.path \in Names
        BY <1>3, <3>1 DEF TypeInv, Handles
      <3> QED BY <3>1, <3>2
    <2> QED BY <2>1, ClientTypes, TimeoutFacts
  <1>6. TypeOK'
    <2>1. timeouts' \in Nat /\ crashes' \in Nat /\ faults' \in Nat /\ breaks' \in Nat
      BY SlotTypes, TimeoutFacts
    <2> QED BY <1>1, <1>2, <1>4, <1>5, <2>1, ClientTypes DEF TypeOK, TablesTyped, SlotsTyped
  <1>7. Asked' /\ Awaits'
    BY <1>1 DEF Asked, Fits, Awaits, TypeInv
  <1>8. Progress' /\ Reads'
    BY <1>1, <1>2, ProgressGrows, ReadsGrow
  <1> QED BY <1>4, <1>6, <1>7, <1>8 DEF TypeInv

LEMMA TypeRefused == ASSUME TypeInv, Refused PROVE TypeInv'
  <1>1. /\ awaited' = None /\ held' = held /\ answered' = answered /\ gaveUp' = gaveUp /\ SameTables
              /\ reader' = reader
        /\ \/ phase' = phase /\ request' = request
           \/ phase' = "failed" /\ request' = None
        /\ Freed(awaited) /\ awaited # None
    BY RefusedFacts
  <1>2. TablesTyped /\ Grows
    BY <1>1, SameGrows
  <1>3. awaited \in Slots
    BY <1>1, Awaited
  <1>4. SlotsTyped /\ \A q \in Slots : Handles(q)'
    BY <1>1, <1>3, FreedHandles DEF Freed
  <1>5. TypeOK'
    <2>1. timeouts' \in Nat /\ crashes' \in Nat /\ faults' \in Nat /\ breaks' \in Nat
      BY SlotTypes, RefusedFacts
    <2>2. phase' \in Phases /\ request' \in {None} \cup Request
      BY <1>1, ClientTypes DEF Phases
    <2> QED BY <1>1, <1>2, <1>4, <2>1, <2>2, ClientTypes DEF TypeOK, TablesTyped, SlotsTyped
  <1>6. Asked' /\ Awaits'
    BY <1>1 DEF Asked, Fits, Awaits, TypeInv
  <1>7. Progress'
    <2>1. CASE phase' = phase
      BY <1>1, <1>2, <2>1, ProgressGrows
    <2>2. CASE phase' = "failed"
      BY <2>2 DEF Progress
    <2> QED BY <1>1, <2>1, <2>2
  <1>8. Reads'
    BY <1>1, <1>2, ReadsGrow
  <1> QED BY <1>4, <1>5, <1>6, <1>7, <1>8 DEF TypeInv

LEMMA TypeCrash == ASSUME TypeInv, Crash PROVE TypeInv'
  <1>1. /\ phase' = phase /\ request' = request /\ awaited' = None /\ held' = held /\ answered' = answered
        /\ gaveUp' = gaveUp /\ SameTables
    BY CrashFacts
  <1>2. TablesTyped /\ Grows
    BY <1>1, SameGrows
  <1>3. SlotsTyped /\ \A q \in Slots : Handles(q)'
    BY CrashFacts, HandlesFree
  <1>4. TypeOK'
    <2>1. timeouts' \in Nat /\ crashes' \in Nat /\ faults' \in Nat /\ breaks' \in Nat
      BY SlotTypes, CrashFacts
    <2>2. reader' \in [Readers -> {None} \cup Download]
      BY CrashFacts
    <2> QED BY <1>1, <1>2, <1>3, <2>1, <2>2, ClientTypes DEF TypeOK, TablesTyped, SlotsTyped
  <1>5. Asked' /\ Awaits'
    BY <1>1 DEF Asked, Fits, Awaits, TypeInv
  <1>6. Progress'
    BY <1>1, <1>2, ProgressGrows
  <1>7. Reads'
    <2> SUFFICES ASSUME NEW d \in Readers, reader'[d] # None PROVE blob'[reader'[d].path] # None
      BY DEF Reads
    <2>1. reader'[d] = (IF reader[d] # None /\ reader[d].state = "copying"
                        THEN [reader[d] EXCEPT !.state = "broken"] ELSE reader[d])
      BY CrashFacts
    <2>2. reader[d] # None
      BY <2>1
    <2>3. reader[d] \in Download
      BY <2>2, ClientTypes
    <2>4. reader'[d].path = reader[d].path
      BY <2>1, <2>3 DEF Download
    <2> QED BY <1>1, <2>2, <2>4 DEF TypeInv, Reads, SameTables
  <1> QED BY <1>3, <1>4, <1>5, <1>6, <1>7 DEF TypeInv

LEMMA NextPhases ==
    /\ NextPhase["reserve"] = "files" /\ NextPhase["files"] = "puts" /\ NextPhase["finalize"] = "manifest"
    /\ NextPhase["manifest"] = "commit" /\ NextPhase["commit"] = "done"
  BY DEF NextPhase

\* How far an accepted request brings the client.
LEMMA AcceptedPhase ==
    ASSUME TypeInv, Accepted
    PROVE  /\ request.op = "create" =>
                 /\ \/ phase = "reserve" /\ phase' = "files"
                    \/ phase = "finalize" /\ phase' = "manifest" /\ request.upload /\ request.final
                 /\ held' = local[awaited].manifest /\ held' \in DOMAIN manifests /\ answered' = answered
           /\ request.op = "files" => phase = "files" /\ phase' = "puts" /\ held' = held
                 /\ answered' = answered
           /\ request.op = "update" =>
                 phase = "finalize" /\ phase' = "manifest" /\ held' = held /\ answered' = answered
                 /\ request.manifest = held
           /\ request.op = "put" =>
                 /\ held' = held /\ answered' = answered \cup {request.path}
                 /\ \/ phase = "puts" /\ phase' \in {"puts", "finalize"}
                    \/ phase = "manifest" /\ phase' = "commit" /\ request.path = ManifestName
           /\ request.op = "commit" => phase = "commit" /\ phase' = "done" /\ held' = held
                 /\ answered' = answered
           /\ request.op \in Ops /\ phase' \in Phases /\ request # None
  <1>1. /\ awaited \in Slots /\ request \in Request /\ request # None /\ Fits(request) /\ request.op \in Ops
        /\ arg[awaited] = request /\ pc[awaited] = "ok" /\ awaited # None
    BY AcceptedFacts, Awaited, RequestFields
  <1>2. phase # "puts" => phase' = NextPhase[phase]
    BY AcceptedFacts
  <1>3. CASE request.op = "create"
    <2>1. local[awaited].manifest \in DOMAIN manifests
      BY <1>1, <1>3 DEF TypeInv, Handles
    <2>2. held' = local[awaited].manifest /\ answered' = answered
      BY <1>3, AcceptedFacts
    <2> QED BY <1>1, <1>2, <1>3, <2>1, <2>2, NextPhases DEF Fits, Phases
  <1>4. CASE request.op = "files"
    <2>1. held' = held /\ answered' = answered
      BY <1>4, AcceptedFacts
    <2> QED BY <1>1, <1>2, <1>4, <2>1, NextPhases DEF Fits, Phases
  <1>5. CASE request.op = "update"
    <2>1. local[awaited].manifest = request.manifest
      BY <1>1, <1>5 DEF TypeInv, Handles
    <2>2. held' = local[awaited].manifest /\ answered' = answered
      BY <1>5, AcceptedFacts
    <2> QED BY <1>1, <1>2, <1>5, <2>1, <2>2, NextPhases DEF Fits, Phases
  <1>6. CASE request.op = "put"
    <2>1. held' = held /\ answered' = answered \cup {request.path}
      BY <1>6, AcceptedFacts
    <2>2. CASE phase = "puts"
      BY <1>1, <1>6, <2>1, <2>2, AcceptedFacts DEF Phases
    <2>3. CASE phase # "puts"
      BY <1>1, <1>2, <1>6, <2>1, <2>3, NextPhases DEF Fits, Phases
    <2> QED BY <2>2, <2>3
  <1>7. CASE request.op = "commit"
    <2>1. held' = held /\ answered' = answered
      BY <1>7, AcceptedFacts
    <2> QED BY <1>1, <1>2, <1>7, <2>1, NextPhases DEF Fits, Phases
  <1> QED BY <1>1, <1>3, <1>4, <1>5, <1>6, <1>7 DEF Ops

LEMMA FirstNone == First(0) = {} /\ Cardinality({}) = 0 /\ IsFiniteSet({})
  BY FS_EmptySet DEF First

LEMMA FirstAll == First(Len(Entries)) = Range(Entries)
  BY ConstantFacts DEF First

\* One more entry.
LEMMA FirstMore ==
    ASSUME NEW n \in 0..Len(Entries), n < Len(Entries)
    PROVE  /\ n + 1 \in 1..Len(Entries) /\ n + 1 \in 0..Len(Entries)
           /\ First(n + 1) = First(n) \cup {Entries[n + 1]} /\ Entries[n + 1] \notin First(n)
           /\ First(n) \subseteq Range(Entries)
  <1>1. n \in Nat /\ n + 1 \in 1..Len(Entries) /\ n + 1 \in 0..Len(Entries)
    BY ConstantFacts
  <1>2. 1..(n + 1) = 1..n \cup {n + 1}
    BY <1>1
  <1>3. First(n + 1) = First(n) \cup {Entries[n + 1]}
    BY <1>2 DEF First
  <1>4. \A i \in 1..n : i \in 1..Len(Entries) /\ i # n + 1
    BY <1>1, ConstantFacts
  <1>5. Entries[n + 1] \notin First(n)
    BY <1>1, <1>4, ConstantFacts DEF First
  <1>6. First(n) \subseteq Range(Entries)
    BY <1>4, ConstantFacts DEF First
  <1> QED BY <1>1, <1>3, <1>5, <1>6

LEMMA FirstCount == \A n \in Nat : IsFiniteSet(First(n))
  <1> SUFFICES ASSUME NEW n \in Nat PROVE IsFiniteSet(First(n))
    OBVIOUS
  <1>1. IsFiniteSet(1..n)
    BY FS_Interval
  <1>2. IsFiniteSet({Entries[i] : i \in 1..n})
    <2> DEFINE f == [i \in 1..n |-> Entries[i]]
    <2>1. f \in Surjection(1..n, {Entries[i] : i \in 1..n})
      BY DEF Surjection
    <2> QED BY <1>1, <2>1, FS_Surjection
  <1> QED BY <1>2 DEF First

LEMMA AcceptedProgress == ASSUME TypeInv, Accepted PROVE Progress'
  <1>1. manifests' = manifests
    BY AcceptedFacts DEF SameTables
  <1>2. CASE request.op = "create"
    BY <1>1, <1>2, AcceptedPhase DEF TypeInv, Progress
  <1>3. CASE request.op = "files"
    <2>1. /\ phase = "files" /\ phase' = "puts" /\ held' = held /\ answered' = answered
      BY <1>3, AcceptedPhase
    <2>2. answered' = {} /\ held' \in DOMAIN manifests'
      BY <1>1, <2>1 DEF TypeInv, Progress
    <2>3. 0 \in 0..Len(Entries) /\ 0 < Len(Entries)
      BY ConstantFacts
    <2>4. \E n \in 0..Len(Entries) : n < Len(Entries) /\ answered' = First(n) /\ Cardinality(answered') = n
      BY <2>2, <2>3, FirstNone
    <2> QED BY <2>1, <2>2, <2>4 DEF Progress, First
  <1>4. CASE request.op = "update"
    BY <1>1, <1>4, AcceptedPhase DEF TypeInv, Progress
  <1>5. CASE request.op = "commit"
    BY <1>1, <1>5, AcceptedPhase DEF TypeInv, Progress
  <1>6. CASE request.op = "put" /\ phase = "manifest"
    <2>1. /\ held' = held /\ answered' = answered \cup {ManifestName} /\ phase' = "commit"
      BY <1>6, AcceptedPhase
    <2>2. answered = Range(Entries) /\ held \in DOMAIN manifests
      BY <1>6 DEF TypeInv, Progress
    <2> QED BY <1>1, <2>1, <2>2, ConstantFacts DEF Progress
  <1>7. CASE request.op = "put" /\ phase = "puts"
    <2>1. PICK n \in 0..Len(Entries) : n < Len(Entries) /\ answered = First(n) /\ Cardinality(answered) = n
      BY <1>7 DEF TypeInv, Progress
    <2>2. request.path = Entries[n + 1]
      BY <1>7, <2>1, AcceptedFacts, Awaited DEF Fits
    <2>3. answered' = First(n + 1) /\ held' = held /\ held \in DOMAIN manifests
      BY <1>7, <2>1, <2>2, FirstMore, AcceptedPhase DEF TypeInv, Progress
    <2>4. n \in Nat /\ IsFiniteSet(answered)
      BY <2>1, FirstCount
    <2>5. Cardinality(answered') = n + 1
      BY <2>1, <2>2, <2>3, <2>4, FirstMore, FS_AddElement
    <2>6. phase' = (IF Range(Entries) \subseteq answered' THEN "finalize" ELSE "puts")
      BY <1>7, AcceptedFacts
    <2>7. answered' \subseteq Range(Entries)
      BY <2>1, <2>3, FirstMore, ConstantFacts
    <2>8. CASE Range(Entries) \subseteq answered'
      BY <1>1, <2>3, <2>6, <2>7, <2>8 DEF Progress
    <2>9. CASE ~(Range(Entries) \subseteq answered')
      <3>1. n + 1 # Len(Entries)
        BY <2>3, <2>9, FirstAll
      <3>2. n + 1 \in 0..Len(Entries) /\ n + 1 < Len(Entries)
        BY <2>1, <2>4, <3>1, FirstMore, ConstantFacts
      <3>3. \E m \in 0..Len(Entries) : m < Len(Entries) /\ answered' = First(m) /\ Cardinality(answered') = m
        BY <2>3, <2>5, <3>2
      <3> QED BY <1>1, <2>3, <2>6, <2>9, <3>3 DEF Progress, First
    <2> QED BY <2>8, <2>9
  <1> QED BY <1>2, <1>3, <1>4, <1>5, <1>6, <1>7, AcceptedPhase DEF Ops

LEMMA TypeAccepted == ASSUME TypeInv, Accepted PROVE TypeInv'
  <1>1. /\ awaited' = None /\ request' = None /\ gaveUp' = gaveUp /\ SameTables /\ reader' = reader
        /\ Freed(awaited) /\ awaited # None
    BY AcceptedFacts
  <1>2. TablesTyped /\ Grows
    BY <1>1, SameGrows
  <1>3. awaited \in Slots
    BY <1>1, Awaited
  <1>4. SlotsTyped /\ \A q \in Slots : Handles(q)'
    BY <1>1, <1>3, FreedHandles DEF Freed
  <1>5. TypeOK'
    <2>1. timeouts' \in Nat /\ crashes' \in Nat /\ faults' \in Nat /\ breaks' \in Nat
      BY SlotTypes, AcceptedFacts
    <2>2. phase' \in Phases
      BY AcceptedPhase
    <2>3. held' \in Nat
      BY <1>3, AcceptedFacts, ClientTypes, Unchanged
    <2>4. answered' \subseteq Names
      <3>1. arg[awaited] = request /\ pc[awaited] # "idle"
        BY <1>1, Awaited
      <3>2. request.op = "put" => request.path \in Names
        BY <1>3, <3>1 DEF TypeInv, Handles
      <3> QED BY <3>2, AcceptedFacts, ClientTypes
    <2> QED BY <1>1, <1>2, <1>4, <2>1, <2>2, <2>3, <2>4, ClientTypes DEF TypeOK, TablesTyped, SlotsTyped
  <1>6. Asked' /\ Awaits'
    BY <1>1 DEF Asked, Awaits
  <1>7. Progress'
    BY AcceptedProgress
  <1>8. Reads'
    BY <1>1, <1>2, ReadsGrow
  <1> QED BY <1>4, <1>5, <1>6, <1>7, <1>8 DEF TypeInv

\* A download begins, or goes on by one piece.
Opened(d) ==
    /\ reader[d] = None /\ artifact.committed
    /\ \E f \in Names :
          /\ blob[f] # None
          /\ reader'[d] = [path |-> f, size |-> Len(blob[f]), got |-> 0, good |-> TRUE, state |-> "copying"]

ReadOn(d) ==
    /\ reader[d] \in Download /\ reader[d] # None /\ reader[d].state = "copying" /\ reader'[d] \in Download
    /\ reader'[d].path = reader[d].path /\ reader'[d].size = reader[d].size
    /\ \/ /\ reader[d].got = reader[d].size /\ reader'[d].state = "complete"
          /\ reader'[d].got = reader[d].got /\ reader'[d].good = reader[d].good
       \/ reader'[d].state = "broken" /\ reader'[d].got = reader[d].got /\ reader'[d].good = reader[d].good
       \/ /\ reader[d].got # reader[d].size /\ reader'[d].state = "copying"
                /\ reader'[d].got = reader[d].got + 1
          /\ reader[d].got + 1 \in DOMAIN blob[reader[d].path]
          /\ reader'[d].good = (reader[d].good /\ blob[reader[d].path][reader[d].got + 1])

LEMMA DownloadSet ==
    ASSUME NEW r \in Download, NEW n \in Nat, NEW v \in BOOLEAN
    PROVE  [r EXCEPT !.got = n, !.good = v] \in Download
  BY DEF Download

LEMMA ReaderFacts ==
    ASSUME TypeInv, NEW d \in Readers, OpenDownload(d) \/ ReadBlob(d)
    PROVE  /\ SameTables /\ SameSlots /\ SameClient
           /\ timeouts' = timeouts /\ crashes' = crashes /\ faults' = faults /\ breaks' = breaks
           /\ reader' \in [Readers -> {None} \cup Download]
           /\ \A e \in Readers \ {d} : reader'[e] = reader[e]
           /\ Opened(d) \/ ReadOn(d)
  <1>1. /\ SameTables /\ SameSlots /\ SameClient
        /\ timeouts' = timeouts /\ crashes' = crashes /\ faults' = faults /\ breaks' = breaks
    BY DEF OpenDownload, ReadBlob, tables, slots, client, bounds, SameTables, SameSlots, SameClient
  <1>2. reader \in [Readers -> {None} \cup Download] /\ blob \in [Names -> {None} \cup Seq(BOOLEAN)]
    BY ClientTypes, TableTypes
  <1>3. CASE OpenDownload(d)
    <2>1. PICK f \in Names :
              /\ blob[f] # None
              /\ reader' = [reader EXCEPT ![d] =
                    [path |-> f, size |-> Len(blob[f]), got |-> 0, good |-> TRUE, state |-> "copying"]]
      BY <1>3 DEF OpenDownload
    <2>2. blob[f] \in Seq(BOOLEAN)
      BY <1>2, <2>1
    <2>3. Len(blob[f]) \in Nat
      BY <2>2
    <2>4. [path |-> f, size |-> Len(blob[f]), got |-> 0, good |-> TRUE, state |-> "copying"] \in Download
      BY <2>3 DEF Download
    <2>5. /\ reader' \in [Readers -> {None} \cup Download]
          /\ \A e \in Readers \ {d} : reader'[e] = reader[e]
      BY <1>2, <2>1, <2>4
    <2>6. Opened(d)
      BY <1>2, <1>3, <2>1 DEF Opened, OpenDownload
    <2> QED BY <1>1, <2>5, <2>6
  <1>4. CASE ReadBlob(d)
    <2>1. reader[d] \in Download /\ reader[d] # None /\ reader[d].state = "copying"
      BY <1>2, <1>4 DEF ReadBlob
    <2>2. PICK r \in Download : r = reader[d]
      BY <2>1
    <2>3. r.path \in Names /\ blob[r.path] # None /\ r.got \in Nat /\ r.good \in BOOLEAN
      BY <2>1, <2>2 DEF TypeInv, Reads, Download
    <2>4. PICK b \in Seq(BOOLEAN) : b = blob[r.path]
      BY <1>2, <2>3
    <2> DEFINE done == [r EXCEPT !.state = "complete"]
               cut  == [r EXCEPT !.state = "broken"]
               on   == [r EXCEPT !.got = r.got + 1, !.good = r.good /\ b[r.got + 1]]
    <2>5. reader' = [reader EXCEPT ![d] = IF r.got = r.size THEN done ELSE IF r.got + 1 > Len(b) THEN cut ELSE on]
      BY <1>4, <2>2, <2>4 DEF ReadBlob
    <2>6. /\ done \in Download /\ done.path = r.path /\ done.size = r.size /\ done.got = r.got
          /\ done.good = r.good /\ done.state = "complete"
      BY DEF Download
    <2>7. /\ cut \in Download /\ cut.path = r.path /\ cut.size = r.size /\ cut.got = r.got
          /\ cut.good = r.good /\ cut.state = "broken"
      BY DEF Download
    <2>8. ASSUME ~(r.got + 1 > Len(b)) PROVE r.got + 1 \in DOMAIN b
      BY <2>3, <2>8
    <2>9. ASSUME r.got + 1 \in DOMAIN b
          PROVE  /\ on \in Download /\ on.path = r.path /\ on.size = r.size /\ on.got = r.got + 1
                 /\ on.good = (r.good /\ b[r.got + 1]) /\ on.state = r.state
      <3>1. (r.good /\ b[r.got + 1]) \in BOOLEAN
        OBVIOUS
      <3> DEFINE v == r.good /\ b[r.got + 1]
      <3> HIDE DEF v
      <3>2. v \in BOOLEAN
        BY <3>1 DEF v
      <3>3. [r EXCEPT !.got = r.got + 1, !.good = v] \in Download
        <4>1. r.got + 1 \in Nat
          BY <2>3
        <4> QED BY <3>2, <4>1, DownloadSet
      <3>4. /\ [r EXCEPT !.got = r.got + 1, !.good = v].path = r.path
            /\ [r EXCEPT !.got = r.got + 1, !.good = v].size = r.size
            /\ [r EXCEPT !.got = r.got + 1, !.good = v].got = r.got + 1
            /\ [r EXCEPT !.got = r.got + 1, !.good = v].good = v
            /\ [r EXCEPT !.got = r.got + 1, !.good = v].state = r.state
        BY DEF Download
      <3> QED BY <3>3, <3>4 DEF v
    <2> HIDE DEF done, cut, on
    <2>10. reader'[d] = (IF r.got = r.size THEN done ELSE IF r.got + 1 > Len(b) THEN cut ELSE on)
      BY <1>2, <2>5
    <2>11. /\ reader' \in [Readers -> {None} \cup Download]
           /\ \A e \in Readers \ {d} : reader'[e] = reader[e]
      BY <1>2, <2>5, <2>6, <2>7, <2>8, <2>9
    <2>12. ReadOn(d)
      <3>1. CASE reader'[d] = done /\ r.got = r.size
        BY <2>1, <2>2, <2>6, <3>1 DEF ReadOn
      <3>2. CASE reader'[d] = cut
        BY <2>1, <2>2, <2>7, <3>2 DEF ReadOn
      <3>3. CASE reader'[d] = on /\ r.got # r.size /\ ~(r.got + 1 > Len(b))
        BY <2>1, <2>2, <2>4, <2>8, <2>9, <3>3 DEF ReadOn
      <3> QED BY <2>10, <3>1, <3>2, <3>3
    <2> QED BY <1>1, <2>11, <2>12
  <1> QED BY <1>3, <1>4

LEMMA TypeReader == ASSUME TypeInv, NEW d \in Readers, OpenDownload(d) \/ ReadBlob(d) PROVE TypeInv'
  <1>1. SameTables /\ SameSlots /\ SameClient /\ reader' \in [Readers -> {None} \cup Download]
    BY ReaderFacts
  <1>2. TablesTyped /\ Grows
    BY <1>1, SameGrows
  <1>3. TypeOK'
    <2>1. timeouts' \in Nat /\ crashes' \in Nat /\ faults' \in Nat /\ breaks' \in Nat
      BY SlotTypes, ReaderFacts
    <2> QED BY <1>1, <1>2, <2>1, ClientTypes, SlotTypes DEF TypeOK, TablesTyped, SameSlots, SameClient
  <1>4. \A q \in Slots : Handles(q)'
    BY <1>1, <1>2, HandlesOther DEF SameSlots
  <1>5. Asked' /\ Awaits'
    BY <1>1 DEF SameClient, SameSlots, Asked, Fits, Awaits, TypeInv
  <1>6. Progress'
    BY <1>1, <1>2, ProgressGrows DEF SameClient
  <1>7. Reads'
    <2> SUFFICES ASSUME NEW e \in Readers, reader'[e] # None PROVE blob'[reader'[e].path] # None
      BY DEF Reads
    <2>1. CASE e # d
      BY <1>1, <2>1, ReaderFacts DEF TypeInv, Reads, SameTables
    <2>2. CASE e = d /\ Opened(d)
      BY <1>1, <2>2 DEF Opened, SameTables
    <2>3. CASE e = d /\ ReadOn(d)
      BY <1>1, <2>3 DEF ReadOn, TypeInv, Reads, SameTables
    <2> QED BY <2>1, <2>2, <2>3, ReaderFacts
  <1> QED BY <1>3, <1>4, <1>5, <1>6, <1>7 DEF TypeInv

LEMMA TypeInit == ASSUME Init PROVE TypeInv
  <1>1. TypeOK
    <2>a. <<>> \in Seq(Manifest) /\ <<>> \in Seq(Names)
      OBVIOUS
    <2>b. "idle" \in Steps
      BY StepNames
    <2>1. "reserve" \in Phases
      BY DEF Phases
    <2>2. Nothing \in [manifest: Nat, file: Nat, count: Nat]
      BY DEF Nothing
    <2>3. [committed |-> FALSE, count |-> 0] \in [committed: BOOLEAN, count: Nat]
      OBVIOUS
    <2> QED BY <2>a, <2>b, <2>1, <2>2, <2>3 DEF Init, TypeOK
  <1>2. \A p \in Slots : Handles(p)
    BY DEF Init, Handles
  <1> QED BY <1>1, <1>2 DEF Init, TypeInv, Asked, Awaits, Progress, Reads

\* A slot is left alone or freed.
Recedes ==
    \A q \in Slots :
        \/ pc'[q] = "idle"
        \/ pc'[q] = pc[q] /\ arg'[q] = arg[q] /\ at'[q] = at[q] /\ local'[q] = local[q]

Quiet == Timeout \/ Accepted \/ Refused \/ Crash \/ \E d \in Readers : OpenDownload(d) \/ ReadBlob(d)

LEMMA QuietFacts ==
    ASSUME TypeInv, Quiet
    PROVE  Recedes /\ SameTables /\ faults' = faults
  <1>1. CASE Timeout
    <2>1. awaited \in Slots
      BY <1>1, TimeoutFacts, Awaited
    <2> QED BY <1>1, <2>1, TimeoutFacts DEF Recedes, SameSlots, Freed, Others
  <1>2. CASE Accepted
    BY <1>2, AcceptedFacts DEF Recedes, Freed, Others
  <1>3. CASE Refused
    BY <1>3, RefusedFacts DEF Recedes, Freed, Others
  <1>4. CASE Crash
    BY <1>4, CrashFacts DEF Recedes
  <1>5. CASE \E d \in Readers : OpenDownload(d) \/ ReadBlob(d)
    BY <1>5, ReaderFacts DEF Recedes, SameSlots
  <1> QED BY <1>1, <1>2, <1>3, <1>4, <1>5 DEF Quiet

LEMMA NextShape ==
    ASSUME Next
    PROVE  Send \/ Quiet \/ \E p \in Slots : Step(p)
  BY DEF Next, Quiet

LEMMA TypeNext == ASSUME TypeInv, Next PROVE TypeInv'
  BY NextShape, TypeSend, TypeStep, TypeTimeout, TypeAccepted, TypeRefused, TypeCrash, TypeReader DEF Quiet

(***************************************************************************)
(* Errors, and handlers nobody waits for.                                  *)
(***************************************************************************)
LEMMA ErrorFacts ==
    ASSUME TypeInv, NEW p \in Slots, Step(p), pc'[p] = "error"
    PROVE  faults' = faults + 1 \/ arg[p].op = "put"
  <1>1. CASE Open(p) \/ Copy(p) \/ CopyBreaks(p)
    <2>1. pc[p] \in {"open", "copy"}
      BY <1>1, OpenFacts, CopyFacts, CopyBreaksFacts
    <2> QED BY <2>1 DEF TypeInv, Handles
  <1>2. CASE Unheard(p)
    BY <1>2, UnheardFacts DEF Freed
  <1>3. CASE \/ InsertManifest(p) \/ InsertManifestFile(p) \/ SetManifestFile(p) \/ InsertFile(p)
             \/ FindManifest(p) \/ ReplaceManifestFile(p) \/ UpdateManifestDigest(p) \/ CountFiles(p) \/ Commit(p)
    BY <1>3, InsertManifestFacts, InsertManifestFileFacts, SetManifestFileFacts, InsertFileFacts,
       FindManifestFacts,
       ReplaceManifestFileFacts, UpdateManifestDigestFacts, CountFilesFacts, CommitFacts DEF Failing
  <1> QED BY <1>1, <1>2, <1>3 DEF Step

LEMMA FaultNext == ASSUME TypeInv, FaultInv, Next PROVE FaultInv'
  <1>1. CASE Send
    <2>1. PICK p \in Slots, r \in Request : Sent(p, r)
      BY <1>1, SendFacts
    <2>2. FirstStep[r.op] \in Working
      BY RequestFields, FirstSteps
    <2> QED BY <2>1, <2>2, StepNames DEF Sent, FaultInv, RetriesAccepted, Others
  <1>2. CASE Quiet
    <2>1. Recedes /\ faults' = faults
      BY <1>2, QuietFacts
    <2>2. \A p \in Slots : pc'[p] = "error" /\ arg'[p].op # "put" => faults' > 0
      BY <2>1 DEF FaultInv, Recedes
    <2>3. phase' = "failed" => phase = "failed" \/ (Refused /\ request.op # "put")
      <3>1. CASE Accepted
        BY <3>1, AcceptedPhase DEF Ops
      <3> QED BY <1>2, <3>1, TimeoutFacts, RefusedFacts, CrashFacts, ReaderFacts DEF Quiet, SameClient
    <2>4. CASE Refused /\ request.op # "put"
      <3>1. pc[awaited] = "error" /\ awaited \in Slots /\ arg[awaited] = request
        BY <2>4, RefusedFacts, Awaited
      <3> QED BY <2>1, <2>2, <2>4, <3>1 DEF FaultInv, RetriesAccepted
    <2> QED BY <2>1, <2>2, <2>3, <2>4 DEF FaultInv, RetriesAccepted
  <1>3. ASSUME NEW p \in Slots, Step(p) PROVE FaultInv'
    <2>1. phase' = phase /\ faults' >= faults /\ faults' \in Nat /\ faults \in Nat /\ Others(p)
      BY <1>3, StepClient, SlotTypes DEF SameClient
    <2>2. ASSUME NEW q \in Slots, pc'[q] = "error", arg'[q].op # "put" PROVE faults' > 0
      <3>1. CASE q # p
        BY <2>1, <2>2, <3>1 DEF Others, FaultInv
      <3>2. CASE q = p
        BY <1>3, <2>1, <2>2, <3>2, ErrorFacts, StepClient, UnheardFacts DEF Freed
      <3> QED BY <3>1, <3>2
    <2> QED BY <2>1, <2>2 DEF FaultInv, RetriesAccepted
  <1> QED BY <1>1, <1>2, <1>3, NextShape

LEMMA LeftNext == ASSUME TypeInv, LeftInv, Next PROVE LeftInv'
  <1>1. CASE Send
    <2>1. PICK p \in Slots, r \in Request : Sent(p, r)
      BY <1>1, SendFacts
    <2>2. awaited = None /\ awaited' = p /\ gaveUp' = gaveUp /\ Others(p)
      BY <2>1 DEF Sent
    <2>3. \A q \in Slots : q # None
      BY ConstantFacts
    <2> QED BY <2>2, <2>3 DEF LeftInv, Others
  <1>2. ASSUME NEW p \in Slots, Step(p) PROVE LeftInv'
    <2>1. awaited' = awaited /\ gaveUp' = gaveUp /\ Others(p)
      BY <1>2, StepClient DEF SameClient
    <2>2. pc'[p] \in Working => pc[p] \in Working /\ arg'[p] = arg[p]
      BY <1>2, StepClient, UnheardFacts, StepNames DEF Freed
    <2> QED BY <2>1, <2>2 DEF LeftInv, Others
  <1>3. CASE Timeout
    <2>1. awaited' = None /\ awaited \in Slots /\ awaited # None /\ arg[awaited] = request
      BY <1>3, TimeoutFacts, Awaited
    <2>2. CASE /\ SameSlots
               /\ gaveUp' = gaveUp \cup {IF request.op = "put" THEN request.path ELSE request.op}
      BY <2>1, <2>2 DEF SameSlots, LeftInv
    <2>3. CASE Freed(awaited) /\ gaveUp' = gaveUp
      BY <2>1, <2>3, StepNames DEF Freed, Others, LeftInv
    <2> QED BY <1>3, <2>2, <2>3, TimeoutFacts
  <1>4. CASE Accepted \/ Refused
    <2>1. Freed(awaited) /\ gaveUp' = gaveUp /\ awaited \in Slots
      BY <1>4, AcceptedFacts, RefusedFacts, Awaited
    <2> QED BY <2>1, StepNames DEF Freed, Others, LeftInv
  <1>5. CASE Crash
    BY <1>5, CrashFacts, StepNames DEF LeftInv
  <1>6. CASE \E d \in Readers : OpenDownload(d) \/ ReadBlob(d)
    BY <1>6, ReaderFacts DEF LeftInv, SameSlots, SameClient
  <1> QED BY <1>1, <1>2, <1>3, <1>4, <1>5, <1>6, NextShape DEF Quiet

(***************************************************************************)
(* The content of the files.                                               *)
(***************************************************************************)
LEMMA PutIsNew ==
    ASSUME TypeInv, request # None, request.op = "put"
    PROVE  request.path \notin answered
  <1>1. Fits(request)
    BY DEF TypeInv, Asked
  <1>2. CASE phase = "puts"
    <2>1. PICK n \in 0..Len(Entries) : n < Len(Entries) /\ answered = First(n) /\ Cardinality(answered) = n
      BY <1>2 DEF TypeInv, Progress
    <2> QED BY <1>1, <1>2, <2>1, FirstMore DEF Fits
  <1>3. CASE phase = "manifest"
    BY <1>1, <1>3, ConstantFacts DEF Fits, TypeInv, Progress
  <1> QED BY <1>1, <1>2, <1>3 DEF Fits

LEMMA PiecesMore ==
    ASSUME NEW n \in Nat
    PROVE  Written(Pieces(n), n + 1) = Pieces(n + 1)
  <1>1. Pieces(n) \in Seq(BOOLEAN) /\ Len(Pieces(n)) = n
    BY DEF Pieces
  <1>2. (IF n + 1 > Len(Pieces(n)) THEN n + 1 ELSE Len(Pieces(n))) = n + 1
    BY <1>1
  <1>3. \A i \in 1..(n + 1) : (i = n + 1 \/ (i <= Len(Pieces(n)) /\ Pieces(n)[i])) = TRUE
    <2>1. \A i \in 1..(n + 1) : i # n + 1 => i <= Len(Pieces(n)) /\ i \in 1..n
      BY <1>1
    <2>2. \A i \in 1..n : Pieces(n)[i]
      BY DEF Pieces
    <2> QED BY <2>1, <2>2
  <1> QED BY <1>2, <1>3 DEF Written, Pieces

\* Only the calls of a PUT write.
LEMMA BlobStep ==
    ASSUME TypeInv, NEW p \in Slots, Step(p)
    PROVE  \/ /\ pc[p] \in {"open", "copy"} /\ arg[p].op = "put" /\ arg[p].path \in Names
              /\ \A f \in Names \ {arg[p].path} : blob'[f] = blob[f]
              /\ \/ pc'[p] = "copy" /\ at'[p] = 0 /\ blob'[arg[p].path] = <<>> /\ pc[p] = "open"
                 \/ /\ pc[p] = "copy" /\ at'[p] = at[p] + 1 /\ at[p] < Size
                    /\ pc'[p] = (IF at[p] + 1 = Size THEN "ok" ELSE "copy")
                    /\ blob'[arg[p].path] = Written(blob[arg[p].path], at[p] + 1)
                 \/ pc'[p] = "error" /\ blob' = blob
           \/ blob' = blob /\ (pc'[p] = "idle" \/ arg[p].op # "put")
  <1>1. CASE Open(p) \/ Copy(p) \/ CopyBreaks(p)
    <2>1. pc[p] \in {"open", "copy"} /\ arg[p].op = "put" /\ pc[p] # "idle"
      BY <1>1, OpenFacts, CopyFacts, CopyBreaksFacts DEF TypeInv, Handles
    <2>2. arg[p].path \in Names
      BY <2>1 DEF TypeInv, Handles
    <2>3. CASE Open(p)
      <3>1. pc[p] = "open" => at[p] = 0
        BY DEF TypeInv, Handles
      <3> QED BY <2>1, <2>2, <2>3, <3>1, OpenFacts, TableTypes DEF SameTables
    <2>4. CASE Copy(p)
      BY <2>1, <2>2, <2>4, CopyFacts, TableTypes
    <2>5. CASE CopyBreaks(p)
      BY <2>1, <2>2, <2>5, CopyBreaksFacts DEF SameTables
    <2> QED BY <1>1, <2>3, <2>4, <2>5
  <1>2. CASE Unheard(p)
    BY <1>2, UnheardFacts DEF Freed, SameTables
  <1>3. CASE \/ InsertManifest(p) \/ InsertManifestFile(p) \/ SetManifestFile(p) \/ InsertFile(p)
             \/ FindManifest(p) \/ ReplaceManifestFile(p) \/ UpdateManifestDigest(p) \/ CountFiles(p) \/ Commit(p)
    <2>1. blob' = blob
      BY <1>3, InsertManifestFacts, InsertManifestFileFacts, SetManifestFileFacts, InsertFileFacts,
         FindManifestFacts,
         ReplaceManifestFileFacts, UpdateManifestDigestFacts, CountFilesFacts, CommitFacts DEF Failing, SameTables
    <2>2. pc[p] \in {"insert manifest", "insert file", "set file", "insert files", "find manifest", "update file",
                     "update manifest", "count", "commit"}
      BY <1>3, InsertManifestFacts, InsertManifestFileFacts, SetManifestFileFacts, InsertFileFacts,
         FindManifestFacts,
         ReplaceManifestFileFacts, UpdateManifestDigestFacts, CountFilesFacts, CommitFacts
    <2>3. arg[p].op # "put"
      BY <2>2 DEF TypeInv, Handles
    <2> QED BY <2>1, <2>3
  <1> QED BY <1>1, <1>2, <1>3 DEF Step

LEMMA BlobNext == ASSUME TypeInv, LeftInv, BlobInv, Next PROVE BlobInv'
  <1>a. answered \subseteq Names /\ answered' \subseteq Names
    <2>1. TypeInv'
      BY TypeNext
    <2> QED BY <2>1, ClientTypes DEF TypeInv, TypeOK
  <1>1. CASE Send
    <2>1. PICK p \in Slots, r \in Request : Sent(p, r)
      BY <1>1, SendFacts
    <2>2. pc'[p] \notin {"copy", "ok"}
      BY <2>1, RequestFields, FirstSteps DEF Sent, Ops
    <2> QED BY <2>1, <2>2 DEF Sent, BlobInv, SameTables, Whole
  <1>2. ASSUME NEW p \in Slots, Step(p) PROVE BlobInv'
    <2>1. /\ awaited' = awaited /\ gaveUp' = gaveUp /\ answered' = answered /\ request' = request /\ Others(p)
          /\ (p = awaited => arg'[p] = arg[p] /\ pc'[p] # "idle" /\ arg[p] = request /\ request # None)
      BY <1>2, StepClient, UnheardFacts, Awaited, ConstantFacts DEF SameClient
    <2>2. CASE blob' = blob /\ (pc'[p] = "idle" \/ arg[p].op # "put")
      BY <2>1, <2>2 DEF BlobInv, Whole, Others
    <2>3. CASE /\ pc[p] \in {"open", "copy"} /\ arg[p].op = "put" /\ arg[p].path \in Names
               /\ \A f \in Names \ {arg[p].path} : blob'[f] = blob[f]
               /\ \/ pc'[p] = "copy" /\ at'[p] = 0 /\ blob'[arg[p].path] = <<>> /\ pc[p] = "open"
                  \/ /\ pc[p] = "copy" /\ at'[p] = at[p] + 1 /\ at[p] < Size
                     /\ pc'[p] = (IF at[p] + 1 = Size THEN "ok" ELSE "copy")
                     /\ blob'[arg[p].path] = Written(blob[arg[p].path], at[p] + 1)
                  \/ pc'[p] = "error" /\ blob' = blob
      <3>1. CASE p # awaited
        <4>1. arg[p].path \in gaveUp
          BY <2>3, <3>1 DEF LeftInv, Working
        <4>2. \A f \in answered' \ gaveUp' : Whole(f)'
          BY <1>a, <2>1, <2>3, <4>1 DEF BlobInv, Whole
        <4>3. ASSUME NEW q \in Slots, q = awaited', arg'[q].op = "put", arg'[q].path \notin gaveUp'
              PROVE  /\ pc'[q] = "copy" => blob'[arg'[q].path] = Pieces(at'[q])
                     /\ pc'[q] = "ok" => Whole(arg[q].path)'
          <5>1. q # p /\ pc'[q] = pc[q] /\ arg'[q] = arg[q] /\ at'[q] = at[q] /\ arg[q].path \notin gaveUp
            BY <2>1, <3>1, <4>3 DEF Others
          <5>2. CASE pc[q] \in {"copy", "ok"}
            <6>1. arg[q].path \in Names
              BY <4>3, <5>1, <5>2 DEF TypeInv, Handles
            <6>2. blob'[arg[q].path] = blob[arg[q].path]
              BY <2>3, <4>1, <5>1, <6>1
            <6>3. /\ pc[q] = "copy" => blob[arg[q].path] = Pieces(at[q])
                  /\ pc[q] = "ok" => Whole(arg[q].path)
              BY <2>1, <4>3, <5>1 DEF BlobInv
            <6>4. pc'[q] = "copy" => blob'[arg'[q].path] = Pieces(at'[q])
              BY <5>1, <6>2, <6>3
            <6>5. pc[q] = "ok" => Whole(arg[q].path)'
              BY <5>1, <6>2, <6>3 DEF Whole
            <6> QED BY <5>1, <6>4, <6>5
          <5> QED BY <5>1, <5>2
        <4> QED BY <2>1, <4>2, <4>3 DEF BlobInv, Others, Whole
      <3>2. CASE p = awaited
        <4>1. arg[p].path \notin answered
          BY <2>1, <2>3, <3>2, PutIsNew
        <4>2. \A f \in answered' \ gaveUp' : Whole(f)'
          BY <1>a, <2>1, <2>3, <4>1 DEF BlobInv, Whole
        <4>3. ASSUME arg[p].path \notin gaveUp
              PROVE  /\ pc'[p] = "copy" => blob'[arg[p].path] = Pieces(at'[p])
                     /\ pc'[p] = "ok" => blob'[arg[p].path] = Pieces(Size)
          <5>1. CASE pc'[p] = "copy" /\ at'[p] = 0 /\ blob'[arg[p].path] = <<>>
            <6>1. Pieces(0) = <<>>
              BY DEF Pieces
            <6> QED BY <5>1, <6>1
          <5>2. CASE /\ pc[p] = "copy" /\ at'[p] = at[p] + 1
                     /\ pc'[p] = (IF at[p] + 1 = Size THEN "ok" ELSE "copy")
                     /\ blob'[arg[p].path] = Written(blob[arg[p].path], at[p] + 1)
            <6>1. blob[arg[p].path] = Pieces(at[p]) /\ at[p] \in Nat
              BY <2>3, <3>2, <4>3, <5>2, Unchanged DEF BlobInv
            <6>2. blob'[arg[p].path] = Pieces(at[p] + 1)
              BY <5>2, <6>1, PiecesMore
            <6> QED BY <5>2, <6>2
          <5> QED BY <2>3, <5>1, <5>2
        <4>4. pc'[p] = "ok" /\ arg[p].path \notin gaveUp => Whole(arg[p].path)'
          <5> SUFFICES ASSUME blob'[arg[p].path] = Pieces(Size) PROVE Whole(arg[p].path)'
            BY <4>3
          <5>1. Size \in Nat /\ None \notin Seq(BOOLEAN)
            BY ConstantFacts
          <5>2. Pieces(Size) \in Seq(BOOLEAN)
            BY <5>1 DEF Pieces
          <5>3. blob'[arg[p].path] # None
            BY <5>1, <5>2
          <5>4. arg'[p].path = arg[p].path
            BY <2>1, <3>2
          <5> QED BY <5>3, <5>4 DEF Whole, Pieces
        <4> QED BY <2>1, <3>2, <4>2, <4>3, <4>4 DEF BlobInv, Whole
      <3> QED BY <3>1, <3>2
    <2> QED BY <1>2, <2>2, <2>3, BlobStep
  <1>3. CASE Timeout \/ Refused \/ Crash
    <2>1. awaited' = None /\ SameTables /\ answered' = answered /\ gaveUp \subseteq gaveUp'
      BY <1>3, TimeoutFacts, RefusedFacts, CrashFacts
    <2> QED BY <2>1, ConstantFacts DEF BlobInv, SameTables, Whole
  <1>4. CASE Accepted
    <2>1. /\ awaited' = None /\ SameTables /\ gaveUp' = gaveUp /\ pc[awaited] = "ok" /\ awaited \in Slots
          /\ arg[awaited] = request
          /\ answered' = (IF request.op = "put" THEN answered \cup {request.path} ELSE answered)
      BY <1>4, AcceptedFacts, Awaited
    <2>2. request.op = "put" /\ request.path \notin gaveUp => Whole(request.path)
      BY <2>1 DEF BlobInv
    <2> QED BY <2>1, <2>2, ConstantFacts DEF BlobInv, SameTables, Whole
  <1>5. CASE \E d \in Readers : OpenDownload(d) \/ ReadBlob(d)
    BY <1>5, ReaderFacts DEF BlobInv, SameSlots, SameClient, SameTables, Whole
  <1> QED BY <1>1, <1>2, <1>3, <1>4, <1>5, NextShape DEF Quiet


(***************************************************************************)
(* The commit, and downloads.                                              *)
(***************************************************************************)
LEMMA ArtifactStep ==
    ASSUME TypeInv, NEW p \in Slots, Step(p)
    PROVE  \/ artifact' = artifact
           \/ /\ pc[p] = "commit" /\ arg[p].op = "commit" /\ faults' = faults
              /\ artifact' = [committed |-> TRUE, count |-> local[p].count]
  <1>1. CASE Commit(p)
    <2>1. pc[p] = "commit" => arg[p].op = "commit"
      BY DEF TypeInv, Handles
    <2> QED BY <1>1, <2>1, CommitFacts DEF Failing, SameTables
  <1>2. CASE \/ InsertManifest(p) \/ InsertManifestFile(p) \/ SetManifestFile(p) \/ InsertFile(p)
             \/ FindManifest(p) \/ ReplaceManifestFile(p) \/ UpdateManifestDigest(p)
    BY <1>2, InsertManifestFacts, InsertManifestFileFacts, SetManifestFileFacts, InsertFileFacts,
       FindManifestFacts,
       ReplaceManifestFileFacts, UpdateManifestDigestFacts DEF Failing, SameTables
  <1>3. CASE CountFiles(p) \/ Open(p) \/ Copy(p) \/ CopyBreaks(p) \/ Unheard(p)
    BY <1>3, CountFilesFacts, OpenFacts, CopyFacts, CopyBreaksFacts, UnheardFacts DEF Failing, SameTables
  <1> QED BY <1>1, <1>2, <1>3 DEF Step

LEMMA CommittingStep ==
    ASSUME TypeInv, NEW p \in Slots, Step(p), Committing'
    PROVE  Committing
  <1>1. /\ Others(p) /\ pc[p] # "idle" /\ (pc'[p] # "idle" => arg'[p] = arg[p])
    BY StepClient, UnheardFacts DEF Freed
  <1>2. CASE artifact'.committed
    BY <1>1, <1>2, ArtifactStep DEF Committing
  <1>3. CASE \E q \in Slots : pc'[q] # "idle" /\ arg'[q].op = "commit"
    BY <1>1, <1>3 DEF Others, Committing
  <1> QED BY <1>2, <1>3 DEF Committing

LEMMA CommittingQuiet ==
    ASSUME Recedes, SameTables, Committing'
    PROVE  Committing
  BY DEF Recedes, SameTables, Committing

LEMMA LateNext == ASSUME TypeInv, LateInv, Next PROVE LateInv'
  <1>1. CASE Send
    <2>1. PICK p \in Slots, r \in Request : Sent(p, r)
      BY <1>1, SendFacts
    <2>2. phase' = phase /\ answered' = answered /\ SameTables /\ Others(p) /\ arg'[p] = r /\ Fits(r)
      BY <2>1 DEF Sent
    <2>3. CASE r.op = "commit"
      BY <2>2, <2>3 DEF Fits, TypeInv, Progress, LateInv
    <2>4. CASE r.op # "commit"
      BY <2>2, <2>4 DEF Others, LateInv, Committing, SameTables
    <2> QED BY <2>3, <2>4
  <1>2. ASSUME NEW p \in Slots, Step(p) PROVE LateInv'
    BY <1>2, CommittingStep, StepClient DEF LateInv, SameClient
  <1>3. CASE Quiet
    <2>1. Committing' => Committing
      BY <1>3, QuietFacts, CommittingQuiet
    <2>2. CASE Accepted
      <3>1. Committing => request.op = "commit"
        BY <2>2, AcceptedPhase DEF LateInv, Ops
      <3> QED BY <2>1, <2>2, <3>1, AcceptedPhase DEF LateInv
    <2>3. CASE Refused
      BY <2>1, <2>3, RefusedFacts DEF LateInv
    <2>4. CASE Timeout \/ Crash \/ \E d \in Readers : OpenDownload(d) \/ ReadBlob(d)
      BY <2>1, <2>4, TimeoutFacts, CrashFacts, ReaderFacts DEF LateInv, SameClient
    <2> QED BY <1>3, <2>2, <2>3, <2>4 DEF Quiet
  <1> QED BY <1>1, <1>2, <1>3, NextShape

LEMMA WholeFacts ==
    ASSUME NEW f, Whole(f)
    PROVE  /\ Len(blob[f]) = Size /\ DOMAIN blob[f] = 1..Size
           /\ \A i \in 1..Size : blob[f][i]
  <1>1. Pieces(Size) \in Seq(BOOLEAN) /\ Len(Pieces(Size)) = Size /\ blob[f] = Pieces(Size)
    BY ConstantFacts DEF Pieces, Whole
  <1>2. \A i \in 1..Size : Pieces(Size)[i]
    BY DEF Pieces
  <1>3. DOMAIN Pieces(Size) = 1..Size
    BY DEF Pieces
  <1> QED BY <1>1, <1>2, <1>3

\* What ReadInv says of one download.
Downloads(d) ==
    reader[d] # None =>
        /\ reader[d].path \in answered
        /\ reader[d].path \notin gaveUp =>
              /\ reader[d].good /\ reader[d].size = Size /\ reader[d].got <= Size
              /\ reader[d].state = "complete" => reader[d].got = Size

LEMMA ReadLater ==
    ASSUME TypeInv, ReadInv, answered \subseteq answered', gaveUp \subseteq gaveUp', NEW d \in Readers,
           reader'[d] = reader[d]
    PROVE  Downloads(d)'
  BY DEF ReadInv, Downloads

LEMMA ReadNext == ASSUME TypeInv, LateInv, BlobInv, ReadInv, Next PROVE ReadInv'
  <1> SUFFICES ASSUME NEW d \in Readers PROVE Downloads(d)'
    BY DEF ReadInv, Downloads
  <1>1. CASE Send
    BY <1>1, SendFacts, ReadLater DEF Sent
  <1>2. CASE \E p \in Slots : Step(p)
    BY <1>2, StepClient, ReadLater DEF SameClient
  <1>3. CASE Timeout \/ Refused \/ Accepted
    <2>1. reader' = reader /\ answered \subseteq answered' /\ gaveUp \subseteq gaveUp'
      BY <1>3, TimeoutFacts, RefusedFacts, AcceptedFacts
    <2> QED BY <2>1, ReadLater
  <1>4. CASE Crash
    <2>1. /\ answered' = answered /\ gaveUp' = gaveUp
          /\ reader'[d] = (IF reader[d] # None /\ reader[d].state = "copying"
                           THEN [reader[d] EXCEPT !.state = "broken"] ELSE reader[d])
      BY <1>4, CrashFacts
    <2>2. CASE reader[d] # None /\ reader[d].state = "copying"
      <3>1. reader[d] \in Download
        BY <2>2, ClientTypes
      <3>2. /\ reader'[d].path = reader[d].path /\ reader'[d].size = reader[d].size
                  /\ reader'[d].got = reader[d].got
            /\ reader'[d].good = reader[d].good /\ reader'[d].state = "broken"
        BY <2>1, <2>2, <3>1 DEF Download
      <3> QED BY <2>1, <2>2, <3>2 DEF ReadInv, Downloads
    <2>3. CASE ~(reader[d] # None /\ reader[d].state = "copying")
      <3>1. reader'[d] = reader[d]
        BY <2>1, <2>3
      <3> QED BY <2>1, <3>1, ReadLater
    <2> QED BY <2>2, <2>3
  <1>5. ASSUME NEW e \in Readers, OpenDownload(e) \/ ReadBlob(e) PROVE Downloads(d)'
    <2>1. /\ answered' = answered /\ gaveUp' = gaveUp /\ (d # e => reader'[d] = reader[d])
          /\ Opened(e) \/ ReadOn(e)
      BY <1>5, ReaderFacts DEF SameClient
    <2>2. CASE d # e
      BY <2>1, <2>2, ReadLater
    <2>3. CASE d = e /\ Opened(e)
      <3>1. PICK f \in Names :
              /\ blob[f] # None
              /\ reader'[d] = [path |-> f, size |-> Len(blob[f]), got |-> 0, good |-> TRUE, state |-> "copying"]
        BY <2>3 DEF Opened
      <3>2. answered = Names
        BY <2>3 DEF Opened, LateInv, Committing
      <3>3. f \notin gaveUp => Len(blob[f]) = Size
        BY <3>2, WholeFacts DEF BlobInv
      <3>4. /\ reader'[d].path = f /\ reader'[d].size = Len(blob[f]) /\ reader'[d].got = 0
            /\ reader'[d].good = TRUE /\ reader'[d].state = "copying"
        BY <3>1
      <3>5. 0 <= Size
        BY ConstantFacts
      <3> QED BY <2>1, <3>2, <3>3, <3>4, <3>5 DEF Downloads
    <2>4. CASE d = e /\ ReadOn(e)
      <3>1. /\ reader[d] \in Download /\ reader[d] # None /\ reader[d].path \in answered
            /\ reader'[d].path = reader[d].path /\ reader'[d].size = reader[d].size
        BY <2>4 DEF ReadOn, ReadInv
      <3>2. reader[d].path \in answered'
        BY <2>1, <3>1
      <3>3. ASSUME reader[d].path \notin gaveUp
            PROVE  /\ reader'[d].good /\ reader'[d].size = Size /\ reader'[d].got <= Size
                   /\ reader'[d].state = "complete" => reader'[d].got = Size
        <4>1. /\ reader[d].good /\ reader[d].size = Size /\ reader[d].got <= Size /\ reader[d].got \in Nat
          BY <3>1, <3>3 DEF ReadInv, Download
        <4>2. CASE reader[d].got = reader[d].size /\ reader'[d].got = reader[d].got
                      /\ reader'[d].good = reader[d].good
          BY <3>1, <4>1, <4>2
        <4>3. CASE reader'[d].state = "broken" /\ reader'[d].got = reader[d].got
                      /\ reader'[d].good = reader[d].good
          BY <3>1, <4>1, <4>3
        <4>4. CASE /\ reader[d].got # reader[d].size /\ reader'[d].state = "copying"
                         /\ reader'[d].got = reader[d].got + 1
                   /\ reader[d].got + 1 \in DOMAIN blob[reader[d].path]
                   /\ reader'[d].good = (reader[d].good /\ blob[reader[d].path][reader[d].got + 1])
          <5>1. Whole(reader[d].path)
            BY <3>1, <3>3 DEF BlobInv
          <5>2. DOMAIN blob[reader[d].path] = 1..Size /\ \A i \in 1..Size : blob[reader[d].path][i]
            BY <5>1, WholeFacts
          <5>3. blob[reader[d].path][reader[d].got + 1]
            BY <4>4, <5>2
          <5>4. reader[d].got + 1 <= Size
            BY <4>1, <4>4, <5>2, ConstantFacts
          <5>5. reader'[d].good
            BY <4>1, <4>4, <5>3
          <5> QED BY <3>1, <4>1, <4>4, <5>4, <5>5
        <4> QED BY <2>4, <4>2, <4>3, <4>4 DEF ReadOn
      <3> QED BY <2>1, <3>1, <3>2, <3>3 DEF Downloads
    <2> QED BY <2>1, <2>2, <2>3, <2>4
  <1> QED BY <1>1, <1>2, <1>3, <1>4, <1>5, NextShape DEF Quiet

(***************************************************************************)
(* Manifests and their file records.                                       *)
(***************************************************************************)
LEMMA ManifestLength == TypeInv => Len(manifests) \in Nat /\ DOMAIN manifests = 1..Len(manifests)
  BY TableTypes

LEMMA ManifestStep ==
    ASSUME TypeInv, NEW p \in Slots, Step(p)
    PROVE  \/ manifests' = manifests
           \/ /\ pc[p] = "insert manifest" /\ faults' = faults /\ local'[p].manifest = Len(manifests) + 1
              /\ pc'[p] = (IF arg[p].upload THEN "insert file" ELSE "ok")
              /\ Len(manifests') = Len(manifests) + 1 /\ Len(manifests) + 1 \in DOMAIN manifests'
              /\ \A m \in DOMAIN manifests' : m \in DOMAIN manifests \/ m = Len(manifests) + 1
              /\ \A m \in DOMAIN manifests : m \in DOMAIN manifests' /\ manifests'[m] = manifests[m]
              /\ manifests'[Len(manifests) + 1].file = 0
              /\ manifests'[Len(manifests) + 1].final = arg[p].final
           \/ /\ pc[p] \in {"set file", "update manifest"} /\ local'[p] = local[p]
              /\ \/ faults' = faults /\ pc'[p] = "ok"
                 \/ pc[p] = "update manifest" /\ faults' = faults + 1 /\ pc'[p] = "error"
              /\ local[p].manifest \in DOMAIN manifests
              /\ Len(manifests') = Len(manifests) /\ DOMAIN manifests' = DOMAIN manifests
              /\ \A m \in DOMAIN manifests \ {local[p].manifest} : manifests'[m] = manifests[m]
              /\ manifests'[local[p].manifest].file = local[p].file
              /\ pc[p] = "set file" => manifests'[local[p].manifest].final = manifests[local[p].manifest].final
              /\ pc[p] = "update manifest" => manifests'[local[p].manifest].final = TRUE
  <1>1. CASE InsertManifest(p)
    <2>1. CASE Failing(p)
      BY <2>1 DEF Failing, SameTables
    <2> DEFINE row == [final |-> arg[p].final, file |-> 0]
    <2>2. CASE /\ pc[p] = "insert manifest" /\ faults' = faults /\ manifests' = Append(manifests, row)
                     /\ row \in Manifest
               /\ local'[p].manifest = Len(manifests) + 1
               /\ pc'[p] = (IF arg[p].upload THEN "insert file" ELSE "ok")
      <3>1. row.final = arg[p].final /\ row.file = 0
        OBVIOUS
      <3> HIDE DEF row
      <3>2. manifests \in Seq(Manifest) /\ row \in Manifest /\ manifests' = Append(manifests, row)
        BY <2>2, TableTypes
      <3>3. /\ Len(manifests') = Len(manifests) + 1
            /\ manifests'[Len(manifests) + 1] = row /\ Len(manifests) + 1 \in DOMAIN manifests'
            /\ \A m \in DOMAIN manifests : m \in DOMAIN manifests' /\ manifests'[m] = manifests[m]
            /\ \A m \in DOMAIN manifests' : m \in DOMAIN manifests \/ m = Len(manifests) + 1
        BY <3>2, AppendFacts
      <3> QED BY <2>2, <3>1, <3>3
    <2> QED BY <1>1, <2>1, <2>2, InsertManifestFacts
  <1>2. CASE SetManifestFile(p)
    <2> DEFINE row == [manifests[local[p].manifest] EXCEPT !.file = local[p].file]
    <2>1. /\ pc[p] = "set file" /\ pc'[p] = "ok" /\ local'[p] = local[p]
          /\ \/ faults' = faults /\ manifests' = [manifests EXCEPT ![local[p].manifest].file = local[p].file]
             \/ faults' = faults + 1 /\ manifests' = manifests
      BY <1>2, SetManifestFileFacts
    <2>2. /\ row \in Manifest /\ row.final = manifests[local[p].manifest].final /\ row.file = local[p].file
          /\ [manifests EXCEPT ![local[p].manifest].file = local[p].file] = [manifests EXCEPT ![local[p].manifest] = row]
      BY <2>1, SetShape
    <2> HIDE DEF row
    <2>3. local[p].manifest \in DOMAIN manifests /\ manifests \in Seq(Manifest) /\ row \in Manifest
      BY <2>1, <2>2, OwnManifest, TableTypes
    <2>4. CASE faults' = faults /\ manifests' = [manifests EXCEPT ![local[p].manifest] = row]
      <3>1. /\ DOMAIN manifests' = DOMAIN manifests /\ Len(manifests') = Len(manifests)
            /\ manifests'[local[p].manifest] = row
            /\ \A m \in DOMAIN manifests \ {local[p].manifest} : manifests'[m] = manifests[m]
        BY <2>3, <2>4, ExceptFacts
      <3> QED BY <2>1, <2>2, <2>3, <2>4, <3>1
    <2> QED BY <2>1, <2>2, <2>4
  <1>3. CASE UpdateManifestDigest(p)
    <2>1. CASE Failing(p)
      BY <2>1 DEF Failing, SameTables
    <2> DEFINE row == [final |-> TRUE, file |-> local[p].file]
    <2>2. CASE /\ pc[p] = "update manifest" /\ local'[p] = local[p]
               /\ \/ faults' = faults /\ pc'[p] = "ok"
                  \/ faults' = faults + 1 /\ pc'[p] = "error"
               /\ manifests' = [manifests EXCEPT ![local[p].manifest] = row]
      <3>1. row \in Manifest
        BY UpdateShape
      <3>2. row.final = TRUE /\ row.file = local[p].file
        OBVIOUS
      <3> HIDE DEF row
      <3>3. /\ local[p].manifest \in DOMAIN manifests /\ manifests \in Seq(Manifest) /\ row \in Manifest
            /\ manifests' = [manifests EXCEPT ![local[p].manifest] = row]
        BY <2>2, <3>1, OwnManifest, TableTypes
      <3>4. /\ DOMAIN manifests' = DOMAIN manifests /\ Len(manifests') = Len(manifests)
            /\ manifests'[local[p].manifest] = row
            /\ \A m \in DOMAIN manifests \ {local[p].manifest} : manifests'[m] = manifests[m]
        BY <3>3, ExceptFacts
      <3> QED BY <2>2, <3>2, <3>3, <3>4
    <2> QED BY <1>3, <2>1, <2>2, UpdateManifestDigestFacts
  <1>4. CASE \/ InsertManifestFile(p) \/ InsertFile(p) \/ FindManifest(p) \/ ReplaceManifestFile(p) \/ CountFiles(p)
             \/ Commit(p) \/ Open(p) \/ Copy(p) \/ CopyBreaks(p) \/ Unheard(p)
    BY <1>4, InsertManifestFileFacts, InsertFileFacts, FindManifestFacts, ReplaceManifestFileFacts,
       CountFilesFacts,
       CommitFacts, OpenFacts, CopyFacts, CopyBreaksFacts, UnheardFacts DEF Failing, SameTables
  <1> QED BY <1>1, <1>2, <1>3, <1>4 DEF Step

LEMMA RecordGrows ==
    ASSUME TypeInv, NEW p \in Slots, Step(p), NEW n, IsRecord(n)
    PROVE  IsRecord(n)'
  BY TablesStep DEF IsRecord, Grows

LEMMA RecordIs == ASSUME TypeInv, NEW n, IsRecord(n) PROVE n \in Nat /\ n # 0
  BY TableTypes DEF IsRecord

\* A record that was just appended.
LEMMA RecordNew ==
    ASSUME TypeInv, files' = Append(files, ManifestName)
    PROVE  Len(files) + 1 \in DOMAIN files' /\ files'[Len(files) + 1] = ManifestName
  <1>1. files \in Seq(Names) /\ ManifestName \in Names /\ files' = Append(files, ManifestName)
    BY TableTypes, ConstantFacts
  <1>2. files'[Len(files) + 1] = ManifestName /\ Len(files) + 1 \in DOMAIN files'
    BY <1>1, AppendFacts
  <1> QED BY <1>2 DEF IsRecord

\* The record a handler is about to write down.
LEMMA RecordHeld ==
    ASSUME TypeInv, RowsInv, NEW p \in Slots, Step(p), pc'[p] \in {"set file", "update manifest"}
    PROVE  local'[p].file \in DOMAIN files' /\ files'[local'[p].file] = ManifestName
  <1>1. CASE InsertManifestFile(p) \/ ReplaceManifestFile(p)
    <2>1. files' = Append(files, ManifestName) /\ local'[p].file = Len(files) + 1
      BY <1>1, InsertManifestFileFacts, ReplaceManifestFileFacts DEF Failing
    <2> QED BY <2>1, RecordNew DEF IsRecord
  <1>2. CASE FindManifest(p)
    <2>1. pc[p] = "find manifest" /\ local'[p].file = manifests[local[p].manifest].file /\ local'[p].file # 0
      BY <1>2, FindManifestFacts DEF Failing
    <2>2. local[p].manifest \in DOMAIN manifests
      BY <2>1, OwnManifest
    <2>3. IsRecord(manifests[local[p].manifest].file)
      BY <2>1, <2>2 DEF RowsInv
    <2>4. ASSUME NEW n, n = manifests[local[p].manifest].file PROVE IsRecord(n)'
      BY <2>3, <2>4, RecordGrows
    <2> QED BY <2>1, <2>4 DEF IsRecord
  <1>3. CASE InsertManifest(p) \/ SetManifestFile(p) \/ InsertFile(p) \/ UpdateManifestDigest(p)
    BY <1>3, InsertManifestFacts, SetManifestFileFacts, InsertFileFacts, UpdateManifestDigestFacts DEF Failing
  <1>4. CASE CountFiles(p) \/ Commit(p) \/ Open(p) \/ Copy(p) \/ CopyBreaks(p) \/ Unheard(p)
    BY <1>4, CountFilesFacts, CommitFacts, OpenFacts, CopyFacts, CopyBreaksFacts, UnheardFacts DEF Failing,
       Freed
  <1> QED BY <1>1, <1>2, <1>3, <1>4 DEF Step

LEMMA RowsNext == ASSUME TypeInv, RowsInv, Next PROVE RowsInv'
  <1>1. CASE Send
    <2>1. PICK p \in Slots, r \in Request : Sent(p, r)
      BY <1>1, SendFacts
    <2>2. pc'[p] \notin {"set file", "update manifest"}
      BY <2>1, RequestFields, FirstSteps DEF Sent, Ops
    <2> QED BY <2>1, <2>2 DEF Sent, Others, SameTables, RowsInv, IsRecord
  <1>2. CASE Quiet
    <2>1. Recedes /\ SameTables
      BY <1>2, QuietFacts
    <2> QED BY <2>1 DEF Recedes, SameTables, RowsInv, IsRecord
  <1>3. ASSUME NEW p \in Slots, Step(p) PROVE RowsInv'
    <2>1. \A n : IsRecord(n) => n \in DOMAIN files' /\ files'[n] = ManifestName
      BY <1>3, RecordGrows DEF IsRecord
    <2>2. ASSUME NEW m \in DOMAIN manifests'
          PROVE  manifests'[m].file = 0 \/ (manifests'[m].file \in DOMAIN files'
                    /\ files'[manifests'[m].file] = ManifestName)
      <3>1. CASE m \in DOMAIN manifests /\ manifests'[m] = manifests[m]
        BY <2>1, <3>1 DEF RowsInv
      <3>2. CASE manifests'[m].file = 0
        BY <3>2
      <3>3. CASE pc[p] \in {"set file", "update manifest"} /\ manifests'[m].file = local[p].file
        <4>1. IsRecord(local[p].file)
          BY <3>3 DEF RowsInv
        <4> QED BY <2>1, <3>3, <4>1
      <3> QED BY <1>3, <3>1, <3>2, <3>3, ManifestStep
    <2>3. ASSUME NEW q \in Slots, pc'[q] \in {"set file", "update manifest"}
          PROVE  local'[q].file \in DOMAIN files' /\ files'[local'[q].file] = ManifestName
      <3>1. CASE q = p
        BY <1>3, <2>3, <3>1, RecordHeld
      <3>2. CASE q # p
        <4>1. pc'[q] = pc[q] /\ local'[q] = local[q]
          BY <1>3, <3>2, StepClient DEF Others
        <4>2. IsRecord(local[q].file)
          BY <2>3, <4>1 DEF RowsInv
        <4> QED BY <2>1, <4>1, <4>2
      <3> QED BY <3>1, <3>2
    <2> QED BY <2>2, <2>3 DEF RowsInv, IsRecord
  <1> QED BY <1>1, <1>2, <1>3, NextShape

\* What was finished stays finished.
LEMMA FinishedGrows ==
    ASSUME TypeInv, RowsInv, NEW p \in Slots, Step(p), NEW m \in DOMAIN manifests
    PROVE  /\ m \in DOMAIN manifests'
           /\ manifests[m].final => manifests'[m].final
           /\ manifests[m].file # 0 => manifests'[m].file # 0
           /\ Finished(m) => Finished(m)'
  <1>1. m \in DOMAIN manifests' /\ (manifests[m].final => manifests'[m].final)
    BY TablesStep DEF Grows
  <1>2. manifests[m].file # 0 => manifests'[m].file # 0
    <2>1. CASE manifests'[m] = manifests[m]
      BY <2>1
    <2>2. CASE pc[p] \in {"set file", "update manifest"} /\ manifests'[m].file = local[p].file
      <3>1. IsRecord(local[p].file)
        BY <2>2 DEF RowsInv
      <3> QED BY <2>2, <3>1, RecordIs
    <2> QED BY <2>1, <2>2, ManifestStep
  <1>3. faults' = 0 => faults = 0
    BY StepClient, SlotTypes
  <1> QED BY <1>1, <1>2, <1>3 DEF Finished

LEMMA SealedStep ==
    ASSUME TypeInv, NEW p \in Slots, Step(p), Sealed'
    PROVE  Sealed
  <1>1. phase' = phase
    BY StepClient DEF SameClient
  <1> QED BY <1>1, CommittingStep DEF Sealed

LEMMA SealedSend ==
    ASSUME TypeInv, NEW p \in Slots, NEW r \in Request, Sent(p, r), Sealed'
    PROVE  Sealed
  <1>1. phase' = phase /\ SameTables /\ Others(p) /\ arg'[p] = r /\ Fits(r)
    BY DEF Sent
  <1>2. CASE r.op = "commit"
    BY <1>1, <1>2 DEF Fits, Sealed
  <1>3. CASE r.op # "commit"
    BY <1>1, <1>3 DEF Sealed, Committing, Others, SameTables
  <1> QED BY <1>2, <1>3

LEMMA SealedQuiet ==
    ASSUME TypeInv, LateInv, Quiet, Sealed'
    PROVE  \/ Sealed /\ held' = held
           \/ /\ Accepted /\ phase = "finalize" /\ awaited \in Slots /\ pc[awaited] = "ok"
                    /\ arg[awaited] = request
              /\ \/ request.op = "create" /\ request.upload /\ request.final
                       /\ held' = local[awaited].manifest
                 \/ request.op = "update" /\ request.manifest = held /\ held' = held
  <1>1. Committing' => Committing
    BY QuietFacts, CommittingQuiet
  <1>2. CASE Accepted
    <2>1. awaited \in Slots /\ pc[awaited] = "ok" /\ arg[awaited] = request
      BY <1>2, AcceptedFacts, Awaited
    <2>2. Committing => request.op = "commit"
      BY <1>2, AcceptedPhase DEF LateInv, Ops
    <2>3. phase = "reserve" \/ phase = "files" \/ phase = "puts" => ~Committing
      BY DEF LateInv
    <2>4. request.op = "create" => held' = local[awaited].manifest /\ phase = "finalize"
             /\ request.upload /\ request.final
      BY <1>1, <1>2, <2>3, AcceptedPhase DEF Sealed
    <2>5. request.op \in {"files", "put", "commit"} => Sealed /\ held' = held
      BY <1>1, <1>2, <2>3, AcceptedPhase DEF Sealed
    <2>6. request.op = "update" => phase = "finalize" /\ request.manifest = held /\ held' = held
      BY <1>2, AcceptedPhase
    <2>7. request.op \in Ops
      BY <1>2, AcceptedPhase
    <2> QED BY <1>2, <2>1, <2>4, <2>5, <2>6, <2>7 DEF Ops
  <1>3. CASE Refused
    BY <1>1, <1>3, RefusedFacts DEF Sealed
  <1>4. CASE Timeout \/ Crash \/ \E d \in Readers : OpenDownload(d) \/ ReadBlob(d)
    BY <1>1, <1>4, TimeoutFacts, CrashFacts, ReaderFacts DEF Sealed, SameClient
  <1> QED BY <1>2, <1>3, <1>4 DEF Quiet

LEMMA DoneStep ==
    ASSUME TypeInv, RowsInv, FinalInv, NEW p \in Slots, Step(p)
    PROVE  Done(p)'
  <1>1. Done(p) /\ (pc'[p] # "idle" => arg'[p] = arg[p])
    BY StepClient, UnheardFacts DEF Freed, FinalInv
  <1>2. CASE InsertManifest(p)
    <2>1. pc[p] = "insert manifest" /\ arg[p].op = "create"
      BY <1>2, InsertManifestFacts DEF TypeInv, Handles
    <2>2. pc'[p] = "error" \/ (local'[p].manifest = Len(manifests) + 1
             /\ pc'[p] = (IF arg[p].upload THEN "insert file" ELSE "ok"))
      BY <1>2, InsertManifestFacts DEF Failing
    <2>3. pc'[p] # "error" => manifests'[Len(manifests) + 1].final = arg[p].final
      <3>1. ASSUME pc'[p] # "error" PROVE manifests' # manifests
        <4> DEFINE row == [final |-> arg[p].final, file |-> 0]
        <4>1. row \in Manifest /\ manifests \in Seq(Manifest) /\ manifests' = Append(manifests, row)
          BY <1>2, <3>1, InsertManifestFacts, TableTypes DEF Failing
        <4> HIDE DEF row
        <4>2. Len(manifests') = Len(manifests) + 1 /\ Len(manifests) \in Nat
          BY <4>1, AppendFacts
        <4> QED BY <4>2
      <3> QED BY <2>1, <3>1, <1>2, ManifestStep DEF Step
    <2> QED BY <1>1, <2>1, <2>2, <2>3 DEF Done
  <1>3. CASE InsertManifestFile(p)
    <2>1. pc[p] = "insert file" /\ (pc'[p] = "error" \/ (pc'[p] = "set file" /\ manifests' = manifests
             /\ local'[p].manifest = local[p].manifest))
      BY <1>3, InsertManifestFileFacts DEF Failing
    <2> QED BY <1>1, <2>1 DEF Done
  <1>4. CASE SetManifestFile(p)
    <2>1. /\ pc[p] = "set file" /\ pc'[p] = "ok" /\ local'[p] = local[p] /\ arg[p].op = "create"
          /\ local[p].manifest \in DOMAIN manifests
      BY <1>4, SetManifestFileFacts DEF TypeInv, Handles
    <2>2. manifests[local[p].manifest].final => manifests'[local[p].manifest].final
      BY <2>1, FinishedGrows
    <2>3. faults' = 0 => manifests'[local[p].manifest].file # 0
      <3>1. IsRecord(local[p].file)
        BY <2>1 DEF RowsInv
      <3>2. local[p].file # 0
        BY <3>1, RecordIs
      <3>3. faults' = faults + 1 => faults' # 0
        BY SlotTypes
      <3> DEFINE row == [manifests[local[p].manifest] EXCEPT !.file = local[p].file]
      <3>4. /\ row \in Manifest /\ row.file = local[p].file
            /\ [manifests EXCEPT ![local[p].manifest].file = local[p].file] = [manifests EXCEPT ![local[p].manifest] = row]
        BY <2>1, SetShape
      <3> HIDE DEF row
      <3>5. CASE manifests' = [manifests EXCEPT ![local[p].manifest] = row]
        <4>1. /\ local[p].manifest \in DOMAIN manifests /\ manifests \in Seq(Manifest) /\ row \in Manifest
              /\ manifests' = [manifests EXCEPT ![local[p].manifest] = row]
          BY <2>1, <3>4, <3>5, TableTypes
        <4>2. manifests'[local[p].manifest] = row
          BY <4>1, ExceptFacts
        <4> QED BY <3>2, <3>4, <4>2
      <3> QED BY <1>4, <3>3, <3>4, <3>5, SetManifestFileFacts
    <2> QED BY <1>1, <2>1, <2>2, <2>3 DEF Done
  <1>5. CASE UpdateManifestDigest(p)
    <2>1. pc[p] = "update manifest" /\ arg[p].op = "update" /\ local[p].manifest = arg[p].manifest
             /\ local[p].manifest \in DOMAIN manifests
      BY <1>5, UpdateManifestDigestFacts DEF TypeInv, Handles
    <2>2. CASE pc'[p] = "error"
      BY <1>1, <2>2 DEF Done
    <2>3. CASE manifests' = [manifests EXCEPT ![local[p].manifest] = [final |-> TRUE, file |-> local[p].file]]
      <3>1. IsRecord(local[p].file)
        BY <2>1 DEF RowsInv
      <3>2. local[p].file # 0
        BY <3>1, RecordIs
      <3> DEFINE row == [final |-> TRUE, file |-> local[p].file]
      <3>3. row \in Manifest
        BY UpdateShape
      <3>4. row.final = TRUE /\ row.file = local[p].file
        OBVIOUS
      <3> HIDE DEF row
      <3>5. /\ local[p].manifest \in DOMAIN manifests /\ manifests \in Seq(Manifest) /\ row \in Manifest
            /\ manifests' = [manifests EXCEPT ![local[p].manifest] = row]
        BY <2>1, <2>3, <3>3, TableTypes DEF row
      <3>6. manifests'[local[p].manifest] = row
        BY <3>5, ExceptFacts
      <3>7. manifests'[arg[p].manifest].final /\ manifests'[arg[p].manifest].file # 0
        BY <2>1, <3>2, <3>4, <3>6
      <3>8. pc'[p] # "idle" /\ arg'[p].op = "update"
        BY <1>1, <1>5, <2>1, UpdateManifestDigestFacts DEF Failing
      <3> QED BY <1>1, <3>7, <3>8 DEF Done, Finished
    <2> QED BY <1>5, <2>2, <2>3, UpdateManifestDigestFacts DEF Failing
  <1>6. CASE InsertFile(p) \/ Commit(p) \/ Open(p) \/ Copy(p) \/ CopyBreaks(p)
    <2>1. pc[p] \in {"insert files", "commit", "open", "copy"}
      BY <1>6, InsertFileFacts, CommitFacts, OpenFacts, CopyFacts, CopyBreaksFacts
    <2>2. arg[p].op \in {"files", "commit", "put"}
      BY <2>1 DEF TypeInv, Handles
    <2> QED BY <1>1, <2>2 DEF Done
  <1>7. CASE FindManifest(p) \/ ReplaceManifestFile(p) \/ CountFiles(p) \/ Unheard(p)
    <2>1. pc'[p] \notin {"insert file", "set file", "ok"}
      BY <1>7, FindManifestFacts, ReplaceManifestFileFacts, CountFilesFacts, UnheardFacts DEF Failing, Freed
    <2> QED BY <2>1 DEF Done
  <1> QED BY <1>2, <1>3, <1>4, <1>5, <1>6, <1>7 DEF Step

LEMMA FinalNext == ASSUME TypeInv, LateInv, RowsInv, FinalInv, Next PROVE FinalInv'
  <1>1. CASE Send
    <2>1. PICK p \in Slots, r \in Request : Sent(p, r)
      BY <1>1, SendFacts
    <2>2. pc'[p] \notin {"insert file", "set file", "ok"}
      BY <2>1, RequestFields, FirstSteps DEF Sent, Ops
    <2>3. SameTables /\ faults' = faults /\ held' = held /\ Others(p)
      BY <2>1 DEF Sent
    <2>4. \A q \in Slots : Done(q)'
      BY <2>2, <2>3 DEF Others, SameTables, FinalInv, Done, Finished
    <2>5. Sealed' => Sealed
      BY <2>1, SealedSend
    <2> QED BY <2>3, <2>4, <2>5 DEF FinalInv, SameTables, Finished
  <1>2. CASE Quiet
    <2>1. Recedes /\ SameTables /\ faults' = faults
      BY <1>2, QuietFacts
    <2>2. \A q \in Slots : Done(q)'
      <3> SUFFICES ASSUME NEW q \in Slots PROVE Done(q)'
        OBVIOUS
      <3>1. CASE pc'[q] = "idle"
        BY <3>1 DEF Done
      <3>2. CASE pc'[q] = pc[q] /\ arg'[q] = arg[q] /\ at'[q] = at[q] /\ local'[q] = local[q]
        <4>1. Done(q) /\ manifests' = manifests
          BY <2>1 DEF FinalInv, SameTables
        <4> QED BY <2>1, <3>2, <4>1 DEF Done, Finished
      <3> QED BY <2>1, <3>1, <3>2 DEF Recedes
    <2>3. Sealed' => held' \in DOMAIN manifests' /\ manifests'[held'].final
             /\ (faults' = 0 => manifests'[held'].file # 0)
      <3>1. CASE Sealed /\ held' = held
        BY <2>1, <3>1 DEF FinalInv, SameTables, Finished
      <3>2. CASE /\ awaited \in Slots /\ pc[awaited] = "ok" /\ arg[awaited] = request
                 /\ request.op = "create" /\ request.upload /\ request.final
                       /\ held' = local[awaited].manifest
        <4>1. local[awaited].manifest \in DOMAIN manifests
          BY <3>2 DEF TypeInv, Handles
        <4>2. Done(awaited)
          BY <3>2 DEF FinalInv
        <4> QED BY <2>1, <3>2, <4>1, <4>2 DEF Done, SameTables
      <3>3. CASE /\ awaited \in Slots /\ pc[awaited] = "ok" /\ arg[awaited] = request
                 /\ request.op = "update" /\ request.manifest = held /\ held' = held
        <4>1. arg[awaited].manifest \in DOMAIN manifests
          BY <3>3 DEF TypeInv, Handles
        <4>2. Finished(held)
          BY <3>3 DEF FinalInv, Done
        <4> QED BY <2>1, <3>3, <4>1, <4>2 DEF Finished, SameTables
      <3> QED BY <1>2, <3>1, <3>2, <3>3, SealedQuiet
    <2> QED BY <2>2, <2>3 DEF FinalInv, Finished
  <1>3. ASSUME NEW p \in Slots, Step(p) PROVE FinalInv'
    <2>1. held' = held /\ Others(p) /\ (pc'[p] # "idle" => arg'[p] = arg[p])
      BY <1>3, StepClient, UnheardFacts DEF SameClient, Freed
    <2>2. Sealed' => held' \in DOMAIN manifests' /\ manifests'[held'].final
             /\ (faults' = 0 => manifests'[held'].file # 0)
      <3>1. Sealed' => Sealed
        BY <1>3, SealedStep
      <3>2. \A m \in DOMAIN manifests : Finished(m) =>
               m \in DOMAIN manifests' /\ manifests'[m].final /\ (faults' = 0 => manifests'[m].file # 0)
        BY <1>3, FinishedGrows DEF Finished
      <3> QED BY <2>1, <3>1, <3>2 DEF FinalInv, Finished
    <2>3. ASSUME NEW q \in Slots, q # p PROVE Done(q)'
      <3>1. pc'[q] = pc[q] /\ arg'[q] = arg[q] /\ local'[q] = local[q] /\ Done(q)
               /\ (faults' = 0 => faults = 0)
        BY <1>3, <2>1, <2>3, StepClient, SlotTypes DEF Others, FinalInv
      <3>2. /\ pc[q] \in {"insert file", "set file"} => local[q].manifest \in DOMAIN manifests
            /\ pc[q] = "ok" /\ arg[q].op = "create" => local[q].manifest \in DOMAIN manifests
            /\ pc[q] = "ok" /\ arg[q].op = "update" => arg[q].manifest \in DOMAIN manifests
        BY DEF TypeInv, Handles
      <3>3. CASE pc[q] \in {"insert file", "set file", "ok"} /\ arg[q].op = "create"
        BY <1>3, <3>1, <3>2, <3>3, FinishedGrows DEF Done
      <3>4. CASE pc[q] = "ok" /\ arg[q].op = "update"
        <4>1. Finished(arg[q].manifest)'
          BY <1>3, <3>1, <3>2, <3>4, FinishedGrows DEF Done
        <4> QED BY <3>1, <3>4, <4>1 DEF Done, Finished
      <3>5. CASE /\ ~(pc[q] \in {"insert file", "set file", "ok"} /\ arg[q].op = "create")
                 /\ ~(pc[q] = "ok" /\ arg[q].op = "update")
        BY <3>1, <3>5 DEF Done
      <3> QED BY <3>3, <3>4, <3>5
    <2>4. Done(p)'
      BY <1>3, DoneStep
    <2> QED BY <2>2, <2>3, <2>4 DEF FinalInv, Finished
  <1> QED BY <1>1, <1>2, <1>3, NextShape

(***************************************************************************)
(* The latest manifest.                                                    *)
(***************************************************************************)
LEMMA NotOneMore == ASSUME NEW n \in Nat, NEW m, m = n PROVE m # n + 1
  OBVIOUS

LEMMA AppendLength ==
    \A T : \A s \in Seq(T) : \A x \in T : Len(Append(s, x)) = Len(s) + 1
  OBVIOUS

LEMMA LatestStep ==
    ASSUME TypeInv, NEW p \in Slots, Step(p), pc'[p] \in {"insert file", "set file", "ok"}, arg[p].op = "create"
    PROVE  \/ /\ pc[p] = "insert manifest" /\ Len(manifests') = Len(manifests) + 1
              /\ local'[p].manifest = Len(manifests')
           \/ /\ pc[p] \in {"insert file", "set file"} /\ Len(manifests') = Len(manifests)
              /\ local'[p].manifest = local[p].manifest
  <1>1. CASE InsertManifest(p)
    <2>1. PICK row \in Manifest :
            /\ manifests' = Append(manifests, row)
            /\ local'[p].manifest = Len(manifests) + 1 /\ pc[p] = "insert manifest"
      BY <1>1, InsertManifestFacts DEF Failing
    <2>a. manifests \in Seq(Manifest) /\ row \in Manifest /\ manifests' = Append(manifests, row)
      BY <2>1, TableTypes
    <2>2. Len(manifests') = Len(manifests) + 1
      BY <2>a, AppendLength
    <2> QED BY <2>1, <2>2
  <1>2. CASE InsertManifestFile(p)
    BY <1>2, InsertManifestFileFacts DEF Failing
  <1>3. CASE SetManifestFile(p)
    <2>1. pc[p] = "set file" /\ local'[p] = local[p]
      BY <1>3, SetManifestFileFacts
    <2> QED BY <2>1, ManifestStep
  <1>4. CASE InsertFile(p) \/ Commit(p) \/ Open(p) \/ Copy(p) \/ CopyBreaks(p) \/ UpdateManifestDigest(p)
    <2>1. pc[p] \in {"insert files", "commit", "open", "copy", "update manifest"}
      BY <1>4, InsertFileFacts, CommitFacts, OpenFacts, CopyFacts, CopyBreaksFacts, UpdateManifestDigestFacts
    <2> QED BY <2>1 DEF TypeInv, Handles
  <1>5. CASE FindManifest(p) \/ ReplaceManifestFile(p) \/ CountFiles(p) \/ Unheard(p)
    BY <1>5, FindManifestFacts, ReplaceManifestFileFacts, CountFilesFacts, UnheardFacts DEF Failing, Freed
  <1> QED BY <1>1, <1>2, <1>3, <1>4, <1>5 DEF Step

\* While a createArtifactManifest is answered the artifact is not committed.
LEMMA CreateEarly ==
    ASSUME TypeInv, LateInv, request # None, request.op = "create"
    PROVE  ~Sealed
  BY DEF TypeInv, Asked, Fits, LateInv, Sealed

LEMMA LatestNext == ASSUME TypeInv, LateInv, LeftInv, LatestInv, Next PROVE LatestInv'
  <1> SUFFICES ASSUME "create" \notin gaveUp' PROVE LatestInv'
    BY DEF LatestInv
  <1>1. CASE Send
    <2>1. PICK p \in Slots, r \in Request : Sent(p, r)
      BY <1>1, SendFacts
    <2>2. pc'[p] \notin {"insert file", "set file", "ok"}
      BY <2>1, RequestFields, FirstSteps DEF Sent, Ops
    <2>3. /\ request' = r /\ (request = None \/ request = r) /\ phase' = phase /\ held' = held
          /\ manifests' = manifests /\ gaveUp' = gaveUp /\ awaited' = p /\ r # None
      BY <2>1, RequestFields DEF Sent, SameTables
    <2>4. Sealed' => Sealed
      BY <2>1, SealedSend
    <2> QED BY <2>2, <2>3, <2>4 DEF LatestInv
  <1>2. ASSUME NEW p \in Slots, Step(p) PROVE LatestInv'
    <2>1. SameClient /\ Others(p) /\ (pc'[p] # "idle" => arg'[p] = arg[p])
      BY <1>2, StepClient, UnheardFacts DEF Freed
    <2>2. Sealed' => Sealed
      BY <1>2, SealedStep
    <2>3. CASE Len(manifests') = Len(manifests)
      <3>1. ASSUME awaited # None, arg'[awaited].op = "create", pc'[awaited] \in {"insert file", "set file", "ok"}
            PROVE  local'[awaited].manifest = Len(manifests')
        <4>1. awaited \in Slots
          BY <3>1, Awaited
        <4>2. CASE awaited = p
          <5>1. Len(manifests) \in Nat /\ arg[p].op = "create" /\ pc'[p] \in {"insert file", "set file", "ok"}
            BY <2>1, <3>1, <4>2, ManifestLength
          <5>3. Len(manifests') # Len(manifests) + 1
            BY <2>3, <5>1, NotOneMore
          <5>2. /\ pc[p] \in {"insert file", "set file"} /\ local'[p].manifest = local[p].manifest
            BY <1>2, <5>1, <5>3, LatestStep
          <5> QED BY <2>1, <2>3, <3>1, <4>2, <5>1, <5>2 DEF LatestInv, SameClient
        <4>3. CASE awaited # p
          BY <2>1, <2>3, <3>1, <4>1, <4>3 DEF Others, LatestInv, SameClient
        <4> QED BY <4>2, <4>3
      <3> QED BY <2>1, <2>2, <2>3, <3>1 DEF LatestInv, SameClient
    <2>4. CASE /\ pc[p] = "insert manifest" /\ Len(manifests') = Len(manifests) + 1
               /\ local'[p].manifest = Len(manifests) + 1
      <3>1. arg[p].op = "create"
        BY <2>4 DEF TypeInv, Handles
      <3>2. p = awaited
        BY <2>1, <2>4, <3>1 DEF LeftInv, Working, SameClient
      <3>3. request # None /\ request.op = "create"
        BY <3>1, <3>2, ConstantFacts, Awaited
      <3>4. ~Sealed'
        BY <2>2, <3>3, CreateEarly
      <3> QED BY <2>1, <2>4, <3>2, <3>3, <3>4 DEF LatestInv, SameClient
    <2>5. manifests' = manifests => Len(manifests') = Len(manifests)
      OBVIOUS
    <2> QED BY <1>2, <2>3, <2>4, <2>5, ManifestStep
  <1>3. CASE Quiet
    <2>1. manifests' = manifests /\ "create" \notin gaveUp
      BY <1>3, QuietFacts, TimeoutFacts, AcceptedFacts, RefusedFacts, CrashFacts, ReaderFacts
         DEF Quiet, SameTables, SameClient
    <2>2. Sealed' => held' = Len(manifests')
      <3>1. CASE Sealed /\ held' = held
        BY <2>1, <3>1 DEF LatestInv
      <3>2. CASE /\ phase = "finalize" /\ awaited \in Slots /\ pc[awaited] = "ok" /\ arg[awaited] = request
                 /\ request.op = "create" /\ held' = local[awaited].manifest
        BY <2>1, <3>2, ConstantFacts DEF LatestInv
      <3>3. CASE phase = "finalize" /\ request.op = "update" /\ held' = held
        BY <2>1, <3>3 DEF LatestInv
      <3> QED BY <1>3, <3>1, <3>2, <3>3, SealedQuiet
    <2>3. CASE Accepted
      <3>1. awaited' = None /\ request' = None /\ awaited # None /\ pc[awaited] = "ok"
               /\ arg[awaited] = request
        BY <2>3, AcceptedFacts, Awaited
      <3>2. ASSUME phase' \in {"files", "puts", "finalize"} PROVE held' = Len(manifests')
        <4>1. CASE request.op = "create"
          BY <2>1, <2>3, <3>1, <4>1, AcceptedPhase DEF LatestInv
        <4>2. CASE request.op \in {"files", "put"}
          BY <2>1, <2>3, <3>1, <3>2, <4>2, AcceptedPhase DEF LatestInv
        <4> QED BY <2>3, <3>2, <4>1, <4>2, AcceptedPhase DEF Ops
      <3> QED BY <2>2, <3>1, <3>2 DEF LatestInv
    <2>4. CASE Refused
      BY <2>1, <2>2, <2>4, RefusedFacts DEF LatestInv
    <2>5. CASE Timeout \/ Crash
      BY <2>1, <2>2, <2>5, TimeoutFacts, CrashFacts DEF LatestInv
    <2>6. CASE \E d \in Readers : OpenDownload(d) \/ ReadBlob(d)
      BY <2>1, <2>2, <2>6, ReaderFacts DEF LatestInv, SameSlots, SameClient
    <2> QED BY <1>3, <2>3, <2>4, <2>5, <2>6 DEF Quiet
  <1> QED BY <1>1, <1>2, <1>3, NextShape

(***************************************************************************)
(* Every entry has a record.                                               *)
(***************************************************************************)
LEMMA RangeGrows == ASSUME TypeInv, Grows PROVE Range(files) \subseteq Range(files')
  BY DEF Grows, Range

LEMMA EntryNext == ASSUME TypeInv, LateInv, EntryInv, Next PROVE EntryInv'
  <1>1. CASE Send
    <2>1. PICK p \in Slots, r \in Request : Sent(p, r)
      BY <1>1, SendFacts
    <2>2. pc'[p] # "ok" /\ at'[p] = 0 /\ files' = files /\ phase' = phase /\ Others(p)
      BY <2>1, RequestFields, FirstSteps DEF Sent, Ops, SameTables
    <2>3. Sealed' => Sealed
      BY <2>1, SealedSend
    <2> QED BY <2>2, <2>3, FirstNone DEF EntryInv, Others
  <1>2. CASE Quiet
    <2>1. Recedes /\ files' = files
      BY <1>2, QuietFacts DEF SameTables
    <2>2. Sealed' => Range(Entries) \subseteq Range(files)
      BY <1>2, SealedQuiet DEF EntryInv
    <2>3. phase' \in {"puts", "finalize"} => Range(Entries) \subseteq Range(files)
      <3>1. CASE Accepted
        <4>1. awaited \in Slots /\ pc[awaited] = "ok" /\ arg[awaited] = request
          BY <3>1, AcceptedFacts, Awaited
        <4> QED BY <3>1, <4>1, AcceptedPhase DEF EntryInv, Ops
      <3>2. CASE Timeout \/ Refused \/ Crash \/ \E d \in Readers : OpenDownload(d) \/ ReadBlob(d)
        BY <3>2, TimeoutFacts, RefusedFacts, CrashFacts, ReaderFacts DEF EntryInv, SameClient
      <3> QED BY <1>2, <3>1, <3>2 DEF Quiet
    <2> QED BY <2>1, <2>2, <2>3 DEF EntryInv, Recedes
  <1>3. ASSUME NEW p \in Slots, Step(p) PROVE EntryInv'
    <2>1. phase' = phase /\ Others(p) /\ (pc'[p] # "idle" => arg'[p] = arg[p]) /\ (Sealed' => Sealed)
      BY <1>3, StepClient, UnheardFacts, SealedStep DEF Freed, SameClient
    <2>2. Range(files) \subseteq Range(files')
      BY <1>3, TablesStep, RangeGrows
    <2>3. /\ pc'[p] = "insert files" => First(at'[p]) \subseteq Range(files')
          /\ pc'[p] = "ok" /\ arg[p].op = "files" => Range(Entries) \subseteq Range(files')
      <3>1. CASE InsertFile(p) /\ pc'[p] # "error"
        <4>1. /\ pc[p] = "insert files" /\ files' = Append(files, Entries[at[p] + 1])
                    /\ Entries[at[p] + 1] \in Names
              /\ at'[p] = at[p] + 1 /\ pc'[p] = (IF at[p] + 1 = Len(Entries) THEN "ok" ELSE "insert files")
          BY <3>1, InsertFileFacts DEF Failing
        <4>2. at[p] \in Nat /\ at[p] < Len(Entries) /\ Len(Entries) \in Nat
          BY <4>1, Unchanged, ConstantFacts DEF TypeInv, Handles
        <4>3. at[p] \in 0..Len(Entries)
          BY <4>2
        <4>4. First(at[p] + 1) = First(at[p]) \cup {Entries[at[p] + 1]}
          BY <4>2, <4>3, FirstMore
        <4>a. files \in Seq(Names) /\ Entries[at[p] + 1] \in Names
                 /\ files' = Append(files, Entries[at[p] + 1])
          BY <4>1, TableTypes
        <4>b. Len(files) + 1 \in DOMAIN files' /\ files'[Len(files) + 1] = Entries[at[p] + 1]
          BY <4>a, AppendFacts
        <4>5. Entries[at[p] + 1] \in Range(files')
          BY <4>b DEF Range
        <4>6. First(at[p] + 1) \subseteq Range(files')
          BY <2>2, <4>1, <4>4, <4>5 DEF EntryInv
        <4> QED BY <4>1, <4>6, FirstAll
      <3>2. CASE \/ InsertFile(p) /\ pc'[p] = "error"
                 \/ InsertManifest(p) \/ InsertManifestFile(p) \/ SetManifestFile(p) \/ UpdateManifestDigest(p)
                 \/ Commit(p) \/ Open(p) \/ Copy(p) \/ CopyBreaks(p)
        <4>1. pc'[p] # "insert files"
          BY <3>2, InsertManifestFacts, InsertManifestFileFacts, SetManifestFileFacts,
             UpdateManifestDigestFacts,
             CommitFacts, OpenFacts, CopyFacts, CopyBreaksFacts DEF Failing
        <4>2. pc'[p] = "ok" => pc[p] \in {"insert manifest", "insert file", "set file", "update manifest", "commit", "open", "copy"}
          BY <3>2, InsertManifestFacts, InsertManifestFileFacts, SetManifestFileFacts,
             UpdateManifestDigestFacts,
             CommitFacts, OpenFacts, CopyFacts, CopyBreaksFacts DEF Failing
        <4>3. pc'[p] = "ok" => arg[p].op # "files"
          BY <4>2 DEF TypeInv, Handles
        <4> QED BY <4>1, <4>3
      <3>3. CASE FindManifest(p) \/ ReplaceManifestFile(p) \/ CountFiles(p) \/ Unheard(p)
        BY <3>3, FindManifestFacts, ReplaceManifestFileFacts, CountFilesFacts, UnheardFacts DEF Failing, Freed
      <3> QED BY <1>3, <3>1, <3>2, <3>3 DEF Step
    <2> QED BY <2>1, <2>2, <2>3 DEF EntryInv, Others
  <1> QED BY <1>1, <1>2, <1>3, NextShape

(***************************************************************************)
(* The count of the files.                                                 *)
(***************************************************************************)
LEMMA EntriesCount == IsFiniteSet(Range(Entries)) /\ Cardinality(Range(Entries)) = Len(Entries)
  <1> DEFINE S == 1..Len(Entries)
             T == Range(Entries)
  <1>1. IsFiniteSet(S) /\ Cardinality(S) = Len(Entries)
    <2>1. Len(Entries) \in Nat /\ 1 \in Int /\ Len(Entries) \in Int /\ Len(Entries) > 0
      BY ConstantFacts
    <2>2. IsFiniteSet(S) /\ Cardinality(S) = IF 1 > Len(Entries) THEN 0 ELSE Len(Entries) - 1 + 1
      BY <2>1, FS_Interval
    <2> QED BY <2>1, <2>2
  <1>2. Entries \in [S -> T]
    <2>1. Entries \in Seq(T)
      BY ConstantFacts
    <2> QED BY <2>1
  <1>3. \A t \in T : \E s \in S : Entries[s] = t
    BY ConstantFacts
  <1>4. \A a, b \in S : Entries[a] = Entries[b] => a = b
    BY ConstantFacts
  <1> HIDE DEF S, T
  <1>5. Entries \in Surjection(S, T) /\ Entries \in Injection(S, T)
    BY <1>2, <1>3, <1>4 DEF Surjection, Injection, IsInjective
  <1>6. IsFiniteSet(T) /\ Cardinality(T) = Cardinality(S)
    BY <1>1, <1>5, FS_Surjection
  <1> QED BY <1>1, <1>6 DEF T

LEMMA NamesCount == IsFiniteSet(Names) /\ Cardinality(Names) = Len(Entries) + 1
  BY EntriesCount, ConstantFacts, FS_AddElement

\* A record for each file and the manifest.
LEMMA RecordsCount ==
    ASSUME TypeInv, Range(Entries) \subseteq Range(files), ManifestName \in Range(files)
    PROVE  AtLeast(Len(files))
  <1> DEFINE S == 1..Len(files)
  <1>1. files \in [S -> Names] /\ Len(files) \in Nat
    BY TableTypes
  <1>2. \A t \in Names : \E s \in S : files[s] = t
    <2>1. Names \subseteq Range(files)
      BY ConstantFacts
    <2>2. Range(files) = {files[s] : s \in S}
      BY <1>1 DEF Range
    <2> QED BY <2>1, <2>2
  <1>3. IsFiniteSet(S) /\ Cardinality(S) = Len(files)
    <2>1. 1 \in Int /\ Len(files) \in Int
      BY <1>1
    <2>2. IsFiniteSet(S) /\ Cardinality(S) = IF 1 > Len(files) THEN 0 ELSE Len(files) - 1 + 1
      BY <2>1, FS_Interval
    <2> QED BY <1>1, <2>2
  <1> HIDE DEF S
  <1>4. files \in Surjection(S, Names)
    BY <1>1, <1>2 DEF Surjection
  <1>5. Cardinality(Names) <= Cardinality(S)
    BY <1>3, <1>4, FS_Surjection
  <1> QED BY <1>3, <1>5, NamesCount DEF AtLeast

LEMMA CountStep ==
    ASSUME TypeInv, NEW p \in Slots, Step(p), pc'[p] = "commit", faults' = 0
    PROVE  pc[p] = "count" /\ faults = 0 /\ local'[p].count = Len(files)
  <1>1. faults + 1 # 0
    BY SlotTypes
  <1>2. CASE CountFiles(p)
    BY <1>1, <1>2, CountFilesFacts DEF Failing
  <1>3. CASE \/ InsertManifest(p) \/ InsertManifestFile(p) \/ SetManifestFile(p) \/ InsertFile(p)
             \/ FindManifest(p) \/ ReplaceManifestFile(p) \/ UpdateManifestDigest(p)
    BY <1>3, InsertManifestFacts, InsertManifestFileFacts, SetManifestFileFacts, InsertFileFacts,
       FindManifestFacts,
       ReplaceManifestFileFacts, UpdateManifestDigestFacts DEF Failing
  <1>4. CASE Commit(p) \/ Open(p) \/ Copy(p) \/ CopyBreaks(p) \/ Unheard(p)
    BY <1>4, CommitFacts, OpenFacts, CopyFacts, CopyBreaksFacts, UnheardFacts DEF Failing, Freed
  <1> QED BY <1>2, <1>3, <1>4 DEF Step

LEMMA CountNext == ASSUME TypeInv, RowsInv, FinalInv, EntryInv, CountInv, Next PROVE CountInv'
  <1>1. CASE Send
    <2>1. PICK p \in Slots, r \in Request : Sent(p, r)
      BY <1>1, SendFacts
    <2>2. pc'[p] # "commit" /\ artifact' = artifact /\ Others(p) /\ faults' = faults
      BY <2>1, RequestFields, FirstSteps DEF Sent, Ops, SameTables
    <2> QED BY <2>2 DEF CountInv, Others
  <1>2. CASE Quiet
    BY <1>2, QuietFacts DEF Recedes, SameTables, CountInv
  <1>3. ASSUME NEW p \in Slots, Step(p), faults' = 0
        PROVE  /\ \A q \in Slots : pc'[q] = "commit" => AtLeast(local'[q].count)
               /\ artifact'.committed => AtLeast(artifact'.count)
    <2>1. faults = 0 /\ Others(p)
      BY <1>3, StepClient, SlotTypes
    <2>2. pc'[p] = "commit" => AtLeast(local'[p].count)
      <3> SUFFICES ASSUME pc'[p] = "commit" PROVE AtLeast(local'[p].count)
        OBVIOUS
      <3>1. pc[p] = "count" /\ local'[p].count = Len(files)
        BY <1>3, CountStep
      <3>2. Sealed
        BY <3>1 DEF TypeInv, Handles, Sealed, Committing
      <3>3. held \in DOMAIN manifests /\ manifests[held].file # 0
        BY <2>1, <3>2 DEF FinalInv, Finished
      <3>4. ManifestName \in Range(files)
        BY <3>3 DEF RowsInv, IsRecord, Range
      <3>5. Range(Entries) \subseteq Range(files)
        BY <3>2 DEF EntryInv
      <3> QED BY <3>1, <3>4, <3>5, RecordsCount
    <2>3. artifact'.committed => AtLeast(artifact'.count)
      BY <1>3, <2>1, ArtifactStep DEF CountInv
    <2> QED BY <2>1, <2>2, <2>3 DEF CountInv, Others
  <1> QED BY <1>1, <1>2, <1>3, NextShape DEF CountInv

(***************************************************************************)
(* No record is stored twice when nothing failed and nothing is repeated.  *)
(***************************************************************************)
LEMMA FilesLength == ASSUME TypeInv PROVE Len(files) \in Nat
  BY TableTypes

LEMMA FileAdded ==
    ASSUME TypeInv, NEW x \in Names, files' = Append(files, x)
    PROVE  Len(files') = Len(files) + 1
  <1>1. files \in Seq(Names) /\ x \in Names /\ files' = Append(files, x)
    BY TableTypes
  <1> QED BY <1>1, AppendLength

LEMMA FilesStep ==
    ASSUME TypeInv, NEW p \in Slots, Step(p), faults' = faults, p = awaited
    PROVE  \/ /\ Len(files') = Len(files) + 1 /\ arg[p].op \in {"create", "update"}
              /\ pc[p] \in Early /\ pc'[p] \notin Early
           \/ Len(files') = Len(files) + 1 /\ arg[p].op = "files" /\ at'[p] = at[p] + 1
           \/ Len(files') = Len(files) /\ arg[p].op \in {"create", "update"}
                 /\ (pc'[p] \in Early => pc[p] \in Early)
           \/ Len(files') = Len(files) /\ arg[p].op \in {"put", "commit"}
  <1>1. faults + 1 # faults
    BY SlotTypes
  <1>2. CASE InsertManifestFile(p) \/ ReplaceManifestFile(p)
    <2>1. files' = Append(files, ManifestName) /\ ManifestName \in Names
      BY <1>1, <1>2, InsertManifestFileFacts, ReplaceManifestFileFacts, ConstantFacts DEF Failing
    <2>2. pc[p] \in {"insert file", "update file"} /\ pc'[p] \in {"set file", "update manifest"}
      BY <1>1, <1>2, InsertManifestFileFacts, ReplaceManifestFileFacts DEF Failing
    <2>3. arg[p].op \in {"create", "update"}
      BY <2>2 DEF TypeInv, Handles
    <2>4. Len(files') = Len(files) + 1
      BY <2>1, FileAdded
    <2> QED BY <2>2, <2>3, <2>4 DEF Early
  <1>3. CASE InsertFile(p)
    <2>1. files' = Append(files, Entries[at[p] + 1]) /\ Entries[at[p] + 1] \in Names
             /\ pc[p] = "insert files" /\ at'[p] = at[p] + 1
      BY <1>1, <1>3, InsertFileFacts DEF Failing
    <2>2. Len(files') = Len(files) + 1
      BY <2>1, FileAdded
    <2> QED BY <2>1, <2>2 DEF TypeInv, Handles
  <1>4. CASE InsertManifest(p) \/ SetManifestFile(p) \/ FindManifest(p) \/ UpdateManifestDigest(p)
    <2>1. files' = files
      BY <1>4, InsertManifestFacts, SetManifestFileFacts, FindManifestFacts, UpdateManifestDigestFacts
         DEF Failing, SameTables
    <2>2. /\ pc[p] \in {"insert manifest", "set file", "find manifest", "update manifest"}
          /\ pc[p] \in {"set file", "update manifest"} => pc'[p] \in {"ok", "error"}
      BY <1>4, InsertManifestFacts, SetManifestFileFacts, FindManifestFacts,
         UpdateManifestDigestFacts DEF Failing
    <2>3. arg[p].op \in {"create", "update"}
      BY <2>2 DEF TypeInv, Handles
    <2> QED BY <2>1, <2>2, <2>3 DEF Early
  <1>5. CASE CountFiles(p) \/ Commit(p) \/ Open(p) \/ Copy(p) \/ CopyBreaks(p)
    <2>1. files' = files
      BY <1>5, CountFilesFacts, CommitFacts, OpenFacts, CopyFacts, CopyBreaksFacts DEF Failing, SameTables
    <2>2. pc[p] \in {"count", "commit", "open", "copy"}
      BY <1>5, CountFilesFacts, CommitFacts, OpenFacts, CopyFacts, CopyBreaksFacts
    <2> QED BY <2>1, <2>2 DEF TypeInv, Handles
  <1>6. ~Unheard(p)
    BY UnheardFacts
  <1> QED BY <1>2, <1>3, <1>4, <1>5, <1>6 DEF Step

\* In which phase a request is answered.
LEMMA PhaseOf ==
    ASSUME NEW r \in Request, Fits(r)
    PROVE  /\ r.op \in {"create", "update"} => phase \in {"reserve", "finalize"}
           /\ r.op = "files" => phase = "files"
           /\ r.op \in {"put", "commit"} => phase \in {"puts", "manifest", "commit"}
           /\ phase = "reserve" => r.op = "create"
           /\ phase = "finalize" => r.op \in {"create", "update"}
           /\ phase = "files" => r.op = "files"
  BY RequestFields DEF Fits, Ops

LEMMA RoomSend ==
    ASSUME TypeInv, Room, NEW p \in Slots, NEW r \in Request, Sent(p, r)
    PROVE  Room'
  <1>1. /\ phase' = phase /\ files' = files /\ awaited = None /\ awaited' = p /\ p # None
        /\ at'[p] = 0 /\ pc'[p] = FirstStep[r.op] /\ Fits(r)
    BY ConstantFacts DEF Sent, SameTables
  <1>2. phase \in {"reserve", "finalize"} => Pending'
    <2>1. phase \in {"reserve", "finalize"} => pc'[p] \in Early
      BY <1>1, PhaseOf, RequestFields, FirstSteps DEF Early
    <2> QED BY <1>1, <2>1 DEF Pending
  <1>3. Pending /\ Listed = 0 /\ Listed' = 0
    BY <1>1 DEF Pending, Listed
  <1> QED BY <1>1, <1>2, <1>3 DEF Room

LEMMA RoomStep ==
    ASSUME TypeInv, Room, NEW p \in Slots, Step(p), p = awaited, faults' = faults
    PROVE  Room'
  <1>1. /\ phase' = phase /\ awaited' = awaited /\ awaited # None /\ arg[p] = request /\ Fits(request)
              /\ request \in Request
    BY StepClient, ConstantFacts, Awaited DEF SameClient
  <1>2. Len(files) \in Nat /\ Len(Entries) \in Nat /\ at[p] \in Nat
    BY FilesLength, ConstantFacts, SlotTypes
  <1>3. /\ Pending <=> pc[p] \in Early
        /\ Pending' <=> pc'[p] \in Early
        /\ Listed = at[p] /\ Listed' = at'[p]
    BY <1>1 DEF Pending, Listed
  <1>4. CASE /\ Len(files') = Len(files) + 1 /\ arg[p].op \in {"create", "update"}
             /\ pc[p] \in Early /\ pc'[p] \notin Early
    <2>1. phase \in {"reserve", "finalize"} /\ Pending /\ ~Pending'
      BY <1>1, <1>3, <1>4, PhaseOf
    <2> QED BY <1>1, <1>2, <1>4, <2>1 DEF Room
  <1>5. CASE Len(files') = Len(files) + 1 /\ arg[p].op = "files" /\ at'[p] = at[p] + 1
    <2>1. phase = "files"
      BY <1>1, <1>5, PhaseOf
    <2> QED BY <1>1, <1>2, <1>3, <1>5, <2>1 DEF Room
  <1>6. CASE Len(files') = Len(files) /\ arg[p].op \in {"create", "update"}
                /\ (pc'[p] \in Early => pc[p] \in Early)
    <2>1. phase \in {"reserve", "finalize"} /\ (Pending' => Pending)
      BY <1>1, <1>3, <1>6, PhaseOf
    <2> QED BY <1>1, <1>2, <1>6, <2>1 DEF Room
  <1>7. CASE Len(files') = Len(files) /\ arg[p].op \in {"put", "commit"}
    <2>1. phase \in {"puts", "manifest", "commit"}
      BY <1>1, <1>7, PhaseOf
    <2> QED BY <1>1, <1>7, <2>1 DEF Room
  <1> QED BY <1>4, <1>5, <1>6, <1>7, FilesStep

LEMMA RoomAccepted ==
    ASSUME TypeInv, Room, Accepted
    PROVE  Room'
  <1>1. /\ awaited \in Slots /\ awaited # None /\ pc[awaited] = "ok" /\ arg[awaited] = request
              /\ request.op \in Ops
        /\ awaited' = None /\ files' = files
    BY AcceptedFacts, AcceptedPhase, Awaited DEF SameTables
  <1>2. Len(files) \in Nat /\ Len(Entries) \in Nat /\ at[awaited] \in Nat
    BY <1>1, FilesLength, ConstantFacts, SlotTypes
  <1>3. ~Pending /\ Pending' /\ Listed = at[awaited] /\ Listed' = 0
    BY <1>1 DEF Pending, Listed, Early
  <1>4. CASE request.op = "create"
    BY <1>1, <1>2, <1>3, <1>4, AcceptedPhase DEF Room
  <1>5. CASE request.op = "files"
    <2>1. at[awaited] <= Len(Entries)
      BY <1>1, <1>5 DEF TypeInv, Handles
    <2>2. phase = "files" /\ phase' = "puts"
      BY <1>5, AcceptedPhase
    <2> QED BY <1>1, <1>2, <1>3, <2>1, <2>2 DEF Room
  <1>6. CASE request.op = "update"
    BY <1>1, <1>2, <1>3, <1>6, AcceptedPhase DEF Room
  <1>7. CASE request.op = "put"
    BY <1>1, <1>2, <1>3, <1>7, AcceptedPhase DEF Room
  <1>8. CASE request.op = "commit"
    BY <1>1, <1>2, <1>8, AcceptedPhase DEF Room
  <1> QED BY <1>1, <1>4, <1>5, <1>6, <1>7, <1>8 DEF Ops

LEMMA BudgetNext == ASSUME TypeInv, FaultInv, BudgetInv, Next PROVE BudgetInv'
  <1> SUFFICES ASSUME Undisturbed' PROVE BudgetInv'
    BY DEF BudgetInv
  <1>t. timeouts \in Nat /\ crashes \in Nat /\ faults \in Nat
    BY SlotTypes
  <1>1. CASE Send
    <2>1. PICK p \in Slots, r \in Request : Sent(p, r)
      BY <1>1, SendFacts
    <2>2. /\ Undisturbed /\ awaited = None /\ awaited' = p /\ p # None /\ Others(p) /\ artifact' = artifact
      BY <2>1, ConstantFacts DEF Sent, Undisturbed, SameTables
    <2>3. pc'[p] # "commit"
      BY <2>1, RequestFields, FirstSteps DEF Sent, Ops
    <2>4. \A q \in Slots : pc[q] = "idle"
      BY <2>2, ConstantFacts DEF BudgetInv
    <2>5. Room'
      BY <2>1, <2>2, RoomSend DEF BudgetInv
    <2> QED BY <2>2, <2>3, <2>4, <2>5 DEF BudgetInv, Others
  <1>2. ASSUME NEW p \in Slots, Step(p) PROVE BudgetInv'
    <2>1. SameClient /\ Others(p) /\ timeouts' = timeouts /\ crashes' = crashes /\ faults' \in Nat
             /\ faults' >= faults /\ pc[p] # "idle"
      BY <1>2, StepClient
    <2>2. Undisturbed /\ faults' = faults
      BY <1>t, <2>1 DEF Undisturbed
    <2>3. p = awaited
      BY <2>1, <2>2 DEF BudgetInv
    <2>4. Room'
      BY <1>2, <2>2, <2>3, RoomStep DEF BudgetInv
    <2>5. \A q \in Slots : pc'[q] # "idle" => q = awaited'
      BY <2>1, <2>2, <2>3 DEF BudgetInv, Others, SameClient
    <2>6. pc'[p] = "commit" => AtMost(local'[p].count)
      <3> SUFFICES ASSUME pc'[p] = "commit" PROVE AtMost(local'[p].count)
        OBVIOUS
      <3>1. pc[p] = "count" /\ local'[p].count = Len(files)
        BY <1>2, <2>2, CountStep DEF Undisturbed
      <3>2. arg[p].op = "commit" /\ arg[p] = request /\ Fits(request)
        BY <2>3, <3>1, ConstantFacts, Awaited DEF TypeInv, Handles
      <3>3. phase = "commit"
        BY <3>2 DEF Fits
      <3> QED BY <2>2, <3>1, <3>3 DEF BudgetInv, Room, AtMost
    <2>7. artifact'.committed => AtMost(artifact'.count)
      BY <1>2, <2>2, ArtifactStep DEF BudgetInv
    <2> QED BY <2>1, <2>2, <2>4, <2>5, <2>6, <2>7 DEF BudgetInv, Others, SameClient
  <1>3. CASE Timeout \/ Crash
    <2>1. timeouts' = timeouts + 1 \/ crashes' = crashes + 1
      BY <1>3, TimeoutFacts, CrashFacts
    <2> QED BY <1>t, <2>1 DEF Undisturbed
  <1>4. CASE Accepted
    <2>1. /\ Undisturbed /\ awaited' = None /\ request' = None /\ Freed(awaited) /\ artifact' = artifact
      BY <1>4, AcceptedFacts DEF Undisturbed, SameTables
    <2>2. \A q \in Slots : pc'[q] = "idle"
      BY <2>1 DEF BudgetInv, Freed, Others
    <2>3. Room'
      BY <1>4, <2>1, RoomAccepted DEF BudgetInv
    <2> QED BY <2>1, <2>2, <2>3 DEF BudgetInv
  <1>5. CASE Refused
    <2>1. /\ Undisturbed /\ awaited' = None /\ Freed(awaited) /\ artifact' = artifact /\ files' = files
          /\ awaited \in Slots /\ pc[awaited] = "error" /\ arg[awaited] = request /\ request \in Request
                /\ Fits(request)
      BY <1>5, RefusedFacts, Awaited DEF Undisturbed, SameTables
    <2>2. request.op = "put"
      BY <2>1 DEF FaultInv, Undisturbed
    <2>3. phase' = phase /\ request' = request /\ phase \in {"puts", "manifest", "commit"}
      BY <1>5, <2>1, <2>2, RefusedFacts, PhaseOf
    <2>4. \A q \in Slots : pc'[q] = "idle"
      BY <2>1 DEF BudgetInv, Freed, Others
    <2>5. Room'
      BY <2>1, <2>3 DEF BudgetInv, Room
    <2> QED BY <2>1, <2>2, <2>3, <2>4, <2>5 DEF BudgetInv
  <1>6. CASE \E d \in Readers : OpenDownload(d) \/ ReadBlob(d)
    <2>1. SameTables /\ SameSlots /\ SameClient /\ timeouts' = timeouts /\ crashes' = crashes
             /\ faults' = faults
      BY <1>6, ReaderFacts
    <2> QED BY <2>1 DEF BudgetInv, Undisturbed, Room, Pending, Listed, SameTables, SameSlots, SameClient
  <1> QED BY <1>1, <1>2, <1>3, <1>4, <1>5, <1>6, NextShape DEF Quiet

(***************************************************************************)
(* The invariant, and what it says of the artifact.                        *)
(***************************************************************************)
IInv ==
    /\ TypeInv /\ FaultInv /\ LeftInv /\ BlobInv /\ LateInv /\ ReadInv
    /\ RowsInv /\ FinalInv /\ LatestInv /\ EntryInv /\ CountInv /\ BudgetInv

LEMMA IInvInit == ASSUME Init PROVE IInv
  <1>1. TypeInv
    BY TypeInit
  <1>2. ~Committing /\ ~Sealed
    BY DEF Init, Committing, Sealed
  <1>3. FaultInv /\ LeftInv
    BY StepNames DEF Init, FaultInv, RetriesAccepted, LeftInv
  <1>4. BlobInv /\ LateInv /\ ReadInv
    BY <1>2 DEF Init, BlobInv, LateInv, ReadInv
  <1>5. RowsInv /\ FinalInv
    BY <1>2 DEF Init, RowsInv, FinalInv, Done
  <1>6. LatestInv
    BY <1>2 DEF Init, LatestInv
  <1>7. EntryInv /\ CountInv
    BY <1>2 DEF Init, EntryInv, CountInv
  <1>8. BudgetInv
    <2>1. Room
      BY ConstantFacts DEF Init, Room, Pending
    <2> QED BY <2>1 DEF Init, BudgetInv
  <1> QED BY <1>1, <1>3, <1>4, <1>5, <1>6, <1>7, <1>8 DEF IInv

LEMMA IInvNext == ASSUME IInv, [Next]_vars PROVE IInv'
  <1>1. CASE Next
    BY <1>1, TypeNext, FaultNext, LeftNext, BlobNext, LateNext, ReadNext, RowsNext, FinalNext, LatestNext,
       EntryNext,
       CountNext, BudgetNext DEF IInv
  <1>2. CASE UNCHANGED vars
    <2>1. /\ SameTables /\ SameSlots /\ SameClient /\ reader' = reader
          /\ timeouts' = timeouts /\ crashes' = crashes /\ faults' = faults /\ breaks' = breaks
      BY <1>2 DEF vars, tables, slots, client, bounds, SameTables, SameSlots, SameClient
    <2>2. TypeInv'
      <3>1. TypeInv
        BY DEF IInv
      <3>2. TypeOK'
        BY <2>1, <3>1 DEF TypeInv, TypeOK, SameTables, SameSlots, SameClient
      <3>3. \A p \in Slots : Handles(p)'
        BY <2>1, <3>1 DEF TypeInv, Handles, SameTables, SameSlots, SameClient
      <3>4. Asked' /\ Awaits'
        BY <2>1, <3>1 DEF TypeInv, Asked, Fits, Awaits, SameSlots, SameClient
      <3>5. Progress' /\ Reads'
        BY <2>1, <3>1 DEF TypeInv, Progress, Reads, SameTables, SameClient
      <3> QED BY <3>2, <3>3, <3>4, <3>5 DEF TypeInv
    <2>3. FaultInv' /\ LeftInv' /\ BlobInv' /\ LateInv' /\ ReadInv'
      BY <2>1 DEF IInv, FaultInv, RetriesAccepted, LeftInv, BlobInv, Whole, LateInv, Committing, ReadInv,
         SameTables, SameSlots, SameClient
    <2>4. RowsInv' /\ FinalInv' /\ LatestInv'
      BY <2>1 DEF IInv, RowsInv, IsRecord, FinalInv, Done, Finished, Sealed, Committing, LatestInv,
         SameTables, SameSlots, SameClient
    <2>5. EntryInv' /\ CountInv' /\ BudgetInv'
      BY <2>1 DEF IInv, EntryInv, Sealed, Committing, CountInv, BudgetInv, Undisturbed, Room, Pending, Listed,
         SameTables, SameSlots, SameClient
    <2> QED BY <2>2, <2>3, <2>4, <2>5 DEF IInv
  <1> QED BY <1>1, <1>2

\* The invariant holds in every reachable state.
THEOREM Inductive == Spec => []IInv
  <1>1. Init => IInv
    BY IInvInit
  <1>2. IInv /\ [Next]_vars => IInv'
    BY IInvNext
  <1> QED BY <1>1, <1>2, PTL DEF Spec

\* A repeated request is never refused for what earlier attempts at it left
\* behind: an upload fails only when a statement failed.
THEOREM Retries == Spec => []RetriesAccepted
  <1>1. IInv => RetriesAccepted
    BY DEF IInv, FaultInv
  <1> QED BY <1>1, Inductive, PTL

\* A file whose PUT was answered with 200 is whole on disk from then on, and
\* a download of a committed artifact that ends without an error delivered
\* all of it, however many attempts broke off or were carried out twice.
THEOREM Content == Spec => []ContentWhole
  <1>1. IInv => AnsweredWhole
    BY DEF IInv, BlobInv, AnsweredWhole
  <1>2. IInv => DownloadsWhole
    <2>1. ASSUME IInv, NEW d \in Readers,
                 reader[d] # None, reader[d].state = "complete", reader[d].path \notin gaveUp
          PROVE  reader[d].good /\ reader[d].got = Size
      BY <2>1 DEF IInv, ReadInv
    <2> QED BY <2>1 DEF DownloadsWhole
  <1>3. IInv => ContentWhole
    BY <1>1, <1>2 DEF ContentWhole
  <1> QED BY <1>3, Inductive, PTL

LEMMA GreatestNumber ==
    ASSUME NEW S, IsFiniteSet(S), S \subseteq Nat, S # {}
    PROVE  Max(S) \in S
  <1> DEFINE Greatest(X) == \E n \in X : \A m \in X : n >= m
             Bad         == {X \in SUBSET S : X # {} /\ ~Greatest(X)}
  <1>1. Bad = {}
    <2> SUFFICES ASSUME Bad # {} PROVE FALSE
      OBVIOUS
    <2>1. IsWellFoundedOn(StrictSubsetOrdering(S), SUBSET S)
      BY FS_StrictSubsetOrderingWellFounded, FS_FiniteSubsetsOfFinite
    <2>2. Bad \subseteq SUBSET S /\ Bad # {}
      OBVIOUS
    <2>3. PICK X \in Bad : \A Y \in Bad : <<Y, X>> \notin StrictSubsetOrdering(S)
      <3> HIDE DEF Bad
      <3> QED BY <2>1, <2>2, WFMin
    <2>4. X \subseteq S /\ X # {} /\ ~Greatest(X)
      OBVIOUS
    <2>5. PICK x \in X : TRUE
      BY <2>4
    <2>6. x \in Nat
      BY <2>4
    <2>7. CASE X = {x}
      BY <2>4, <2>6, <2>7
    <2>8. CASE X # {x}
      <3>1. X \ {x} # {} /\ X \ {x} \subseteq S /\ X \ {x} # X
        BY <2>4, <2>8
      <3>2. <<X \ {x}, X>> \in StrictSubsetOrdering(S)
        BY <2>4, <3>1 DEF StrictSubsetOrdering
      <3>3. Greatest(X \ {x})
        BY <2>3, <3>1, <3>2
      <3>4. PICK n \in X \ {x} : \A m \in X \ {x} : n >= m
        BY <3>3
      <3>5. CASE n >= x
        BY <2>4, <3>4, <3>5
      <3>6. CASE ~(n >= x)
        <4>1. n \in Nat /\ \A m \in X : m \in Nat
          BY <2>4, <3>4
        <4>2. \A m \in X : x >= m
          BY <2>6, <3>4, <3>6, <4>1
        <4> QED BY <2>4, <4>2
      <3> QED BY <3>5, <3>6
    <2> QED BY <2>7, <2>8
  <1>2. Greatest(S)
    BY <1>1
  <1> QED BY <1>2 DEF Max

\* The last record of a name that has one.
LEMMA RecordFound ==
    ASSUME TypeInv, NEW name \in Range(files)
    PROVE  FileOf(name) # 0
  <1> DEFINE I == {i \in 1..Len(files) : files[i] = name}
  <1>1. Len(files) \in Nat /\ I # {}
    BY TableTypes DEF Range
  <1>2. I \subseteq Nat /\ 0 \notin I
    BY <1>1
  <1>3. IsFiniteSet(I)
    <2>1. 1 \in Int /\ Len(files) \in Int /\ I \in SUBSET (1..Len(files))
      BY <1>1
    <2>2. IsFiniteSet(1..Len(files))
      BY <2>1, FS_Interval
    <2> QED BY <2>1, <2>2, FS_Subset
  <1>4. FileOf(name) = IF I # {} THEN Max(I) ELSE 0
    BY DEF FileOf, SelectLastInSeq
  <1> HIDE DEF I
  <1>5. Max(I) \in I
    BY <1>1, <1>2, <1>3, GreatestNumber
  <1> QED BY <1>1, <1>2, <1>4, <1>5

LEMMA CommittedSealed ==
    ASSUME IInv, artifact.committed
    PROVE  /\ Sealed /\ held \in DOMAIN manifests /\ Finished(held)
           /\ Range(Entries) \subseteq Range(files)
  BY DEF IInv, Sealed, Committing, FinalInv, EntryInv

\* A committed artifact can be read back: each of its entries resolves to a
\* file record, its current manifest is the finalized one and refers to the
\* record of its file, and the file count covers all of them.
THEOREM Complete == Spec => []CommittedComplete
  <1>1. IInv => EntriesComplete
    <2> SUFFICES ASSUME IInv, artifact.committed, NEW i \in DOMAIN Entries PROVE FileOf(Entries[i]) # 0
      BY DEF EntriesComplete
    <2>1. Entries[i] \in Range(files)
      BY CommittedSealed DEF Range
    <2> QED BY <2>1, RecordFound DEF IInv
  <1>2. IInv => ManifestCurrent
    <2> SUFFICES ASSUME IInv, artifact.committed, "create" \notin gaveUp
                 PROVE  CurrentManifest = held /\ manifests[CurrentManifest].final
      BY DEF ManifestCurrent
    <2>1. held = Len(manifests)
      BY CommittedSealed DEF IInv, LatestInv
    <2> QED BY <2>1, CommittedSealed DEF CurrentManifest, Finished
  <1>3. IInv => ManifestReadable
    <2> SUFFICES ASSUME IInv, artifact.committed, faults = 0, held # 0
                 PROVE  ManifestFile(held) # 0 /\ files[ManifestFile(held)] = ManifestName
      BY DEF ManifestReadable
    <2>1. held \in DOMAIN manifests /\ manifests[held].file # 0
      BY CommittedSealed DEF Finished
    <2> QED BY <2>1 DEF ManifestFile, IInv, RowsInv, IsRecord
  <1>4. IInv => CountCovers
    <2> SUFFICES ASSUME IInv, artifact.committed, faults = 0
                 PROVE  /\ artifact.count >= Len(Entries) + 1
                        /\ timeouts + crashes = 0 => artifact.count <= Len(Entries) + 2
      BY DEF CountCovers
    <2>1. timeouts + crashes = 0 => timeouts = 0 /\ crashes = 0
      BY SlotTypes DEF IInv
    <2> QED BY <2>1 DEF IInv, CountInv, AtLeast, BudgetInv, Undisturbed, AtMost
  <1>5. IInv => TypeOK
    BY DEF IInv, TypeInv
  <1>6. IInv => CommittedComplete
    BY <1>1, <1>2, <1>3, <1>4, <1>5 DEF CommittedComplete
  <1> QED BY <1>6, Inductive, PTL

=============================================================================
