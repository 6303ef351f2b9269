--------------------------- MODULE ArtifactUpload ---------------------------
(***************************************************************************)
(* How the content of one artifact gets to the server: the manifest and    *)
(* file records (internal/graphql/artifact_mutations.go, internal/store/   *)
(* artifact.go), the PUTs and GETs of internal/storage/local.go, the part  *)
(* of commitArtifact that counts the files, and the queries a reader       *)
(* finds the content with (artifact_resolvers.go).                         *)
(*                                                                         *)
(* A slot is a handler at work.  No handler is bound to its request's      *)
(* context, so the one of a request the client gave up on goes on next to  *)
(* the repeated request; only the copying of a PUT's body sees that the    *)
(* connection is gone.                                                     *)
(*                                                                         *)
(* The client is wandb-core, outside this repository, as docs/specs/       *)
(* artifact-endpoints.md describes it: it reserves a manifest, asks for the*)
(* upload URLs of all entries, PUTs them, finalizes the manifest by a      *)
(* second createArtifactManifest or by updateArtifactManifest, PUTs it and *)
(* commits.  It repeats what timed out or broke off and every failed PUT,  *)
(* and gives the artifact up on a GraphQL error.  PUTs of different files  *)
(* share nothing, so here they are sent in order, one after another.       *)
(***************************************************************************)
EXTENDS Naturals, Sequences, FiniteSets, SequencesExt

CONSTANTS
    Entries,        \* the names of the artifact's files, as a sequence
    ManifestName,   \* "wandb_manifest.json"
    Size,           \* the pieces in which the content of a file is copied
    Slots,          \* handlers that may run at the same time
    Readers,        \* downloads
    None,
    MaxTimeouts,    \* bound: requests the client stops waiting for
    MaxCrashes,     \* bound: deaths of the server process
    MaxFaults,      \* bound: statements that fail
    MaxBreaks       \* bound: PUTs that break off

Names == Range(Entries) \cup {ManifestName}
Ops   == {"create", "files", "update", "put", "commit"}

\* file is the row in files the manifest refers to, 0 for NULL.
Manifest == [final: BOOLEAN, file: Nat]
Request  == [op: Ops, path: Names \cup {None}, upload: BOOLEAN, final: BOOLEAN, manifest: Nat]
Download == [path: Names, size: Nat, got: Nat, good: BOOLEAN, state: {"copying", "complete", "broken"}]

\* An artifact has a file: without one there is nothing to ask URLs for.
ASSUME UploadAssumption ==
    /\ Entries \in Seq(Range(Entries)) /\ Entries # <<>> /\ IsInjective(Entries)
    /\ ManifestName \notin Range(Entries)
    /\ None \notin Names \cup Slots \cup Request \cup Download \cup Seq(BOOLEAN)
    /\ Size \in Nat \ {0}
    /\ {MaxTimeouts, MaxCrashes, MaxFaults, MaxBreaks} \subseteq Nat

VARIABLES
    manifests,  \* artifact_manifests in order of created_at
    files,      \* artifact_file_stored in order of insertion: their names
    artifact,   \* state and file_count of the row in artifacts
    blob,       \* per storage path: None, or its pieces; FALSE is a hole
    pc,         \* per slot: what the handler does next
    arg,        \* per slot: the request it handles
    at,         \* per slot: the next spec to insert, or pieces copied
    local,      \* per slot: the manifest and file row it works on, the count
    phase,      \* client: the step of the upload it has come to
    request,    \* client: the request that has to be answered next
    awaited,    \* client: the slot whose answer it waits for
    held,       \* client: the id of the manifest it was given last
    answered,   \* client: the files whose PUT was answered with 200
    gaveUp,     \* client: what it gave up on while the handler was at work
    reader,     \* per reader: None, or the download
    timeouts, crashes, faults, breaks

tables == <<manifests, files, artifact, blob>>
slots  == <<pc, arg, at, local>>
client == <<phase, request, awaited, held, answered, gaveUp>>
bounds == <<timeouts, crashes, faults, breaks>>
vars   == <<tables, slots, client, reader, bounds>>

Working == {"insert manifest", "insert file", "set file", "insert files", "find manifest", "update file",
            "update manifest", "count", "commit", "open", "copy"}
Steps   == Working \cup {"idle", "ok", "error"}
Phases  == {"reserve", "files", "puts", "finalize", "manifest", "commit", "done", "failed"}

FirstStep == [create |-> "insert manifest", files |-> "insert files", update |-> "find manifest",
              put |-> "open", commit |-> "count"]

Succeeds  == UNCHANGED faults
Fails     == faults < MaxFaults /\ faults' = faults + 1
Goto(p, step) == pc' = [pc EXCEPT ![p] = step]

Nothing == [manifest |-> 0, file |-> 0, count |-> 0]

\* The handlers of S are gone and with them their local variables.
Free(S) ==
    /\ pc' = [p \in Slots |-> IF p \in S THEN "idle" ELSE pc[p]]
    /\ arg' = [p \in Slots |-> IF p \in S THEN None ELSE arg[p]]
    /\ at' = [p \in Slots |-> IF p \in S THEN 0 ELSE at[p]]
    /\ local' = [p \in Slots |-> IF p \in S THEN Nothing ELSE local[p]]

Init ==
    /\ manifests = <<>> /\ files = <<>>
    /\ artifact = [committed |-> FALSE, count |-> 0]
    /\ blob = [f \in Names |-> None]
    /\ pc = [p \in Slots |-> "idle"]
    /\ arg = [p \in Slots |-> None]
    /\ at = [p \in Slots |-> 0]
    /\ local = [p \in Slots |-> Nothing]
    /\ phase = "reserve"
    /\ request = None /\ awaited = None /\ held = 0
    /\ answered = {} /\ gaveUp = {}
    /\ reader = [d \in Readers |-> None]
    /\ timeouts = 0 /\ crashes = 0 /\ faults = 0 /\ breaks = 0

(***************************************************************************)
(* The client.                                                             *)
(***************************************************************************)
\* A request reaches the server: a handler starts, in whatever slot is free.
Deliver(p, r) ==
    /\ Goto(p, FirstStep[r.op])
    /\ arg' = [arg EXCEPT ![p] = r]
    /\ at' = [at EXCEPT ![p] = 0]
    /\ local' = [local EXCEPT ![p] = [Nothing EXCEPT !.manifest = r.manifest]]
    /\ awaited' = p

Plain(op) == [op |-> op, path |-> None, upload |-> FALSE, final |-> FALSE, manifest |-> 0]

\* What the client may send in a phase: it may ask for an upload URL when it
\* reserves the manifest, and finalizes the manifest in one of two ways.
Sends ==
    CASE phase = "reserve"  -> {[Plain("create") EXCEPT !.upload = u] : u \in BOOLEAN}
      [] phase = "files"    -> {Plain("files")}
      [] phase = "puts"     -> {[Plain("put") EXCEPT !.path = Entries[Cardinality(answered) + 1]]}
      [] phase = "finalize" -> {[Plain("create") EXCEPT !.upload = TRUE, !.final = TRUE],
                                [Plain("update") EXCEPT !.final = TRUE, !.manifest = held]}
      [] phase = "manifest" -> {[Plain("put") EXCEPT !.path = ManifestName]}
      [] phase = "commit"   -> {Plain("commit")}
      [] OTHER              -> {}

Send ==
    /\ awaited = None /\ \E p \in Slots : pc[p] = "idle"
    /\ \E r \in IF request = None THEN Sends ELSE {request} :
          request' = r /\ Deliver(CHOOSE p \in Slots : pc[p] = "idle", r)
    /\ UNCHANGED <<tables, phase, held, answered, gaveUp, reader, bounds>>

\* The client stops waiting.  A handler that has finished answers nobody.
Timeout ==
    /\ awaited # None /\ timeouts < MaxTimeouts
    /\ timeouts' = timeouts + 1
    /\ awaited' = None
    /\ IF pc[awaited] \in Working
       THEN gaveUp' = gaveUp \cup {IF request.op = "put" THEN request.path ELSE request.op} /\ UNCHANGED slots
       ELSE Free({awaited}) /\ UNCHANGED gaveUp
    /\ UNCHANGED <<tables, phase, request, held, answered, reader, crashes, faults, breaks>>

NextPhase == [reserve |-> "files", files |-> "puts", finalize |-> "manifest", manifest |-> "commit", commit |-> "done"]

Accepted ==
    /\ awaited # None /\ pc[awaited] = "ok"
    /\ Free({awaited})
    /\ held' = IF request.op \in {"create", "update"} THEN local[awaited].manifest ELSE held
    /\ answered' = IF request.op = "put" THEN answered \cup {request.path} ELSE answered
    /\ phase' = IF phase # "puts" THEN NextPhase[phase]
                ELSE IF Range(Entries) \subseteq answered' THEN "finalize" ELSE "puts"
    /\ request' = None /\ awaited' = None
    /\ UNCHANGED <<tables, gaveUp, reader, bounds>>

\* A PUT is repeated, a GraphQL error ends the upload.
Refused ==
    /\ awaited # None /\ pc[awaited] = "error"
    /\ Free({awaited})
    /\ IF request.op = "put" THEN UNCHANGED <<phase, request>> ELSE phase' = "failed" /\ request' = None
    /\ awaited' = None
    /\ UNCHANGED <<tables, held, answered, gaveUp, reader, bounds>>

(***************************************************************************)
(* createArtifactManifest and createArtifactFiles.                         *)
(***************************************************************************)
InsertManifest(p) ==
    /\ pc[p] = "insert manifest"
    /\ \/ /\ Succeeds
          /\ manifests' = Append(manifests, [final |-> arg[p].final, file |-> 0])
          /\ local' = [local EXCEPT ![p].manifest = Len(manifests')]
          /\ Goto(p, IF arg[p].upload THEN "insert file" ELSE "ok")
       \/ Fails /\ Goto(p, "error") /\ UNCHANGED <<manifests, local>>
    /\ UNCHANGED <<files, artifact, blob, arg, at, client, reader, timeouts, crashes, breaks>>

\* A file record of the given name, a new one whatever records there are.
NewFile(name) == files' = Append(files, name)

\* The record of the manifest's own file, which takes its upload URL.
InsertManifestFile(p) ==
    /\ pc[p] = "insert file"
    /\ \/ /\ Succeeds /\ NewFile(ManifestName)
          /\ local' = [local EXCEPT ![p].file = Len(files')]
          /\ Goto(p, "set file")
       \/ Fails /\ Goto(p, "error") /\ UNCHANGED <<files, local>>
    /\ UNCHANGED <<manifests, artifact, blob, arg, at, client, reader, timeouts, crashes, breaks>>

\* The UPDATE of file_id, whose error is dropped.
SetManifestFile(p) ==
    /\ pc[p] = "set file"
    /\ Goto(p, "ok")
    /\ \/ Succeeds /\ manifests' = [manifests EXCEPT ![local[p].manifest].file = local[p].file]
       \/ Fails /\ UNCHANGED manifests
    /\ UNCHANGED <<files, artifact, blob, arg, at, local, client, reader, timeouts, crashes, breaks>>

\* Fault seeded for RetriesAccepted: a unique index on the files' names.
InsertFileUnique(p) ==
    /\ pc[p] = "insert files"
    /\ IF Entries[at[p] + 1] \in Range(files)
       THEN Goto(p, "error") /\ UNCHANGED <<files, at>>
       ELSE /\ NewFile(Entries[at[p] + 1])
            /\ at' = [at EXCEPT ![p] = @ + 1]
            /\ Goto(p, IF at'[p] = Len(Entries) THEN "ok" ELSE "insert files")
    /\ UNCHANGED <<manifests, artifact, blob, arg, local, client, reader, bounds>>

\* One record per spec, whether or not there is one of that name already.
InsertFile(p) ==
    /\ pc[p] = "insert files"
    /\ \/ /\ Succeeds
          /\ NewFile(Entries[at[p] + 1])
          /\ at' = [at EXCEPT ![p] = @ + 1]
          /\ Goto(p, IF at'[p] = Len(Entries) THEN "ok" ELSE "insert files")
       \/ Fails /\ Goto(p, "error") /\ UNCHANGED <<files, at>>
    /\ UNCHANGED <<manifests, artifact, blob, arg, local, client, reader, timeouts, crashes, breaks>>

(***************************************************************************)
(* updateArtifactManifest.                                                 *)
(***************************************************************************)
\* The manifest and, if it has one, its file record are read; the UPDATE of
\* the record's URL that follows writes what it holds already.  A lookup of
\* the record that fails counts as none.
FindManifest(p) ==
    /\ pc[p] = "find manifest"
    /\ LET file == manifests[local[p].manifest].file IN
       \/ /\ Succeeds
          /\ local' = [local EXCEPT ![p].file = file]
          /\ Goto(p, IF file = 0 THEN "update file" ELSE "update manifest")
       \/ file # 0 /\ Fails /\ Goto(p, "update file") /\ UNCHANGED local
       \/ Fails /\ Goto(p, "error") /\ UNCHANGED local
    /\ UNCHANGED <<tables, arg, at, client, reader, timeouts, crashes, breaks>>

\* A manifest without a file record gets one.
ReplaceManifestFile(p) ==
    /\ pc[p] = "update file"
    /\ \/ /\ Succeeds /\ NewFile(ManifestName)
          /\ local' = [local EXCEPT ![p].file = Len(files')]
          /\ Goto(p, "update manifest")
       \/ Fails /\ Goto(p, "error") /\ UNCHANGED <<files, local>>
    /\ UNCHANGED <<manifests, artifact, blob, arg, at, client, reader, timeouts, crashes, breaks>>

\* The UPDATE, and the SELECT of the manifest for the answer: when that fails
\* the answer is an error, but the manifest is updated.
UpdateManifestDigest(p) ==
    /\ pc[p] = "update manifest"
    /\ LET updated == [manifests EXCEPT ![local[p].manifest] = [final |-> TRUE, file |-> local[p].file]] IN
       \/ Succeeds /\ Goto(p, "ok") /\ manifests' = updated
       \/ Fails /\ Goto(p, "error") /\ manifests' \in {manifests, updated}
    /\ UNCHANGED <<files, artifact, blob, arg, at, local, client, reader, timeouts, crashes, breaks>>

(***************************************************************************)
(* The part of commitArtifact that concerns the files.  The sum of the     *)
(* sizes is 0: no code sets the size of a record.                          *)
(***************************************************************************)

\* A count that fails leaves 0; a lookup of the artifact that fails ends it.
CountFiles(p) ==
    /\ pc[p] = "count"
    /\ \/ Succeeds /\ local' = [local EXCEPT ![p].count = Len(files)] /\ Goto(p, "commit")
       \/ Fails /\ Goto(p, "commit") /\ UNCHANGED local
       \/ Fails /\ Goto(p, "error") /\ UNCHANGED local
    /\ UNCHANGED <<tables, arg, at, client, reader, timeouts, crashes, breaks>>

Commit(p) ==
    /\ pc[p] = "commit"
    /\ \/ Succeeds /\ Goto(p, "ok") /\ artifact' = [committed |-> TRUE, count |-> local[p].count]
       \/ Fails /\ Goto(p, "error") /\ UNCHANGED artifact
    /\ UNCHANGED <<manifests, files, blob, arg, at, local, client, reader, timeouts, crashes, breaks>>

(***************************************************************************)
(* PUT /upload: the file is truncated, then copied to from its start.  A   *)
(* second handler of the same path has a position of its own.              *)
(***************************************************************************)
\* Fault seeded for AnsweredWhole: a file that is there is not stored again.
OpenOnlyNew(p) ==
    /\ pc[p] = "open"
    /\ IF blob[arg[p].path] = None
       THEN Goto(p, "copy") /\ blob' = [blob EXCEPT ![arg[p].path] = <<>>]
       ELSE Goto(p, "ok") /\ UNCHANGED blob
    /\ UNCHANGED <<manifests, files, artifact, arg, at, local, client, reader, bounds>>

Open(p) ==
    /\ pc[p] = "open"
    /\ \/ UNCHANGED breaks /\ Goto(p, "copy") /\ blob' = [blob EXCEPT ![arg[p].path] = <<>>]
       \/ breaks < MaxBreaks /\ breaks' = breaks + 1 /\ Goto(p, "error") /\ UNCHANGED blob
    /\ UNCHANGED <<manifests, files, artifact, arg, at, local, client, reader, timeouts, crashes, faults>>

\* The content after a write at position n: what lies between the old end
\* and n is a hole.
Written(old, n) ==
    [i \in 1..(IF n > Len(old) THEN n ELSE Len(old)) |-> i = n \/ (i <= Len(old) /\ old[i])]

\* Fault seeded for Uploads: the end of the body is missed by one.
CopyPast(p) ==
    /\ pc[p] = "copy" /\ at[p] < Size
    /\ at' = [at EXCEPT ![p] = (@ + 1) % Size]
    /\ blob' = [blob EXCEPT ![arg[p].path] = Written(@, at[p] + 1)]
    /\ UNCHANGED <<manifests, files, artifact, pc, arg, local, client, reader, bounds>>

Copy(p) ==
    /\ pc[p] = "copy" /\ at[p] < Size
    /\ at' = [at EXCEPT ![p] = @ + 1]
    /\ blob' = [blob EXCEPT ![arg[p].path] = Written(@, at'[p])]
    /\ Goto(p, IF at'[p] = Size THEN "ok" ELSE "copy")
    /\ UNCHANGED <<manifests, files, artifact, arg, local, client, reader, bounds>>

\* The body breaks off, as it always may once the client has given up.
CopyBreaks(p) ==
    /\ pc[p] = "copy"
    /\ \/ p # awaited /\ UNCHANGED breaks
       \/ p = awaited /\ breaks < MaxBreaks /\ breaks' = breaks + 1
    /\ Goto(p, "error")
    /\ UNCHANGED <<tables, arg, at, local, client, reader, timeouts, crashes, faults>>

\* Nobody takes the answer of a handler whose client gave up.
Unheard(p) ==
    /\ pc[p] \in {"ok", "error"} /\ p # awaited
    /\ Free({p})
    /\ UNCHANGED <<tables, client, reader, bounds>>

(***************************************************************************)
(* Reading: the latest manifest, its file, the last record of a name, and  *)
(* GET /storage.                                                           *)
(***************************************************************************)
\* Fault seeded for ManifestCurrent: the oldest manifest is taken.
OldestManifest == IF manifests = <<>> THEN 0 ELSE 1

CurrentManifest == Len(manifests)

\* The record FilesByManifestEntries finds for a name; 0 if there is none.
FileOf(name) == SelectLastInSeq(files, LAMBDA n : n = name)

\* The file record of a manifest, 0 if there is none.
ManifestFile(m) == IF m = 0 THEN 0 ELSE manifests[m].file

\* A committed artifact is read.  The length is that of the file when it is
\* opened.
OpenDownload(d) ==
    /\ reader[d] = None /\ artifact.committed
    /\ \E f \in Names :
          /\ (IF f = ManifestName THEN ManifestFile(CurrentManifest) ELSE FileOf(f)) # 0
          /\ blob[f] # None
          /\ reader' = [reader EXCEPT ![d] =
                [path |-> f, size |-> Len(blob[f]), got |-> 0, good |-> TRUE, state |-> "copying"]]
    /\ UNCHANGED <<tables, slots, client, bounds>>

\* A file that has become shorter ends the response before its length.
ReadBlob(d) ==
    /\ reader[d] # None /\ reader[d].state = "copying"
    /\ LET r == reader[d] IN
       reader' = [reader EXCEPT ![d] =
          IF r.got = r.size THEN [r EXCEPT !.state = "complete"]
          ELSE IF r.got + 1 > Len(blob[r.path]) THEN [r EXCEPT !.state = "broken"]
          ELSE [r EXCEPT !.got = @ + 1, !.good = @ /\ blob[r.path][r.got + 1]]]
    /\ UNCHANGED <<tables, slots, client, bounds>>

\* The process dies: handlers and downloads are gone, rows and files stay.
Crash ==
    /\ crashes < MaxCrashes /\ \E p \in Slots : pc[p] # "idle"
    /\ crashes' = crashes + 1
    /\ Free(Slots)
    /\ awaited' = None
    /\ reader' = [d \in Readers |->
          IF reader[d] # None /\ reader[d].state = "copying" THEN [reader[d] EXCEPT !.state = "broken"] ELSE reader[d]]
    /\ UNCHANGED <<tables, phase, request, held, answered, gaveUp, timeouts, faults, breaks>>

Step(p) ==
    \/ InsertManifest(p) \/ InsertManifestFile(p) \/ SetManifestFile(p)
    \/ InsertFile(p)
    \/ FindManifest(p) \/ ReplaceManifestFile(p) \/ UpdateManifestDigest(p)
    \/ CountFiles(p) \/ Commit(p)
    \/ Open(p) \/ Copy(p) \/ CopyBreaks(p)
    \/ Unheard(p)

Next ==
    \/ Send \/ Accepted \/ Refused \/ Timeout \/ Crash
    \/ \E p \in Slots : Step(p)
    \/ \E d \in Readers : OpenDownload(d) \/ ReadBlob(d)

(***************************************************************************)
(* Handlers and the client come on.  Nothing is assumed of timeouts,       *)
(* deaths, downloads and failures; Step(p) is always enabled by a success  *)
(* when it is enabled by a failure.                                        *)
(***************************************************************************)
Fairness ==
    /\ WF_vars(Send) /\ WF_vars(Accepted) /\ WF_vars(Refused)
    /\ \A p \in Slots : WF_vars(Step(p))

Spec == Init /\ [][Next]_vars /\ Fairness

(***************************************************************************)
(* Properties.                                                             *)
(***************************************************************************)
\* The content of a file is on disk, every piece of it.
Whole(f) == blob[f] # None /\ blob[f] = [i \in 1..Size |-> TRUE]

\* Rows, files on disk and handlers have their types.
TypeOK ==
    /\ manifests \in Seq(Manifest) /\ files \in Seq(Names)
    /\ artifact \in [committed: BOOLEAN, count: Nat]
    /\ blob \in [Names -> {None} \cup Seq(BOOLEAN)]
    /\ pc \in [Slots -> Steps] /\ arg \in [Slots -> {None} \cup Request]
    /\ at \in [Slots -> Nat] /\ local \in [Slots -> [manifest: Nat, file: Nat, count: Nat]]
    /\ phase \in Phases /\ request \in {None} \cup Request
    /\ awaited \in {None} \cup Slots /\ held \in Nat
    /\ answered \subseteq Names /\ gaveUp \subseteq Names \cup Ops
    /\ reader \in [Readers -> {None} \cup Download]
    /\ {timeouts, crashes, faults, breaks} \subseteq Nat

\* Repeating a request after a timeout or a death of the server is never
\* refused, whatever part of it was carried out before: the upload fails only
\* when a statement did.
RetriesAccepted == phase = "failed" => faults > 0

\* A file whose PUT was answered with 200 is whole from then on, also when
\* earlier attempts broke off or died half-way.  The exception is a file of
\* which the client gave up an attempt that was still at work: its handler
\* may truncate the file after the repeated PUT was answered.
AnsweredWhole == \A f \in answered \ gaveUp : Whole(f)

\* Every manifest entry of a committed artifact resolves to a file record,
\* whatever requests were repeated or partly carried out.
EntriesComplete == artifact.committed => \A i \in DOMAIN Entries : FileOf(Entries[i]) # 0

\* A committed artifact's current manifest is the one the client finalized,
\* although repeated requests leave manifests behind, unless the handler of
\* a createArtifactManifest that was given up was still at work.
ManifestCurrent ==
    artifact.committed /\ "create" \notin gaveUp =>
        CurrentManifest = held /\ manifests[CurrentManifest].final

\* Its file record is there and refers to the uploaded manifest, unless a
\* statement failed (the error of the UPDATE of file_id is dropped).
ManifestReadable ==
    artifact.committed /\ faults = 0 /\ held # 0 =>
        /\ ManifestFile(held) # 0
        /\ files[ManifestFile(held)] = ManifestName

\* The file count of a committed artifact covers each entry and the manifest,
\* and counts no record twice unless a request was repeated.
CountCovers ==
    artifact.committed /\ faults = 0 =>
        /\ artifact.count >= Len(Entries) + 1
        /\ timeouts + crashes = 0 => artifact.count <= Len(Entries) + 2

\* A download of a committed artifact that ends without an error delivered
\* the whole file, unless an attempt to PUT it was given up.
DownloadsWhole ==
    \A d \in Readers :
        reader[d] # None /\ reader[d].state = "complete" /\ reader[d].path \notin gaveUp =>
            reader[d].good /\ reader[d].got = Size

\* The upload comes to its end.
Uploads == <>(phase \in {"done", "failed"})

\* What was uploaded is on disk and downloaded in full: a PUT answered with
\* 200 stored the whole file, a download that ends well delivered it.
ContentWhole == AnsweredWhole /\ DownloadsWhole

\* A committed artifact can be read back: its current manifest is the one
\* that was finalized, that manifest and each of its entries have a file
\* record, and the file count covers them.
CommittedComplete == TypeOK /\ EntriesComplete /\ ManifestCurrent /\ ManifestReadable /\ CountCovers
=============================================================================
