# A TLA+ model of bandw

bandw is a self-hosted server for the wandb SDK: a Go process that serves a
GraphQL API, the SDK's file stream and a small blob store, over one SQL
database (MySQL or SQLite, through gorm), and a Svelte front end that talks to
it. Every HTTP request runs in a goroutine of its own. Handlers keep no state
between requests: everything shared is in the database or in the storage
directory, and almost every handler is a sequence of single SQL statements
with no transaction around them and often no check of their result. So the
hard behaviour of this program is the interleaving of the statements of
overlapping requests, what is left behind when one of them fails or when the
process dies between two, and the SDK's retries, which repeat a request the
server may still be executing.

Contents: [parts](#the-parts-of-the-system), [plan](#plan),
[modules](#the-modules), [runs](#what-the-runs-check),
[proofs](#what-is-proved),
[divergences](#where-the-code-and-its-documents-disagree),
[limits](#what-is-not-modelled-or-not-proved).

## The parts of the system

Paths are below `src/`; `graphql/`, `store/`, `filestream/`, `storage/` and
`server/` are below `src/internal/`.

| part | state it keeps | operations | what makes it correct | module |
|---|---|---|---|---|
| artifact creation (`graphql/artifact_mutations.go:340`, `store/artifact.go:11-119`, `store/run.go:133`) | `artifact_types`, `artifact_collections`, `artifacts`, `artifact_usages` | createArtifact | versions of a collection are contiguous and later calls get later ones; retries are deduplicated; no row refers to a missing one; an artifact is of the run its call named | ArtifactCreate |
| life cycle and aliases (`artifact_mutations.go:556-888`, `store/artifact.go:180`) | `artifacts.state`, `artifact_aliases`, portfolios | commitArtifact, deleteArtifact, addAliases, deleteAliases, updateArtifact, linkArtifact, unlinkArtifact | `latest` and `vN` resolve to what commits left; a request touches its own aliases only; an answered link is a membership | ArtifactAliases |
| file stream (`filestream/handler.go`) | `run_histories`, `run_events`, `run_logs`, counters, summary and state in `runs` | POST file_stream | no logged line lost or out of order, counters not ahead of the rows, the final state stays | FileStream |
| runs and projects (`graphql/upsert_bucket.go`, `store/run.go:33`, `store/project.go:9`) | `projects`, `runs` | upsertBucket | one row per name, `inserted` told once, no answered write lost | RunUpsert |
| manifests, files, blobs (`artifact_mutations.go:427-554`, `storage/local.go`) | `artifact_manifests`, `artifact_files_stored`, the storage directory | createArtifactManifest, createArtifactFiles, updateArtifactManifest, PUT /upload, GET /storage | what a committed artifact lists is what was uploaded, whole, whatever was repeated | ArtifactUpload |
| collections, types, tags (`artifact_mutations.go:889-1106`) | `artifact_collections`, `tags`, their join table | delete, update and move of collections, createArtifactType, tag assignments | an answered rename or move holds; the tags are those of one update; a deleted collection stays deleted | ArtifactCollections |
| run files, usage (`graphql/run_files.go`, `artifact_mutations.go:566`) | `run_files`, `artifact_usages` | createRunFiles, useArtifact, and the lists of both | a request reaches the run it names; what was answered is listed, once | RunAttachments |
| history and logs (`store/run.go:163-293`, `store/log.go`, `graphql/run_resolver.go`) | none of its own | scan, samples, history keys, log pages | a reader misses no row that was there; samples represent the history | RunHistory |
| saved views, pages (`graphql/view_mutations.go`, `project_resolver.go`, `relay.go`) | `views` | upsertView, deleteView, allViews, runs | answered columns hold; a deleted view stays deleted; a walk misses and repeats nothing and ends | SavedViews |
| start-up, login, shutdown (`cmd/server/main.go`, `store/seed.go`, `store/db.go`, `server/auth.go`) | `users`, `entities`, `api_keys` | migrate, seed, serve, viewer, drain | one account and one key; the key works; shutdowns end; in the end every server serves | ServerLifecycle |
| routing, config, schema, scalars | none | conversions | | |
| front end (`frontend/src`) | discovered keys, histories, saved views, undo stacks | pages, asynchronous queries | the newest answer wins; what is shown saved is saved | |

How they interact. The parts call each other through the database only.
upsertBucket creates the projects and runs that createArtifact, the file
stream, run files and views look up by name. createArtifact stores the PENDING
versions that commitArtifact and the alias mutations work on; the portfolios
linkArtifact creates are collections of the same table. The file stream and
upsertBucket write different columns of the same row of `runs` (`state` and
`summary_metrics` are written by both). The SDK drives the order: viewer,
upsertBucket, file stream, artifacts, a last POST; it retries a request that
was not answered and does not retry a 404 (`docs/system-spec.md:531`). The
server does not cancel a handler whose client has gone: none of the statements
is bound to the request's context.

Which behaviours are hard: overlapping requests between any two statements;
find-then-insert against a unique index or without one; read-then-write of a
row or a counter; errors of a statement that are dropped; the death of the
process between two statements; the retry of a request whose handler is still
running. `PROJECT.json` lists each at its line under "hazards".

## Plan

Done, with proofs: **ArtifactCreate** and the abstract **VersionHistory** it
refines; **ArtifactAliases**; **FileStream**; **RunUpsert**;
**ArtifactUpload**; **ArtifactCollections**; **RunAttachments**;
**ServerLifecycle**; **SavedViews**; **RunHistory**.

Left, in this order:

1. An abstract store of whole, immutable blobs that ArtifactUpload implements
   as long as no attempt was given up; `BlobInv` and `ReadInv` of its proof are
   the refinement's invariant.
2. **RunLife**: FileStream and RunUpsert composed on one row of `runs`, whose
   `state` and `summary_metrics` both write; ArtifactCreate composed with
   ArtifactCollections, which renames what it looks up.

Runs: one passing run per question on the smallest instance in which every
disjunct fires, with a retry, a death and a failing statement where the
component meets them; a run that must fail only where a document, comment or
test says otherwise.

## The modules

One action is one SQL statement (or one file system call) of one request.
Statements that read rows no modelled handler changes are merged with the next
one. `Succeeds` and `Fails` say how a statement ended; a failing one has no
effect, and the number of failures is bounded by `MaxFaults`. `Crash` is the
death of the process: every handler is gone, the tables stay. Columns that no
property reads are left out.

**ArtifactCreate** — `CreateArtifact` in `store/artifact.go` and its resolver. A
request is a process; a retry is another request with the same client id. Row
ids are UUIDs drawn by the request that inserts the row, so a row is identified
by that request. The tables are `project`, `runs` with their display names,
`types`, `colls`, `arts`, `usages`; `pc`, `input`, `creator`, `next` and
`result` are the handler's program counter and locals; `seen` and `known` are
history variables: what was stored, and whether the run it names was there, when
the request arrived. The run is looked up by name and, after any miss or error,
by display name, so another run may be found. `UpsertRun` is the environment:
upsertBucket inserts runs and changes display names meanwhile. The refetch after
a lost race looks for the row by name *and* by the primary key the
`BeforeCreate` hook has just put into the struct, as gorm does.

**VersionHistory** — what creation promises: rows are appended, continue their
collection and never change; a request is answered at most once, with a stored
row. `ArtifactCreate!ImplementsVersionHistory` instantiates it with `rows` and
`answers` computed from `arts` and `result`.

**ArtifactAliases** — `CommitArtifact` and the mutations on aliases. Aliases
are a function of collection and name (the unique index); a row remembers the
request that inserted it, which stands for its primary key, because
updateArtifact deletes by primary key the rows it read before. `local` holds
the aliases still to process and the rows read earlier; the reload at the end of
updateArtifact may fail after all its effects; `before` is a history
variable: the requests answered when this one came.

**FileStream** — `filestream.Handler` and the posting client. A line is its
number. `rows`, `count` and `run` are tables; `pc`, `body` and `at` the handlers
(slots); `phase`, `acked`, `sending`, `awaited` and `sent` the client. Files are
stored in any order (a Go map is ranged over), line by line, and one UPDATE ends
the handler. A body that does not decode is answered 400, like one of which the
rest never came because the client had gone; `Chunked` is the files whose lines
the client may post as a list of chunks, which is such a body. A POST that is
answered 400 or 404 is not repeated. The client is outside the repository and is
modelled from `docs/system-spec.md:500-535` and the handler's request type.

**RunUpsert** — `UpsertBucket`, `GetOrCreateProject`, `UpsertRun`. Columns are
grouped by who writes them: both paths, the insert only, the update only. A
column holds the request that wrote it. A request that times out is posted
again to another handler while the first goes on. `over` is a history
variable: the requests that were answered, with no handler left, when this one
came.

**ArtifactUpload** — the manifest and file mutations, the counting part of
`CommitArtifact`, and `LocalStorage`'s two handlers. The SELECT for the answer of
updateArtifactManifest may fail after its UPDATE. `manifests` and `files` are
the tables in the order of their rows; `blob` is the storage directory, a file
being the sequence of its pieces, written at the position each handler has
reached since its own `os.Create`. The client is wandb-core, external, as
`docs/specs/artifact-endpoints.md` describes it. `gaveUp` is a history variable:
what an attempt was given up for while its handler was still at work, because
the mutations and `os.Create` do not look at the request's context.

**ArtifactCollections** — the mutations at `artifact_mutations.go:889-1106`.
Renames and moves UPDATE single columns (`Rename`, `SetType`), a delete
saves the whole row it read (`db.Save`). Names are unique in a project; tags
are deleted and inserted one by one, and `getOrCreateTag` looks a lost tag up
with its own primary key, like createArtifact's types. `seen` and `before` are
history variables: the requests answered when this one came, and the tags the
collection had then.

**SavedViews** — `UpsertView` (create: take the time, insert; update: read,
save the whole row, and insert it when the row has gone), `DeleteView`, and a
client that walks `AllViews` or `Runs` page by page. A page lists and counts in
two statements, in the order of the code (views: list, then count; runs: count,
then list), and a failing COUNT is taken for 0. `saw` is a history variable:
what happened during the walk that may shift its pages.

**RunHistory** — `GetHistory` by ranges of steps with its LIMIT,
`GetSampledHistory` with `downsampleRows`, `GetHistoryKeys`, and `GetRunLogs` by
offsets; or the whole history in one query, with a limit or without (`nil`
bounds, `limit <= 0`). Rows are inserted as FileStream does, by handlers of
POSTs that may be repeated, and the handler of one that timed out goes on beside
those of the next POSTs. The samplers are operators of the state, so that they
are checked in every reachable table. `present` and `met` are history variables:
the rows that were there when the reading began, and what may have shifted its
pages since (a line inserted before one already given, a line inserted between
the COUNT and the list of a page, a failing COUNT).

**RunAttachments** — `CreateRunFiles` and `UseArtifact`, which look a run up by
name and, after any error, by display name; runs appear meanwhile. `meant` is a
history variable: the run of that name when the request came.

**ServerLifecycle** — `main` from AutoMigrate to Shutdown, `SeedDefaults`,
`AuthMiddleware` and the viewer query, for several servers of one database.
AutoMigrate looks for the tables one by one and creates those it misses, and
after a table that it created, its indexes, without a look; so a migration may
be cut off anywhere, be taken up by the next start, or run into another
server's. `Indexes` is empty for MySQL, where gorm creates a table with its
indexes in one statement. (gorm is outside the repository.) A statement that
fails while a server starts ends it (`log.Fatal`). `cut` and
`unready` are history variables: a seeding was cut off, and which logins began
before the account was complete.

The modules MCArtifactCreate, MCArtifactAliases, MCFileStream, MCRunUpsert,
MCArtifactUpload, MCArtifactCollections, MCSavedViews, MCRunHistory and
MCRunAttachments hold values for the constants and symmetry sets;
ServerLifecycle needs none. RunHistory and ServerLifecycle have names of their
own for what other modules call `Next`, `Spec`, `OK` and the like, because one
proof module extends them and SavedViews together. Operators named in a comment
"Fault seeded for P" are variants of the definition that follows them, with a
plausible mistake that makes P fail.

How the modules meet. Rows one module writes and another reads: runs and
projects (RunUpsert, looked up in ArtifactCreate, RunAttachments, SavedViews),
artifacts and collections (ArtifactCreate, then ArtifactUpload, ArtifactAliases
and ArtifactCollections), lines (FileStream, read in RunHistory). Each module
lets those rows appear, or has them there, as the other one leaves them.

## What the runs check

A property of several named parts is their conjunction; the parts are defined,
and explained, one by one in the module.

| run | instance | distinct states | shows |
|---|---|---|---|
| create_concurrent | 3 requests of 3 kinds, 2 at a time, 2 collections, 1 client id, 2 runs that appear, both may show the name of the first, 1 failing statement, deaths | 1.6M | `VersionsContiguous`, `LaterCallsGetLaterVersions`, `RetryIsDeduplicated`, `ReferentialIntegrity` (`RowsReferToRows`, `RunOfCall`, `LineageRecorded`), and that VersionHistory is implemented |
| alias_race | 3 requests of 5 kinds (commit, remove, delete, update, add), 2 versions, 1 failing statement, deaths | 2.9M | `LatestResolves` (`LatestNotStale`, `LatestPresent`), `VersionResolves`, `AliasesSound`, `OldAliasesGone`, and as an action property `AliasesOfOthersStay` |
| link_race | 3 requests (link, unlink, update), a portfolio that may be missing, 1 failing statement | 1.6M | `AliasesHaveCollections`, `LinkedIsMember` |
| stream | 1 line of history that does not parse, 2 of output, which may be posted as a list of chunks; 2 handlers; 1 timeout, 1 death, 1 failing statement | 2.0M | `LinesKept` (`NoGaps`, `AckedLinesStored`), `RunRowHolds` (`CountNeverAhead`, `SummaryFollowsAcks`, `FinalStateKept`), and the liveness property `Delivered` |
| upsert | 4 requests: two starts of one run, an edit by id, an unknown entity; 2 handlers; 1 timeout, 1 death, 1 failing statement | 2.1M | `OneRunPerName`, `InsertedOnce`, `AnsweredFieldsHold`, `IdMeansThatRun` |
| upload | 2 files and a manifest, copied in 2 pieces; 2 handlers, 1 download; 1 timeout, 1 death, 1 failing statement, 1 broken PUT | 1.4M | `RetriesAccepted`, `ContentWhole` (`AnsweredWhole`, `DownloadsWhole`), `CommittedComplete` (`EntriesComplete`, `ManifestCurrent`, `ManifestReadable`, `CountCovers`), and the liveness property `Uploads` |
| collections | 3 requests of 15 kinds, 2 at a time, on a sequence and a portfolio; 1 failing statement, 1 death | 2.1M | `ChangesKept` (`RenameKept`, `MoveKept`), `TagsReplaced`, `ErrorsExplained`, and the action property `DeletedForGood` |
| views | 3 requests of 5 kinds, 2 at a time, 2 views and 2 runs at first, pages of 1; 1 failing statement or death | 1.2M | `AnswersHold` (`UpdateKept`, `DeletedStaysDeleted`), `PagesComplete` (`NoViewMissed`, `NoViewTwice`, `RunsWalk`), and the liveness property `WalkEnds` |
| history | 2 POSTs of 4 steps and 3 log lines, out of order, 1 repeated, 1 failing statement, pages of 2 | 403k | `ReadsComplete` (`ScanComplete`, `WholeComplete`, `LogComplete`), `ChartsFaithful` (`SamplesSpread`, `KeysAgree`) |
| attachments | 3 requests of 6 kinds, 2 at a time, 2 runs and a third that appears, display names that are others' names; 1 failing statement or death | 949k | `RunMeant`, `FilesRecorded` (`FilesListed`, `OneRecord`), `UsesListed` |
| startup | 2 servers, 2 tables and an index, 2 logins, 2 failing statements, 3 deaths or signals | 122k | `SeedHolds` (`SchemaReady`, `SeededOnce`, `KeyWorks`, `LoginExplained`), and the liveness properties `ShutdownEnds`, `AllServe` |
| seed_cut | 1 server that dies once | | that `SeedHeals`, what `store/seed.go:5` says, fails: see below |

Why the bounds are enough. The races in this code are between two handlers; a
third request is there to arrive before, between or after them, as the order
properties need ("later than one that was stored before it came"). A second
fault or death adds behaviours that differ from one fault only in where the next
request starts, and requests start in any state that is reachable; where a death
of one process changes the state another one starts from (startup) there are
three. Two lines of a file, and two pieces of a blob, are enough to see a gap or
an inversion, and a retried POST next to its original is two handlers. Pages of
one row put every insertion or deletion at a page's edge; pages of two steps
with a step inserted twice are the smallest that overflow. Two tables and an
index are every pair of neighbours in a schema. Symmetry is used for requests,
or for the handlers of the history run, only in runs without liveness
properties. Deadlock is not checked except in startup: all requests are done in
the end, and the system stops.

Properties that say `faults = 0`, "alone", or "unless it overlapped" hold only
then, because the code drops errors or runs without transactions; the failing
and overlapping steps are in the model, and the exceptions say what they do.

Fairness. Weak fairness of each handler (FileStream, ArtifactUpload,
ServerLifecycle): the Go scheduler runs every goroutine, and each statement
returns. FileStream: weak fairness of `Answered` and `Resend`: the client takes
an answer that is there and repeats what was not answered
(`docs/system-spec.md:531`); weak fairness of `GiveUp`: it stops when it is
refused; strong fairness of `Transmit`: heartbeats in
between disable it again and again. ArtifactUpload: weak fairness of the
client's `Send`, `Accepted` and `Refused`: it goes on with what it was answered.
SavedViews: weak fairness of `WalkStep`, a client that asks for the next page;
`Begin` is not fair, and only that a walk that began ends is claimed.
ServerLifecycle: weak fairness of `Run`, which includes the start: who runs the
server starts it again. No fairness of timeouts, deaths, signals, logins and
failures: they need not happen, and their number is bounded.

## What is proved

Module ArtifactCreateProof, for every set of requests, clients, collections,
types and runs and every bound, from `CreateAssumption` (finitely many requests;
`None` and the error names are not ids):

* `TypeCorrect`: `Spec => []TypeOK`. `TypeInv` adds to TypeOK which locals are
  meaningful at which program counter; one lemma per group of statements.
* `NoVersionLeftOut`: `[]VersionsContiguous`. Not inductive alone: a request
  that read MAX inserts later, so `Inv` says of a request at "insert" that the
  predecessor of its `next` is stored in its collection. Rows are never removed,
  which keeps it true (`Grows`).
* `VersionsFollowCalls`: `[]LaterCallsGetLaterVersions`. `Inv` says, of a
  request past "max", that `next` exceeds the version of everything in `seen`.
* `RetriesAreDeduplicated`: `[]RetryIsDeduplicated`. `Inv` says that a retry of
  a stored client id never gets past the deduplication query.
* `NoDanglingReference`: `[]ReferentialIntegrity`: every reference of a stored
  row, those of artifacts and usages to runs included, is to a stored row; the
  run is the one the call named if that was there; and an answered artifact has
  its lineage row. `Inv` says which rows a request at a given statement already
  relies on. Its part `RunInv` follows the run: `RunOK` says of the `creator` a
  request holds that it is a stored run and what its artifact will have;
  `CreatorOf`, that it is the run the call named if that was known and nothing
  failed.
* `Implementation`: `Spec => ImplementsVersionHistory`. The initial states map
  to initial states; `StepShape` reduces every step to one that stores nothing,
  stores one continuation, or answers one request.

`InvNext` is the central lemma: one step per action, and under it one per part
of `Inv` the action can disturb; lemmas on moves of the program counter
(`GotoMoves`, `ReplyMoves`) serve the actions that write no table.

The same properties are checked by create_concurrent on the small instance.

Module RunUpsertProof, for every set of requests, names, projects and handlers
and every bound, from `UpsertAssumption` (what a request says; `None` is no
request, answer or set of requests; a name is no number):

* `TypeCorrect`: `[]TypeOK`. `TypeInv` adds what a handler knows at each
  statement and that `runs` is finite, so that the next id is a number.
* `UniqueRuns`: `[]OneRunPerName`. The unique index makes it inductive with
  `IdsOK` (ids are 1, 2, ... without gaps, and unique); `Grows` says what every
  later lemma uses of a step: no row goes away, rows keep id and key, and a
  column changes only to the request of a handler.
* `NewIsToldOnce`: `[]InsertedOnce`. `KnownOK` bounds the ids that handlers and
  clients know by the number of rows, and a new row gets the next one.
* `NoAnsweredWriteIsLost`: `[]AnsweredFieldsHold`. `OrderOK` says that a request
  that was done with when another came has no handler, now or later, so what
  handlers write is never of such a request; `WrittenOK` extends the property to
  the handlers about to answer.
* `IdsMeanTheirRuns`: `[]IdMeansThatRun`. `MeantOK` follows the id through the
  statements: the handler has the key of that row, finds that row, and never
  gets to the INSERT.

`Inv` is their conjunction; one lemma per conjunct shows that steps preserve it,
from lemmas on the shape of a step (`HandlerShape`, `AnswerShape`, `FoundShape`,
`ClientShape`), which are the only ones that open the actions.

Module ViewsHistoryServersProof. About SavedViews, for every set of requests,
inputs, views and runs, every page size and every bound, from `ViewsAssumption`
(finitely many requests; the first views are listed once; creation times of runs
are numbers; `None` is none of the values):

* `AnswersAreKept`: `[]AnswersHold`. `TypeInv` says what a request knows at each
  statement (`Knows`) and that nothing is asked for a view before it is created
  (`Fresh`). `UpdateInv` extends `UpdateKept` to what later updates have read and
  will save: they came after the answer, so they read the column it gave.
  `DeleteInv` does the same for a deletion: no later update is past its read, so
  none inserts the view again.
* `WalksAreComplete`: `[]PagesComplete`. An offset says nothing about which
  views are behind it, so the invariants count: a view has as many older views
  as its place in the order (`OrderFacts`, from `Ranks`). `MissInv` says that a
  view that was there is delivered or has at least as many older ones as the
  walk has reached, which deletions alone can lower; `TwiceInv`, that each
  delivered view has fewer than that, which only a view inserted before it can
  raise. Both need `StampInv`: creation times are distinct, and taken before the
  row is there. `ViewsMove` is all that the walk sees of a step of a request.
  `RunsInv` says that the runs delivered are the first ones of their order.

About RunHistory, for every sequence of POSTs, set of keys, page length, number
of handlers and every bound, from `HistoryAssumption`:

* `ReadsAreComplete`: `[]ReadsComplete`. A row has a place in its ordered list:
  the number of rows before it (`OrderedList`, from `Ranks`). `LogOrderInv` says
  that the n-th line given still has n - 1 lines before it, unless one was
  inserted before it; `LogCoverInv`, that a line that was there is given or its
  place is at or after the offset and, between a COUNT and its list, below the
  counted end. `ScanInv` follows the scan: its offset is a multiple of the page
  length, its end is above every step that was there, and what is missing below
  the offset had no room on its page. `WholeInv` says the same of the one answer
  of a whole-history query: what is missing had no room under its limit.
* `ChartsAreFaithful`: `[]ChartsFaithful`. The samples follow from facts about
  integer division (`IndexSpread`, `QuotientSum`). The last step and the keys are
  recursive functions over the rows (`StepAfter`, `KeysAfter`); instead of an
  induction, each is compared with an explicit description of its values, and the
  least position where the two differ (`FirstDifference`) contradicts the
  recursion's step.

About ServerLifecycle, for every set of servers and logins, every number of
tables and set of indexes and every bound on failures and deaths, from
`LifecycleAssumption`:

* `AccountHolds`: `[]SeedHolds`. "Seeded at most once" is not inductive alone,
  because nothing in it says why a second server cannot reach the key. `SeedInv`
  says what the server that seeds has stored at each statement (`Stages`), that
  nothing is stored before the user (`UserFirst`) and that the key comes last
  (`KeyLast`); the unique user name then keeps every other server out
  (`InsertUserInv`). `SchemaReady` is inductive: a migration ends at the last
  object, and goes past one only when it is there (`ReadyAdvance`). `Explained`
  says that a user without the rest of its account means that a server is
  seeding or a seeding was cut off, and `UpHasUser` that a server past the
  seeding found or inserted the user. `LoginInv` says, of a login that is being
  handled, that it began with the account complete or is in `unready`, and that
  one past the key finds the link.

Module ArtifactAliasesProof, for every set of requests, versions, collections
and alias lists and every bound on failures, from `AliasAssumption` (finitely
many requests and artifacts, each with its sequence and its number; `None` is no
request, row or key):

* `Inductive`: `[]IInv`. Every step is reduced to one that adds, drops or takes
  over the row of one key (`Adds`, `Drops`, `Steals`, together `Writes`), or to
  one that writes no alias (`Quiet`); only those lemmas open the actions.
* `Sound`, `HaveCollections`: `[]AliasesSound`, `[]AliasesHaveCollections`.
  `Placed` says which locals fit which statement, the collection of the alias
  about to be written among them; `Settled`, that a commit that writes one has
  set the state.
* `Latests`: `[]LatestResolves`. `NotStale` extends the claim from answered
  commits to those past their DELETE. `Present` extends the other half to those
  past their INSERT, and names what may have taken the row away: a request that
  came later, or a commit between its DELETE and its INSERT, running or cut off.
  `Ended` says that what was done before a request came stays done.
* `Versions`: `[]VersionResolves`, from `Numbered` (a row called `vN` is of
  version N or was given by hand) and `VersionThere` (it is there once the
  commit is answered, unless a later request may have removed it).
* `OldGone`: `[]OldAliasesGone`, from `Shed`: an old row an update has read its
  way past is among those it has still to delete, or a link moved it there.
* `Members`: `[]LinkedIsMember`. `Counted` says that in a portfolio nobody
  numbered or took from, every vN is below the number of rows, so the number of
  rows is a name that is free, and stays so for a link that is alone.
* `Others`: the action property `AliasesOfOthersStay`. An update deletes by
  primary key the rows it read; `HeldOwn` says that those still there are of its
  artifact or a link moved them, and needs `Fresh`: a request inserts a key
  once, so the request that stands for a row's primary key names one row.

Module FileStreamProof, for every set of files and handlers and any number of
lines, timeouts, deaths and failures, from `StreamAssumption`:

* `LinesHold`: `[]LinesKept`. `LinesInv` says that a POST starts where the
  stored lines end and a handler is past the lines it has stored (`Behind`), and
  that a row comes after a row of every line before its own that parses
  (`Gapless`), which holds however many repetitions of a POST are still
  inserting.
* `RunRowTrue`: `[]RunRowHolds`. That the counters are not ahead of the rows is
  a statement about all handlers at once: `CountInv` says that the rows can be
  labelled with owners, so that the rows already counted and those each handler
  will still count are disjoint sets of rows. `SummaryInv` says that without a
  timeout one handler works at a time and the summary is the last one sent;
  `EndInv` follows the final state through the repetitions.
* `OnlyRefusalsStop`, the safety half of `Delivered`: a stream stops before its
  end only when it posted a list of chunks or a lookup of its handler failed.
  `RefusedInv` says that of every handler about to refuse; nobody waits for the
  one of a body that was broken off.

Module ArtifactCollectionsProof, for every set of requests, inputs, collections,
names, types and tags and any number of failures and deaths, from
`CollectionsAssumption` (inputs are well-formed; the first names are distinct):

* `Changes`: `[]ChangesKept`, from `NamesInv` (unique, and given by somebody)
  and `RenameInv` and `MoveInv`, which extend the claim to requests that have
  done their UPDATE, and to what a later delete has read and will save: it read
  the row after the UPDATE. A delete that would write back another name
  overlapped the request that gave it (`SaveInv`).
* `Replaced`: `[]TagsReplaced`. `TagsInv` says which tags are left at each
  position of the loop.
* `Explained`: `[]ErrorsExplained`. `RacesInv` says what a request that lost a
  race must have met.
* `Deleted`: the action property `DeletedForGood`.

Module RunAttachmentsProof, for every set of requests, inputs, runs, files and
artifacts and any number of failures and deaths, from `AttachmentsAssumption`
(ids and names of runs are distinct):

* `Meant`: `[]RunMeant`. `MeantInv` says that a request whose run was there when
  it came finds it by name and never gets to the lookup by display name.
* `Recorded`: `[]FilesRecorded`. `FilesInv` says which files of a request have
  their row at each step of the loop, `ByInv` who inserted a row, `OneInv` that
  two rows of one file are of requests that overlapped.
* `Listed`: `[]UsesListed`, from `UseInv`: the usage is stored before the
  artifact is looked up, so an error means that the artifact is unknown.

`First` takes the least of a set of positions, as `ORDER BY id LIMIT 1` does.
That a finite set of numbers has a least element (`LeastNumber`) is proved from
the well-foundedness of the strict order on finite subsets.

Module ArtifactUploadProof, for every list of files and any number of pieces,
handlers, downloads, timeouts, deaths, failures and broken PUTs, from
`UploadAssumption` (there is a file; files have distinct names, none of them the
manifest's; `None` is none of the values):

* `Inductive`: `[]IInv`. `TypeInv` says, besides the types, what a handler was
  asked at each statement (`Handles`), that an awaited handler was asked what
  the client asks now (`Awaits`), and what is answered in each phase
  (`Progress`). `Grows`, `QuietFacts` and one lemma of facts per action are the
  only ones that open the actions.
* `Retries`: `[]RetriesAccepted`, from `FaultInv`: a handler of a mutation is at
  "error" only when a statement failed, whatever rows earlier attempts left.
* `Content`: `[]ContentWhole`. `BlobInv` says that the file of an awaited PUT is
  the pieces its handler has copied, as long as no attempt at that path was
  given up at work; `LeftInv`, that every handler nobody waits for is such an
  attempt; `ReadInv`, that a download is of an answered file and gets no more
  than its size.
* `Complete`: `[]CommittedComplete`. `EntryInv` and `FinalInv` say which records
  and which manifest are there at each phase, `LatestInv` that the manifest the
  client holds is the latest unless an attempt to create one was given up,
  `RowsInv` that manifests refer to records of a manifest's file, `LateInv` that
  a commit is asked after everything was answered. `CountInv` is the pigeonhole
  principle: with a record of each name, the records are at least as many as the
  names. `BudgetInv` says how many handlers at work the bounded interruptions
  leave room for.

Some proofs did not go through until a model or a property said more. Links that
name a sequence instead of a portfolio, a `vN` given by hand in a portfolio, and
two versions of a sequence with one index are exceptions of ArtifactAliases'
properties, each of them a thing the code does not prevent. A deleted collection
may have been read by a third request that overlaps with the delete and with an
update: the exception in ArtifactCollections counts it. ArtifactUpload assumes a
file: a client with none never asks for URLs, and its commit has nothing to
count.

RunHistory's `LogComplete` used to be true of its instance only: a line
inserted between the COUNT and the list of a page shifts the last counted line
out of the page, and the walk ends without it. It took a longer log to meet
that, and the proof showed it; `met` now records it and the instance reaches it.

Of the properties that the runs check, these are only model-checked: the
liveness properties `Delivered`, `Uploads`, `WalkEnds`, `ShutdownEnds` and
`AllServe`, which are out of the prover's reach.

## Where the code and its documents disagree

With a run that shows it:

* **seed_cut** — a start that is cut off after the admin user was inserted
  leaves a database that is never seeded again: `SeedDefaults` returns as soon
  as the user is there (`store/seed.go:9`), and its comment says it creates what
  does not exist yet and is "safe to call on every startup" (`:5`). The server
  serves, and its key is refused.

Met while modelling, without a run of their own; the models have the behaviour,
and the properties are stated so that they allow it:

* Two overlapping createArtifact calls store the same version: MAX is read and
  the row inserted in two statements, without a unique index
  (`store/artifact.go:71`; `:60` says it "auto-increments").
* The loser of a race to create a type gets an error: the refetch carries its
  own generated key (`store/artifact.go:26`; the comment at `:25` expects it to
  find the winner's row). `getOrCreateTag` has the same shape
  (`graphql/artifact_mutations.go:1101`), so an updateArtifactSequence that loses
  the race for a tag fails after it has deleted the old tags.
* A death between the artifact and its lineage row leaves an artifact without
  its creating run, and the retry is deduplicated before it gets there
  (`store/artifact.go:102`).
* The portfolio version is the number of rows, so after an unlink the next link
  may take a name that exists; the insert fails unnoticed and the answer is
  success (`graphql/artifact_mutations.go:801`).
* updateArtifact deletes, by primary key, rows it read before a link moved them
  to another version (`graphql/artifact_mutations.go:632`).
* `output.log` may be a list of chunks (`docs/system-spec.md:521`, `:830`,
  `docs/openapi-spec.yaml:629`, `:825`), and the handler's request type cannot
  decode one: it answers 400 (`filestream/handler.go:52-56`), which the SDK does
  not retry (`docs/system-spec.md:531`), so the stream stops there. `Delivered`
  and `OnlyRefusalsStop` name it as one of the two things that stop a stream.
* A run is looked up by display name after any error of the lookup by name, not
  only when the name is unknown (`store/run.go:133-143`), and the display name is
  not unique: an artifact's creating run may be another run.
* The handler of a POST that timed out overwrites the summary of a later POST
  (`filestream/handler.go:111`; `docs/system-spec.md:524`).
* A deleted view comes back when an update that had read it saves it: `db.Save`
  inserts a row that has gone (`graphql/view_mutations.go:66`). An update by id
  does not look at the project it names.
* Views' pages repeat the last page's rows, or miss some, after insertions or
  deletions; a COUNT that fails ends the walk (`graphql/project_resolver.go:111`,
  `store/run.go:119`). `endCursor` is always null (`graphql/relay.go:105`), and
  `Run.files` ignores `after`.
* A type looks a collection up in the whole project, so after a move the old
  type still finds it as long as it has any other
  (`graphql/artifact_resolvers.go:229-235`); `TypeLookup` models it.
* The log's pages count (`store/log.go:8`) and list (`:15`) in two statements: a
  line inserted between them, before one that is there, shifts the last counted
  line out of the page, and the walk ends without it. A COUNT that fails is
  taken for 0, which ends it too.
* `RunHistory` is "one row per history step" (`store/models.go:128`), and
  repeated POSTs insert steps again; a page of the scan then has more rows than
  its LIMIT and leaves the last ones out. Downsampling is said to "always"
  include the first and last row (`store/run.go:183`); one sample is the last
  row only.
* An in-memory database is opened without limiting the pool to one connection
  (`store/db.go:42`), so a second connection would find an empty one.
* upsertBucket drops `notes` and `description` when it inserts a run, and
  `program`, `git_commit`, `git_repo` and `sweep_name` when it updates one
  (`store/run.go:84-97` and `:40-69`); `docs/openapi-spec.yaml:235` lists them
  as inputs of both. RunUpsert has both groups of columns;
  `AnsweredFieldsHold` speaks of the columns both paths write.
* upsertBucket by id alone takes any error of the lookup for "not found" and
  creates a run whose name is the id (`graphql/upsert_bucket.go:76-82`), and
  creates the project "uncategorized" before it looks (`:61`).
* Two first requests for one new run or project: the loser is answered with an
  error, not with the winner's row (`store/run.go:110`, `store/project.go:33`).
* A late handler of a repeated upsertBucket may overwrite the answered write of
  another request; `AnsweredFieldsHold` allows it.
* addAliases fails for an alias another version has
  (`graphql/artifact_mutations.go:704`); `docs/specs/artifact-endpoints.md:666`
  has it moved. deleteAliases may delete `latest` and `vN` (`:739`, spec
  `:667`). A deleted version can be committed again (`store/artifact.go:201`,
  spec `:37`). Linking twice adds a second row (`:803`).
* A `vN` alias set by hand before version N is committed keeps the name
  (`store/artifact.go:227`, `graphql/artifact_mutations.go:683`), and between
  the DELETE and the INSERT of a commit there is no `latest`
  (`store/artifact.go:215-218`).
* A client id is deduplicated by a query, not by an index, so overlapping
  retries store two versions (`store/artifact.go:66`;
  `docs/system-spec.md:840`).
* `run_files` has no unique index (`docs/system-spec.md:297`); nothing marks a
  run without heartbeats as crashed (`docs/system-spec.md:834`); file sizes are
  never set, so committed artifacts have size 0 (`store/artifact.go:191`).

## What is not modelled or not proved

Not modelled: the front end, whose effects run in an order Svelte's compiled
dependency tracking decides and the source does not state (hazard at
`workspace/+page.svelte:339`; also there, deleting a view only changes the
page's own list, `:614`); configuration, routing, static files and the GraphQL
schema, which keep no state; the formatting of answers; queries of one
statement that read what other modules describe; wall-clock columns;
descriptions, metadata and TTLs; the tests, scripts and documents.

Taken as given: creation times are distinct (ties are ordered by the database);
rows of equal step come in the order of their insertion; a name pattern matches
as a name does; an artifact has at least one file; an in-memory database is not
used.

The database is taken as it is used: each statement is atomic and durable when
it returns, unique indexes hold, and reads see what was written before. MySQL's
and SQLite's locking is not modelled beyond a statement that fails.

Out of the prover's reach, and left to TLC: liveness under fairness and
`ENABLED`; induction over data, such as what a sort, a fold or a recursive
function computes for every input (the least and the greatest of a finite set
are within reach, through the well-founded order on its subsets); anything in a
module that declares a RECURSIVE operator (no module here does).
