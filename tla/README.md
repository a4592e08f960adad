# Specification of worb

worb is a single-binary server compatible with the wandb Python client: runs log
metrics, console output and system events to it over HTTP, and it keeps them in
SQLite. A second service migrates projects from Weights & Biases to it. This
directory holds TLA+ modules of their stateful core, TLC configurations that check
them on small instances, and theorems checked by TLAPS.

    tlc -workers 2 -config wal_base.cfg MCWal       # any run of section 4
    tlapm --stretch 2 WalProofs.tla                 # any proof module

`PROJECT.json` is the index: components, runs, the source lines behind every
definition (`map`), a deliberate bug for every property (`mutants`), findings,
hazards and theorems. A `Bug...` operator in a module is such a bug; no
specification uses it.

## 1. The system

| component | state it keeps | operations |
|---|---|---|
| Write-ahead log, `internal/store/wal.go` | `wal.ndjson`, `wal.pos`; in memory the size, the read position, a closed flag, a one-slot channel | `Append` (throttled above 28 GB, refused above 32 GB), the goroutine `readerLoop` (scan, batch, flush, save position, compact), `flushSync`, `close` |
| Flusher, `buffer.go`, `history.go` | none of its own | called by `readerLoop`: filters a batch by live runs, groups it by run and kind, writes each group in transactions; counters; copies the data of forks |
| Projects and runs, `runs.go`, `db.go` | tables `projects`, `runs` | `EnsureProject`, `UpsertRun`, `ForkRun`, `DeleteRun`, `DeleteProject` (soft deletion), lookups |
| Cleanup, `cleanup.go` | none; works on `deleted_at` | a ticker: one batch of rows, or one run, or one project at a time |
| Files and artifacts, `artifacts.go`, `runs.go`, `filestore/` | tables `files`, `artifacts`; files on disk | `InsertFile`, `CreateArtifact`, `CommitArtifact`, upload, download |
| History reads, `history.go` | table `run_steps`, a derived count | `ensureRunSteps` (repair), counting, bucketed streaming |
| Storage usage cache, `storage_usage.go` | a snapshot, a channel while one is computed | single-flight refresh |
| Filestream handler, `filestream/` | none | splits a client's chunk over history, events, logs and summary; 503 when the log is full |
| GraphQL resolvers, `graphql/` | none | map the wandb API to the store |
| HTTP server, UI, auth, `server/`, `auth/`, `main.go` | none | routing, rendering, entity from an API key |
| Browser front end, `ui/templates/` | the histories it has loaded, each under the count it saw | pages of a run and of a project |
| Migration service, `migration/` (Python) | a state database of projects and runs; pause and stop flags | a worker that copies runs from wandb, resumably; requests that schedule, pause and reset |

How they interact: request handlers run concurrently and call the store. What
belongs to projects and runs they write to SQLite directly; what a run logs they
append to the log, from which one goroutine carries it to SQLite. The cleanup
goroutine deletes rows at the same time. Outside the few explicit transactions
each SQL statement commits on its own, on one of 32 connections. A fork goes both
ways: its row is written by the request and its data by the flusher. A browser reads
a count, keys and points in separate requests, one of which writes. The migration
service is a client of the same API, and the wandb client retries what it was not
answered.

What is hard, and what makes each part correct:

* *Log.* Appends, scanning, compaction, flush requests, close and crashes
  interleave around a file, a cursor and a batch in memory. Nothing accepted may
  be lost, repeated or reordered within a stream; `Flush` must be a barrier and
  must return; the limits must hold although `Append` sleeps without the lock; a
  restart must not skip what nobody has read.
* *Lifecycle.* Every check (project live? run live? table empty?) is separated by
  a commit of somebody else from the statement that relies on it. No row may be
  left without its parent, deletion must hide everything and stay final, a re-used
  id must start empty, and the purge must end.
* *History.* Points, steps, keys and counts are written by different statements
  and any of them can fail, be repeated after a crash, or race a reader's repair.
  First values must stay, every key with points be listed, counts settle, and a fork
  have what its parent had when it was made.
* *Uploads.* A client repeats what it was not answered while the old handler is
  still at work, and a chunk is several appends, any of which may be refused. An
  acknowledged chunk must be whole in one run.
* *Migration.* Crash, stop, pause, reset and error against a worker that goes by a
  row it read earlier. What is marked done must have been sent; what is scheduled
  must settle.

The hazards, with the line where each bites and the properties that watch it, are
in `PROJECT.json`.

## 2. Modules

| module | what it is |
|---|---|
| `LineQueue` | abstract: accepted payloads, and the items delivered from them exactly once, in order within a stream (run and kind) |
| `LineReader` | abstract: the log as its reader sees it, lines in order and read in turn, once in a life; a restart begins at a saved position or before it |
| `Wal`, `MCWal`, `WalProofs` | `wal.go` and the way `buffer.go` writes a batch; implements `LineQueue` and `LineReader` |
| `RunRegistry` | abstract: a run is absent, shown or hidden; what is shown starts empty and only grows |
| `Lifecycle`, `MCLifecycle`, `LifecycleProofs` | requests, deletions, flusher, uploads and cleanup over the tables; implements `RunRegistry` |
| `PointStore` | abstract: at most one value for a step and a key, from an accepted line or a parent's, for ever |
| `History`, `MCHistory`, `HistoryProofs` | what the flusher writes, forks, the reader's repair, the browser; implements `PointStore` twice, for scalars and for histograms, and `LineReader` |
| `Upload` | abstract: acknowledged chunks are whole in one run and enter the log in order |
| `FileStream`, `MCFileStream`, `FileStreamProofs` | clients that retry and the handlers that serve them; implements `Upload` |
| `Transfer` | abstract: a run is migrated part after part, each noted once when it is there or given up, its history counted and sent without a gap |
| `Migration`, `MCMigration`, `MigrationProofs` | the migration worker, its state database and its requests; implements `Transfer` |

The detailed modules share no variables: each keeps of the others what it needs to
meet every order of events. `History` has the log as `Wal` leaves it to its reader
(lines, a position, a saved position, crashes), without the file. That the two agree
on it is what `LineReader` is for: both implement it under every fault. The one step
of `LineReader` that `History` never takes is a torn compaction, which loses the
cursor. `Lifecycle` has the flusher as a process that may write to any run that ever
existed; `FileStream` has the log as the set of what was appended, which `Wal` shows
to be delivered.

Wherever an action says `Fault(kind)` something outside the program goes wrong: the
kinds a run allows are its constant `Faults`, and how often its `MaxFaults`. The
theorems are for every set of kinds and every bound unless their statement says
otherwise.

## 3. How the modules correspond to the code

### Wal

`log` is every line ever written; the file is its end, from `base` on, so
compaction only moves `base`. `pos`, `size`, `posFile`, `chan`, `closed` are
`w.pos`, `w.size`, the content of `wal.pos`, `w.flushNow` and `w.closed`.
`pending` is the batch: the slices `scalars`, `histograms`, ... of `readerLoop`.
`applied[it]` counts how often the database committed item `it`, where an item is
one kind of data of one line. `rpc` is where `readerLoop` stands and `path` the
branch it is on: a step is what it does between two points at which another
goroutine can interfere. A caller of `Flush` or `Close` goes through `fpc`:
`send`, `wait`, `done`, and for `Close` also `closing`, `closed`.

`Append` below the soft limit is `AppendNow`; above it `AppendSlow` releases the
lock and `AppendResume` writes without looking at the size again, as the code
does. A refused append changes nothing and is no step. `savePos` is two steps,
since `os.WriteFile` truncates before it writes; `Compact` (copy, rename, reopen)
is one, and the save of the position after it is not part of it: that is where a
crash matters. `FlushGroup` and `DropGroup` are one group committed or, on an
error, logged and forgotten.

Simplifications:

* A line is a unit and its length 1. Torn lines, short writes and a reader that
  catches an append half-way need bytes (section 7).
* A crash is the end of the process. What was written to a file stays; `fsync`
  (a ticker, `fsyncLoop`) and power loss are not modelled.
* The 500 ms, 5 s and 30 s timers may be due whenever the code looks at them.
* A group is one transaction. In the code scalars take two and a group above
  100 000 rows several; `History` and `Lifecycle` have the two transactions.
* Counters carry no data and a fork is one item; both are in `History`.

`torn` remembers that a compaction hit by a crash, or one that could not reopen its
file, has left the position of the old file behind. It is exactly the exception in
`LossBounded` and `RestartSkipsOnlyIfTorn`.

### Lifecycle

`pstate` and `rstate` say whether a row was never there, is live, is soft-deleted
(`deleted_at` set) or has been removed; `rows[r][t]` counts the rows of run `r` in
table `t` in units of a purge batch. `req[h]` is a request handler: `pc` is the
statement it will run next, and `run`, `proj`, `name` are its local variables.
`UpsertRun` starts at `lookup`; with a drawn id it goes through `project` and
`byName` to `project2`, with a client's id straight to `project2`, and ends at
`insertRun`. `ForkRun`, after it has read its parent, is at `insertRun` at once.
Uploads go through `project3` and `findRun`. `fl` is the rest of the transactions
of the group being written; `purge` is the purge function between its statements.
`ForeignKey` stands for the pragma `foreign_keys(1)` of `db.go:240`: a statement
that would leave a row without its parent fails.

Simplifications:

* Columns other than keys and `deleted_at` are left out. A lookup by name or
  display name finds some live run of the project, or none.
* A row that already exists (`INSERT OR IGNORE`) may be counted again: the purge
  has more to do than in the code, never less.
* A failing statement ends a request (`StatementFails`) and may happen at any
  step; this stands for a busy database and for a crashed server as well.
* The cleanup's own statements do not fail except for a foreign key. A busy
  database would only make it wait for another tick.
* The flusher may write lines of any run that ever had a row, since a line may
  stay in the log for as long as the log is long.
* `Drawable` is the uniqueness of random UUIDs.

### History

A value is the number of the line it was logged in: `points[r][<<s, k>>]` is the line
behind the row of `history_scalars` for run `r`, step `s` and key `k`, 0 if there is
none; `histos` likewise. `steps`, `keys` and `hcount` are `run_steps`, `run_keys` and
`runs.history_line_count`. `log`, `pos`, `saved` and `batch` are the lines, the
reader's position, the one in `wal.pos` and the lines in the batch slices. `fl` is the
flusher: `pc` the next transaction or statement, `todo` the groups (or fork entries)
still to do, `run`, `keys`, `left`, `n` the locals of the group at hand. `rq` is a
request for a fork, `view` a browser that loads a run and the statement of
`ensureRunSteps` it is at, and `cache` what `run.html` has kept.

A page of a run goes count (`OpenPage`), keys (`GetHistoryKeys`), then the points of
each key within `view.range` (`StreamKey`), and keeps them (`KeepHistory`) under the
count it began with. It stays open (`shown`): a zoom or another `xMin`, `xMax`
(`Zoom`) drops what is loaded, asks for the same keys (`names`) in the new range, and
what comes is kept under the old count again, as `run.html:798` does. Its requests
may fail (`Fault("read")`): without its keys the page asks for a history that names
none, and keeps that (`KeysFail`); an error answered is asked for again
(`RequestFails`); an answer that breaks off looks like one that has ended, and is
kept (`AnswerBreaks`).

A batch goes scalars (`FlushScalars`, then `FlushKeys`, for each run), histograms,
counters (`CountSteps`, `SetCount`), forks (`ForkCheck`, chunks of `CopyScalars` and
`CopyKeys`, `CopyHistograms`, `CopyRunKeys`, `ForkCount`, `SetForkCount`), each with
its failure, in the order of `flush()`. `Chunks` gives the chunks that
`ORDER BY step LIMIT txChunkSize` may take. A crash drops everything in memory and
sets the reader back to `saved`, or, when it falls inside `savePos`, which truncates
the file before it writes it (`wal.go:381-396`), to an earlier line.

The ghost variables state what the properties except, and are set where it happens:
`outcome[i]` (a fork entry was copied, refused or dropped), `hurtKeys` and `hurtCount`
(a failed statement, a refused or dropped fork, or a crash past the saved position
kept a key or a count from being written), `viewed` (the reader's repair stored the
count last), and in a cached history `within`, the steps among which the page has
asked for everything and was answered: the range, or nothing after a failure.

Simplifications:

* Values, timestamps and the contents of events and logs are left out; a histogram
  is a value like another, in its own table.
* `LogLine` is an accepted line: throttling, refusal and compaction are `Wal`'s.
* Runs are soft-deleted, not purged: the purge, which changes rows of deleted runs
  only, is `Lifecycle`'s.
* One request for a fork and one browser at a time. Requests for different forks write
  different rows; what a second browser could store is a count in the place of another,
  which the run `hist_count` shows with one.
* Buckets of a read are left out: every point of the range is sent.
* A page has one request for its points, where the code has one for every 20 keys.
  A range chosen while the page waits for its keys or for the repair takes effect
  when the points are due. Pages are left only when they are loaded.
* A page that finds its history in the cache asks for nothing, and keeps nothing more
  (`allKeyNames` stays empty), so a cache hit is no step.
* Requests of a project's page do not fail: nothing is kept of them.

### FileStream

`state`, `deleted` and `received` are `runs.state`, `deleted_at` and
`runs.received_history_count`; `logged[r]` is the set of `<<client, chunk, file>>` that
were appended to the log for run `r`. A client sends chunk `next[c]` (0 is the creation
of the run, `UpsertBucket`) for the `tries[c]`-th time and waits for handler
`waiting[c]`. `req[h]` is a handler: `byName`, `insert`/`update`, `fetch` are
`UpsertRun` without an id; `find`, `files`, `count`, `reply` are `ServeHTTP` of the file
stream, which takes the files of a chunk in any order, the order of a Go map. A broken
connection (`LoseConnection`) frees the client and not the handler.

`Given[c]` is the state client `c` creates its run with. The migration gives one
(`worb_client.py:62`), the wandb client none; `InsertRun` stores it and `UpdateRun`
sets it again, to whatever run the lookup found. A failing statement ends a request
with an error (`StatementFails`), but an error of `EnsureProject` or of the lookup by
name is dropped (`runs.go:112-119`), and the handler goes on to insert (`LookupFails`).

`overlaps` counts creations sent while another was under way, `missed` the failed
lookups of a name that was taken: with the deleted runs they are what may split an
upload, each over one run more. `hurt` has the runs for which an update of the
received count failed or was cut off, which `ReceivedCovers` excepts.

Simplifications: all clients log under one name in one project, which is the case
where they meet. Bodies are parsed before anything else and are left out; so is the
summary's content. Steps of different chunks differ, as `wandb`'s do. States of a run
other than `finished` are one (`running`).

### Migration

`pstatus`, `rstatus`, `flags`, `sent`, `errors` are the columns of
`migration_projects` and `migration_runs`; `up`, `stopped`, `paused` are the process
and the flags of the worker; `got[r]` is what reached worb since run `r` was last
reset, in requests ("pieces"). `w` is the worker thread with the row it read when it
picked the run, by which it goes until it is through; `api` is a handler in the middle
of a reset of a project, three statements in the code.

A part (`PartSeq`, the order of `_migrate_run`) is skipped when its column is set,
started, sent piece by piece, and marked. History and files look at the flags before
each piece (`PassGate`), and return early on a shutdown. History notes every piece
(`CountSent`) and goes on from there.

The ghosts name what the properties except. `missed`: pieces the source did not give
(the client returns nothing on an error, `wandb_client.py`). `cut`: parts that a
shutdown interrupted; `_migrate_history` then returns as if it were through, its
caller sets the column, and the rest is never sent. `overtaken`: runs reset while the worker was
at them, whose old row goes on over the cleared one. `reopened`: projects with a run
that was reset after they had been counted as done. `stranded`: projects left in
`discovering` by the end of the process; nothing ever looks at them again.

For `Transfer` a run is open while it is `pending` or `in_progress`; what was missed or
cut short is given up, and runs that were overtaken are blurred: they settle, but
nothing is promised of what has arrived.

Simplifications: what the source has of a run does not change while it is copied. The
pause between requests while worb's own log is long, merging of rows by step, and the
status pages change nothing that is modelled. A retried request that fails for good is
one `SendFails`, which may have arrived. One reset of a project is under way at a time
(`api`), and the statements of the state database, a file of the service's own, do not
fail; its process may end between any two of them.

## 4. Runs

| run | instance | what it shows |
|---|---|---|
| `wal_base` | no faults; 3 lines of history, forks and empty lines over 2 runs; 1 writer, 1 flusher; batch of 2; compaction from 2 lines | `NothingLost`, `FlushBarrier`; `Wal` implements `LineQueue`, also its liveness (`ServesLineQueue`) |
| `wal_crash` | 2 crashes at any step, 3 lines of history and forks, 2 runs, a flusher, compaction | `LossBounded`: a crash loses less than a batch; `OrderWithinLife`: groups are written in the order of their streams, forks after all that was logged before them; `Wal` implements `LineReader` |
| `wal_faults` | 2 writers above the soft limit, `Close`, 2 crashes, failing transactions, renames and reopens, 4 lines | `AppliedOncePerLife`, `SizeBound`, `RestartSkipsOnlyIfTorn` |
| `wal_close` | `Flush` and `Close` against a writer and compaction | `CloseKeepsAccepted`; `WaitersAreKnown`: who waits is in the channel or with the reader; `FlushReturns`, unless the log is closed |
| `life_base` | a client id, a drawn id, one project, one handler at a time, 2 inserted runs, 1 group or upload | `NoOrphans`, `ImplementsRegistry`, `RunsArePurged`, `ProjectsArePurged` |
| `hist_base` | a run of two steps, the first with two metrics, a fork of it that may be deleted, 2 lines; one page, of the run, which may be zoomed to its first step, or of the project; one failing read | `CacheHoldsItsRange`: a cached history whose count is current has every step of the range it was loaded for; `ForksSettle` |
| `hist_faults` | both runs log, 3 lines, 1 fork, one crash, failing statement or full log at any step | `KeysListed`, `CountersSettle`, `ForkFaithful`; implements `PointStore` for scalars and histograms, and `LineReader` |
| `stream_base` | 2 clients of one name, one of which migrates a finished run; 2 handlers, 3 ids; a chunk of two history lines and one of console output with a summary; 2 tries, one fault of any kind, a run may be deleted | `UploadStaysTogether`, `ReceivedCovers`, implements `Upload` |
| `mig_base` | a project of 2 runs, one with 2 pieces of history and a file; 2 faults of any kind, 1 reset, pause or shutdown | `SkippedIsDelivered`, `DoneRunIsComplete`, `DoneProjectHasDoneRuns`; implements `Transfer`; `RunsSettle`, `ProjectsAreDiscovered` |

Why the bounds are enough. Three lines with a batch of two give a full batch, a
partial one and a line that arrives during a flush; compaction needs two lines, so
it happens with and without unread lines behind the cursor; two crashes let the
second meet the position the first one left. Two throttled writers are what it
takes to pass the limit together. In `life_base` the second insertion re-uses the
id of the first run or adds the drawn one, and one late write is enough to refill a
table that the purge has just found empty; eight tables are all there are. The
handler is one because the second actor of each race is there anyway: deletions,
flusher and cleanup are not handlers.

In `hist_faults` and `hist_count` three lines are two rows and the fork between or after
them, in one batch, two or three; with transactions of one point the copy of a fork is
cut between any two of its points. In `hist_base` two lines are enough, two rows for a
page to fall between or a row and its fork: the two metrics of the first row are two
points to copy, and two keys of which a page may get one. The one range has one step
of two, so the rest is missing from what it loads. In `stream_base` the two clients with two
handlers give two creations at once, and a client with both of its own requests under
way. In `mig_base` two pieces are what it takes to stop between them, and the second
run is what keeps a project open, or is counted as done before it is reset. With two faults and two
requests the safety of `Migration` has been checked once as well (3.7 million states,
too long for every day).

`MaxLines`, `MaxRestarts`, `MaxCreates`, `MaxWrites`, `MaxStep`, `MaxForks`, `MaxViews`,
`MaxFaults` and `MaxRequests` bound what is counted without end. For the liveness
properties of `Lifecycle` `MaxCreates` and `MaxWrites` also say that data does not arrive
for ever: with endless uploads to a deleted run, between the SELECT and the INSERT
each, the purge of that run need not end in the code either. For those of `Migration`
`MaxFaults` and `MaxRequests` say that failures and resets come to an end. The proofs do without these
values.

`wal_faults` and `wal_close` say `CHECK_DEADLOCK FALSE`, since after `Close` the
reader has left its loop and the system has stopped; the runs of `History` say so since
their clients run out of lines, forks and pages. The other runs check for deadlock:
there the reader, an idle handler, a client that has not given up (or `Done`), or the
migration's worker always has something to do.

`Symmetry` in `wal_faults` and `stream_base` permutes processes and ids that no
definition tells apart: in `stream_base` the handlers and the ids of runs that are not
deleted, since the clients differ in what they give. Neither run checks liveness.

Fairness. `WF(Reader)` and, in `History`, `WF(Flusher)`: the reader is a goroutine that
never waits for anything but its own sleep and `w.mu`. `SF(Send(c))`: senders blocked on
a Go channel are queued first in, first out, so a caller of `Flush` is not passed by
others for ever; weak fairness would not do, because others make the slot full again
and again. `WF(Cleanup)`: the ticker fires every second for as long as the server
runs. `Migration`: `WF(Work)`, the worker's thread, whose own sleeps end;
`WF(ResetRows \/ ResetStatus)`, a request is carried through; `WF(Exit)`, a process that was
told to end does (`stop` waits ten seconds and no more); and of its users, who pauses resumes (`WF(Resume)`) and a
service that has ended is started again (`WF(Start)`): a paused or absent service
migrates nothing, which is what they ask for. Nothing is assumed of writers, clients or handlers.

## 5. Where the code and its documentation part

Each of these runs has one property, and TLC finds it violated.

| run | says | what the code does |
|---|---|---|
| `wal_lost` | `NothingLost`: accepted lines reach SQLite (`arch.html:348`) | `wal.pos` is saved every 5 s past lines that are only batched (`wal.go:272`); a crash then loses them. `LossBounded` says how many. |
| `life_undead` | `DeletedProjectHasNoRun` (`index.html:52`, `cleanup_test.go:131`) | `UpsertRun` and `ForkRun` insert into a project they looked up before; if it was soft-deleted meanwhile the run is live in it, the project is never purged and its name stays taken |
| `hist_count` | `CountersSettleUnderReads`: the count of a run is the number of its steps (`history_test.go:41`) | `ensureRunSteps` (`history.go:332`) stores a count it took before the flusher copied the fork and counted again; nothing corrects it until the run logs again |

The exceptions in the properties of section 4 are smaller disagreements of the same
kind, seen in the same way: `torn` (a restart may skip lines after a crash inside a
compaction, `wal.go:441-454`), `cut` (a shutdown in the middle of a run's history or
files has the rest taken for sent, `migration_server.py`), `overtaken`, `reopened` and
`stranded` (section 3); further

* `missed`: a failed lookup of a name (`runs.go:112-119`) makes a second run of that
  name, and what the client sends next may go to either;
* `within`: a page that was zoomed, or whose keys or answer failed, keeps a part of the
  history under the count of all of it (`run.html:798`, `run.html:829`), and the next
  opening of the run takes it for complete (`run.html:1245`). `CacheHoldsItsRange` says
  which part is there; whether it is all, the page has no way to know;
* `Given`: a state given at creation (`runs.go:135`, `runs.go:148`) finishes a migrated
  run before its first line, and a creation that is repeated late sets it again over
  what `FinishRun` has stored. `Upload` has this as an action of its own, `Declare`.

## 6. Proofs

Every theorem is for all values of the constants, under the assumptions named in
the modules (sizes positive and ordered, finite sets of writers and steps, `None` not
an id, drawn ids different from clients' ids), and rests on an inductive invariant.

| module | theorem | establishes | by |
|---|---|---|---|
| `WalProofs` | `TypeCorrect` | `TypeOK`, with the position inside the open file | `TypeInv`: the reader serves somebody exactly while it drains |
| | `SizeBounded` | `SizeBound`, under every fault | `SizeInv`: lines and sleeping writers counted together; the length of the file, for restarts |
| | `AppliedOnce` | `AppliedOncePerLife`, under every fault | `OnceInv`: what is unread or batched has not been written in this life |
| | `FlushIsBarrier` | `FlushBarrier`, under every fault | `BarrierInv`: whose channel is whose; at the end of the file all lines marked by the caller are read, after the flush they are handed over |
| | `RestartSkips` | `RestartSkipsOnlyIfTorn`, under every fault | `PosInv`: unless torn, the saved position is not ahead of the reader's |
| | `NothingIsLost` | `NothingLost`, when nothing fails but renames | `KeptInv`: whatever is read is batched or written |
| | `ClosedKeeps` | `CloseKeepsAccepted`, when nothing fails but renames, `Close` being called at most once (only tests call it, `cleanup_test.go:15`; `main` ends without) | `CloseInv`: the barrier and `NothingLost` while the handle is open |
| | `CrashCostsABatch` | `LossBounded`, with crashes and failing renames, without `Close` | `LossInv`: the position is saved only over a batch that is not full, so less than `BatchItems` items are ever at risk |
| | `LogIsQueue` | `Wal` implements `LineQueue`, when nothing fails but renames | `TypeInv`, `OnceInv`, `KeptInv`: a ready group is a legal delivery |
| | `OrderIsKept` | `OrderWithinLife`, under every fault | `OrderInv`: what was read later of a stream stays in the batch at least as long as what was read before it; a group is ready only when the whole of its stream in the batch is in it, a fork only when nothing before it is left |
| | `NobodyIsForgotten` | `WaitersAreKnown`, under every fault | `BarrierInv` (one caller at a time in the channel and with the reader), `WaitersInv`: the loop is left only over a closed log |
| | `LogIsLineReader` | `Wal` implements `LineReader`, under every fault | `TypeInv`, `PosInv`: what a restart finds is at or before the position, unless torn |
| `LifecycleProofs` | `LifecycleTypes` | `TypeOK` | inductive as it stands |
| | `NothingOrphaned` | `NoOrphans` | `RequestInv`: a handler about to insert a run has a project, found, added or inherited from the parent; the parent's is there because of `NoOrphans` itself, so the two are proved together |
| | `LifecycleIsRegistry` | `Lifecycle` implements `RunRegistry` | `NoOrphans` (a new run starts empty), `PurgeInv` (the run being purged is still soft-deleted) |
| `HistoryProofs` | `HistoryTypes` | `TypeOK` | `TypeInv`: which locals of the flusher, the request and the browser are set at which place |
| | `PointsAreKept`, `HistogramsStay` | `History` implements `PointStore` | an inserted value is logged, a copied one inherited |
| | `CountsSettle` | `CountersSettle`, under every fault | `CountInv`: a run whose count is not its steps is owed a count, by an unread line, a line of the batch, the group at hand, or the entry of a fork under way (`Owed`); `StepsInv`, points are under listed steps, so that the reader's repair adds none |
| | `KeysAreListed` | `KeysListed`, under every fault | `KeyInv`: an unlisted key is due (`KeyDue`), in the flusher's hand or in a line that will be read again |
| | `ForksAreFaithful` | `ForkFaithful`, under every fault | `CopyInv` (what of the parent is copied when), `OrderInv` (the entries ahead are the later ones, so what was logged before a fork is in the database when it is copied), `FaithInv` |
| | `HistoryIsLineReader` | `History` implements `LineReader`, under every fault | `TypeInv`: the saved position is not ahead of the reader's, and the batch is of lines that were read |
| | `CacheKeepsItsRange` | `CacheHoldsItsRange`, with failing statements and reads and any zooming, but no crashes and no refused forks | `CacheInv`: a count never passes the steps of the listed points, and a page that has read the count has, whatever range it asks for, the keys for all steps of that count, loaded or still to load |
| `FileStreamProofs` | `StreamTypes` | `TypeOK` | `Core`: what a handler at each place has in its hands, and what it has logged |
| | `StreamIsUpload` | `FileStream` implements `Upload`, under every fault and whatever states clients give | `Core` |
| | `StaysTogether` | `UploadStaysTogether`, under every fault | `Together`: creations under way are at most one more than `overlaps`; runs made and creations about to insert, counted together, at most one more than deleted runs, overlaps and failed lookups |
| | `CountCoversLog` | `ReceivedCovers` | `SentOnce` for the second half: without faults no chunk is sent twice |
| `MigrationProofs` | `TypeCorrect` | `TypeOK` | inductive as it stands |
| | `SkippedAlways`, `DoneRunAlways` | `SkippedIsDelivered`, `DoneRunIsComplete` | `CopyInv`: what the worker holds of a run is true of it (`Hands`) as long as the run is not reset under it, and a run that is done has all of its columns set (`RowInv`) |
| | `DoneProjectAlways` | `DoneProjectHasDoneRuns` | `PlaceInv` (which project and run the worker has at which place), `DoneInv` (a project that is being closed has done runs, or is reopened) |
| | `MigrationIsTransfer` | `Migration` implements `Transfer`, under every fault, request and restart | `CopyInv` and `OrderInv`: the columns set of a run are always those of its first parts (`Prefix`), the worker's old row with the parts behind it gives them, and the piece in its hands is the one after the count (`InOrder`), whatever attempt it is |

Left to TLC: the liveness properties (`ServesLineQueue`, `FlushReturns`,
`RunsArePurged`, `ProjectsArePurged`, `ForksSettle`, `RunsSettle`,
`ProjectsAreDiscovered`), since the prover does not reason about fairness; and the
counterexamples.

`CacheHoldsItsRange` is checked with a failing read and proved with failing reads and
statements; a failed statement makes a key suspect (`hurtKeys`) and its run exempt.
Crashes and refused forks are left out on purpose. A crash between
the points of a line and its keys leaves a count that is ahead of the listed keys
until the replay has come to the same keys again, in whatever batches, and a page
loaded in between is kept under that count. A fork whose entry the full log refuses
keeps the count it claimed, and a page may be kept under that.

## 7. Not modelled, and what could come next

Generated GraphQL code (10 921 of the 16 126 lines), routing, rendering, the SQL
console and performance tracking keep no state of their own or only present it.
Authentication is a pure function of a header. The one-shot migration script is
sequential and superseded by the service. The storage usage cache is one flag and one
mutex around an answer that nothing relies on. Files on disk are written under random
names and never removed; only their rows are modelled. `CommitArtifact` changes a
column that nothing reads but the client that set it.

What could come next:

1. Bytes in the log. A write cut short (`wal.go:143`) leaves half a line that the next
   append continues, and a reader that meets the end of the file in the middle of a
   line takes it for one (`wal.go:264`). A module of bytes, composed with `Wal`.
2. `Wal` and `Lifecycle` together: unread lines of a purged run are written to a new
   run of the same id (`buffer.go:207`).
3. Pure algorithms as operators: buckets, the merge of configurations, the entity of
   an API key, `buildForkLineage`.
4. Throttling seen by a client: `Append` waiting, 503 and the retries of `FileStream` in
   one module.
