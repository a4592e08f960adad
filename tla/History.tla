------------------------------ MODULE History ------------------------------
(***************************************************************************)
(* The history of runs in the database, and who writes and reads it.       *)
(*                                                                         *)
(* Lines of metrics and fork entries are appended to the log.  The flusher *)
(* (flush in wal.go, buffer.go, the flush functions of history.go) carries *)
(* a batch of them into history_scalars, run_steps, run_keys and           *)
(* history_histograms, recounts runs.history_line_count, and copies the    *)
(* data of forks.  A request for a fork (ForkRun in runs.go) announces a   *)
(* count before the data is there.  A browser that opens a run (run.html)  *)
(* reads the count, the keys and the points in separate requests, one of   *)
(* which repairs a missing run_steps (ensureRunSteps), and keeps what it   *)
(* got under the count it saw.  While the page is open its range of steps  *)
(* may change, and the points of that range are asked for once more.       *)
(*                                                                         *)
(* The log is what module Wal says it is, seen by its reader: lines, the   *)
(* position of the reader and the one saved on disk.  A statement or a     *)
(* transaction is one step.  A value is known by the number of the line it *)
(* was logged in.                                                          *)
(***************************************************************************)
EXTENDS Integers, Sequences, FiniteSets

CONSTANTS
    Runs,         \* run ids
    Started,      \* the runs that exist at the beginning
    Keys,         \* names of metrics
    MaxStep,      \* model bound: steps are 0..MaxStep
    Payloads,     \* the lines clients log: Rows
    None,         \* no run, no cached history
    TxChunk,      \* txChunkSize, the points of one transaction of a copy
    Viewed,       \* the runs a browser opens
    Deletable,    \* the runs a user deletes
    Compared,     \* the runs a browser shows on the page of their project
    Ranges,       \* the steps between the xMin and xMax a user chooses
    Faults,       \* what may go wrong: a subset of FaultKinds
    MaxLines,     \* model bound: lines ever appended
    MaxForks,     \* model bound: requests for a fork
    MaxViews,     \* model bound: pages opened
    MaxFaults     \* model bound: crashes and failing statements

Steps == 0..MaxStep
Cells == Steps \X Keys

Rows  == [run : Runs, step : Steps, scalars : SUBSET Keys,
          histograms : SUBSET Keys, parent : {None}]
Forks == [run : Runs, step : Steps, scalars : {{}}, histograms : {{}}, parent : Runs]

FaultKinds == {"crash", "db", "full", "read"}

ASSUME RunsAssumption     == /\ None \notin Runs
                             /\ Started \cup Deletable \cup Viewed \cup Compared \subseteq Runs
ASSUME PayloadsAssumption == Payloads \subseteq Rows
ASSUME RangesAssumption   == Ranges \subseteq SUBSET Steps
ASSUME ChunkAssumption    == TxChunk \in Nat \ {0}
ASSUME FaultsAssumption   == Faults \subseteq FaultKinds
ASSUME BoundsAssumption   == /\ MaxStep \in Nat
                             /\ MaxLines \in Nat
                             /\ MaxForks \in Nat
                             /\ MaxViews \in Nat
                             /\ MaxFaults \in Nat

VARIABLES
    \* the log, and the flusher's place in it
    log,       \* every line ever appended
    saved,     \* lines before the position in wal.pos
    pos,       \* lines before the reader's position
    batch,     \* lines in the batch slices
    \* the database
    row,       \* runs.state, of a run that is live or soft-deleted
    deleted,   \* the soft-deleted runs
    points,    \* history_scalars: points[r][<<s, k>>], 0 where there is none
    histos,    \* history_histograms, likewise
    steps,     \* run_steps
    keys,      \* run_keys
    hcount,    \* runs.history_line_count
    \* the goroutines and the browser
    fl,        \* the flusher
    rq,        \* a request for a fork
    view,      \* a browser that loads a run
    cache,     \* what it keeps of each run: [count, cells], and the steps
               \* within which it has asked for all (of the model)
    \* of the model
    outcome,   \* outcome[i]: what became of the fork entry in line i
    hurtKeys,  \* <<r, k>>: a fault kept k out of run_keys
    hurtCount, \* runs whose count a fault, a refused or a failed fork left behind
    viewed,    \* runs whose count ensureRunSteps stored last
    asked,     \* requests for a fork so far
    opened,    \* pages opened so far
    faults     \* faults so far

logVars == <<log, saved, pos, batch>>
dbVars  == <<row, deleted, points, histos, steps, keys, hcount>>
ghosts  == <<outcome, hurtKeys, hurtCount, viewed>>
bounds  == <<asked, opened, faults>>
vars    == <<logVars, dbVars, fl, rq, view, cache, ghosts, bounds>>

FlPCs    == {"idle", "scalars", "keys", "histograms", "counters", "setCount",
             "forks", "copyScalars", "copyKeys", "copyRest", "forkCount", "setForkCount"}
RqPCs    == {"idle", "row", "claim", "append"}
ViewPCs  == {"idle", "keys", "claim", "steps", "backfill", "recount", "store", "data",
             "shown"}
Outcomes == {"none", "copied", "refused", "dropped"}

IdleFl   == [pc |-> "idle", todo |-> {}, run |-> None, keys |-> {}, left |-> {}, n |-> 0]
IdleRq   == [pc |-> "idle", run |-> None, parent |-> None, upto |-> 0]
IdleView == [pc |-> "idle", run |-> None, count |-> 0, names |-> {}, keys |-> {}, n |-> 0,
             cells |-> {}, range |-> Steps, broken |-> FALSE]

-----------------------------------------------------------------------------
(* What is where. *)

IsFork(i) == log[i].parent # None

Stored(r) == {c \in Cells : points[r][c] # 0}

ScalarSteps(r) == {c[1] : c \in Stored(r)}

LiveRow(r) == row[r] # "none" /\ r \notin deleted

(* Deliberate fault: a fork entry does not count as an item. *)
BugForkNoItem(i) == log[i].scalars # {} \/ log[i].histograms # {}

(* processLine counts items: a row whose values are neither numbers nor
   histograms has none. *)
HoldsItems(l) == l.parent # None \/ l.scalars # {} \/ l.histograms # {}

HasItem(i) == HoldsItems(log[i])

Unread == pos + 1 .. Len(log)

(* The runs with something in a batch slice. *)
ScalarRuns    == {log[i].run : i \in {j \in batch : log[j].scalars # {}}}
HistogramRuns == {log[i].run : i \in {j \in batch : log[j].histograms # {}}}
CounterRuns   == {log[i].run : i \in {j \in batch : ~IsFork(j)}}
ForkLines     == {i \in batch : IsFork(i)}

(* activeRunIDs. *)
Active(S) == {r \in S : LiveRow(r)}

(* The lines of the batch with a value for a cell of r. *)
ScalarLines(r, c)    == {i \in batch : log[i].run = r /\ log[i].step = c[1] /\ c[2] \in log[i].scalars}
HistogramLines(r, c) == {i \in batch : log[i].run = r /\ log[i].step = c[1] /\ c[2] \in log[i].histograms}

Earliest(S) == CHOOSE i \in S : \A j \in S : i <= j

(* Deliberate fault: the primary key does not keep the older value. *)
BugReplace(old, S) == IF S # {} THEN Earliest(S) ELSE old

(* INSERT OR IGNORE: the primary key is (run_id, step, key), and of several
   rows the first one stays. *)
InsertOrIgnore(old, S) == IF old = 0 /\ S # {} THEN Earliest(S) ELSE old

(* Pairs of stored points and keys that nobody has listed. *)
Unlisted(r) == {<<r, c[2]>> : c \in {d \in Stored(r) : d[2] \notin keys[r]}}

Init ==
    /\ log = << >>
    /\ saved = 0
    /\ pos = 0
    /\ batch = {}
    /\ row = [r \in Runs |-> IF r \in Started THEN "running" ELSE "none"]
    /\ deleted = {}
    /\ points = [r \in Runs |-> [c \in Cells |-> 0]]
    /\ histos = [r \in Runs |-> [c \in Cells |-> 0]]
    /\ steps = [r \in Runs |-> {}]
    /\ keys = [r \in Runs |-> {}]
    /\ hcount = [r \in Runs |-> 0]
    /\ fl = IdleFl
    /\ rq = IdleRq
    /\ view = IdleView
    /\ cache = [r \in Runs |-> None]
    /\ outcome = [i \in 1..MaxLines |-> "none"]
    /\ hurtKeys = {}
    /\ hurtCount = {}
    /\ viewed = {}
    /\ asked = 0
    /\ opened = 0
    /\ faults = 0

-----------------------------------------------------------------------------
(* Clients: lines, forks, deletions. *)

Fault(kind) == kind \in Faults /\ faults < MaxFaults /\ faults' = faults + 1

(* InsertHistoryBatch for a run that GetRunByName has found. *)
LogLine(l) ==
    /\ Len(log) < MaxLines
    /\ LiveRow(l.run)
    /\ log' = Append(log, l)
    /\ UNCHANGED <<saved, pos, batch, dbVars, fl, rq, view, cache, ghosts, bounds>>

(* ForkRun: the parent is live; the target is a new id, or the id UpsertRun
   has just returned. *)
BeginFork(r, parent, upto) ==
    /\ rq = IdleRq
    /\ asked < MaxForks
    /\ LiveRow(parent)
    /\ row[r] = "none" \/ LiveRow(r)
    /\ rq' = [pc |-> "row", run |-> r, parent |-> parent, upto |-> upto]
    /\ asked' = asked + 1
    /\ UNCHANGED <<logVars, dbVars, fl, view, cache, ghosts, opened, faults>>

(* INSERT of a new row, or UPDATE of columns that decide nothing here. *)
ForkRow ==
    /\ rq.pc = "row"
    /\ row' = [row EXCEPT ![rq.run] = IF @ = "none" THEN "running" ELSE @]
    /\ rq' = [rq EXCEPT !.pc = "claim"]
    /\ UNCHANGED <<logVars, deleted, points, histos, steps, keys, hcount, fl, view,
                   cache, ghosts, bounds>>

(* The count the fork is going to have if its parent has every step. *)
ForkClaim ==
    /\ rq.pc = "claim"
    /\ hcount' = [hcount EXCEPT ![rq.run] = rq.upto + 1]
    /\ rq' = [rq EXCEPT !.pc = "append"]
    /\ UNCHANGED <<logVars, row, deleted, points, histos, steps, keys, fl, view,
                   cache, ghosts, bounds>>

ForkAppend ==
    /\ rq.pc = "append"
    /\ Len(log) < MaxLines
    /\ log' = Append(log, [run |-> rq.run, step |-> rq.upto, scalars |-> {},
                           histograms |-> {}, parent |-> rq.parent])
    /\ rq' = IdleRq
    /\ UNCHANGED <<saved, pos, batch, dbVars, fl, view, cache, ghosts, bounds>>

(* The log is full: the run stays, with a count and nothing to come. *)
ForkRefused ==
    /\ rq.pc = "append"
    /\ Fault("full")
    /\ rq' = IdleRq
    /\ hurtCount' = hurtCount \cup {rq.run}
    /\ UNCHANGED <<logVars, dbVars, fl, view, cache, outcome, hurtKeys, viewed, asked, opened>>

DeleteRun(r) ==
    /\ LiveRow(r)
    /\ deleted' = deleted \cup {r}
    /\ UNCHANGED <<logVars, row, points, histos, steps, keys, hcount, fl, rq, view,
                   cache, ghosts, bounds>>

-----------------------------------------------------------------------------
(* readerLoop, between two flushes. *)

ReadLine ==
    /\ fl.pc = "idle"
    /\ pos < Len(log)
    /\ pos' = pos + 1
    /\ batch' = batch \cup {pos + 1}
    /\ UNCHANGED <<log, saved, dbVars, fl, rq, view, cache, ghosts, bounds>>

(* Deliberate fault: the end of the file is saved instead of the position. *)
BugSaveEnd ==
    /\ "crash" \in Faults
    /\ fl.pc = "idle"
    /\ saved # Len(log)
    /\ saved' = Len(log)
    /\ UNCHANGED <<log, pos, batch, dbVars, fl, rq, view, cache, ghosts, bounds>>

(* Only a crash reads the saved position: without crashes it is left at 0. *)
SavePos ==
    /\ "crash" \in Faults
    /\ fl.pc = "idle"
    /\ saved # pos
    /\ saved' = pos
    /\ UNCHANGED <<log, pos, batch, dbVars, fl, rq, view, cache, ghosts, bounds>>

(* flush() does nothing while itemCount is 0. *)
StartFlush ==
    /\ fl.pc = "idle"
    /\ \E i \in batch : HasItem(i)
    /\ fl' = [IdleFl EXCEPT !.pc = "scalars", !.todo = Active(ScalarRuns)]
    /\ UNCHANGED <<logVars, dbVars, rq, view, cache, ghosts, bounds>>

-----------------------------------------------------------------------------
(* processScalars: a transaction of points and steps for each run, and then
   its keys. *)

AddScalars(r) ==
    points' = [points EXCEPT ![r] = [c \in Cells |-> InsertOrIgnore(@[c], ScalarLines(r, c))]]

StepsOf(r) == {log[i].step : i \in {j \in batch : log[j].run = r /\ log[j].scalars # {}}}
KeysOf(r)  == UNION {log[i].scalars : i \in {j \in batch : log[j].run = r}}

(* Deliberate fault: only keys of rows that were not there before. *)
BugKeysOfNewRows(r) ==
    /\ fl.pc = "scalars"
    /\ r \in fl.todo
    /\ AddScalars(r)
    /\ steps' = [steps EXCEPT ![r] = @ \cup StepsOf(r)]
    /\ fl' = [fl EXCEPT !.pc = "keys", !.todo = @ \ {r}, !.run = r,
                        !.keys = {c[2] : c \in {d \in Cells : points[r][d] # points'[r][d]}}]
    /\ UNCHANGED <<logVars, row, deleted, histos, keys, hcount, rq, view, cache, ghosts, bounds>>

FlushScalars(r) ==
    /\ fl.pc = "scalars"
    /\ r \in fl.todo
    /\ AddScalars(r)
    /\ steps' = [steps EXCEPT ![r] = @ \cup StepsOf(r)]
    /\ fl' = [fl EXCEPT !.pc = "keys", !.todo = @ \ {r}, !.run = r, !.keys = KeysOf(r)]
    /\ UNCHANGED <<logVars, row, deleted, histos, keys, hcount, rq, view, cache, ghosts, bounds>>

FlushScalarsFails(r) ==
    /\ fl.pc = "scalars"
    /\ r \in fl.todo
    /\ Fault("db")
    /\ fl' = [fl EXCEPT !.todo = @ \ {r}]
    /\ hurtKeys' = hurtKeys \cup Unlisted(r)
    /\ UNCHANGED <<logVars, dbVars, rq, view, cache, outcome, hurtCount, viewed, asked, opened>>

FlushKeys ==
    /\ fl.pc = "keys"
    /\ keys' = [keys EXCEPT ![fl.run] = @ \cup fl.keys]
    /\ fl' = [fl EXCEPT !.pc = "scalars", !.run = None, !.keys = {}]
    /\ UNCHANGED <<logVars, row, deleted, points, histos, steps, hcount, rq, view,
                   cache, ghosts, bounds>>

FlushKeysFails ==
    /\ fl.pc = "keys"
    /\ Fault("db")
    /\ hurtKeys' = hurtKeys \cup Unlisted(fl.run)
    /\ fl' = [fl EXCEPT !.pc = "scalars", !.run = None, !.keys = {}]
    /\ UNCHANGED <<logVars, dbVars, rq, view, cache, outcome, hurtCount, viewed, asked, opened>>

ScalarsDone ==
    /\ fl.pc = "scalars"
    /\ fl.todo = {}
    /\ fl' = [fl EXCEPT !.pc = "histograms", !.todo = Active(HistogramRuns)]
    /\ UNCHANGED <<logVars, dbVars, rq, view, cache, ghosts, bounds>>

-----------------------------------------------------------------------------
(* processHistograms: a transaction for each run. *)

FlushHistograms(r) ==
    /\ fl.pc = "histograms"
    /\ r \in fl.todo
    /\ histos' = [histos EXCEPT ![r] =
                     [c \in Cells |-> InsertOrIgnore(@[c], HistogramLines(r, c))]]
    /\ fl' = [fl EXCEPT !.todo = @ \ {r}]
    /\ UNCHANGED <<logVars, row, deleted, points, steps, keys, hcount, rq, view,
                   cache, ghosts, bounds>>

FlushHistogramsFails(r) ==
    /\ fl.pc = "histograms"
    /\ r \in fl.todo
    /\ Fault("db")
    /\ fl' = [fl EXCEPT !.todo = @ \ {r}]
    /\ UNCHANGED <<logVars, dbVars, rq, view, cache, ghosts, asked, opened>>

HistogramsDone ==
    /\ fl.pc = "histograms"
    /\ fl.todo = {}
    /\ fl' = [fl EXCEPT !.pc = "counters", !.todo = Active(CounterRuns)]
    /\ UNCHANGED <<logVars, dbVars, rq, view, cache, ghosts, bounds>>

-----------------------------------------------------------------------------
(* processCounters: a count and an update for each run. *)

CountSteps(r) ==
    /\ fl.pc = "counters"
    /\ r \in fl.todo
    /\ fl' = [fl EXCEPT !.pc = "setCount", !.todo = @ \ {r}, !.run = r,
                        !.n = Cardinality(steps[r])]
    /\ UNCHANGED <<logVars, dbVars, rq, view, cache, ghosts, bounds>>

(* Deliberate fault: the lines are added to the count, as their deltas say. *)
BugAddDeltas ==
    Cardinality({i \in batch : log[i].run = fl.run /\ ~IsFork(i)}) + hcount[fl.run]

(* The count is absolute: the deltas of the items are not used. *)
NewCount == fl.n

StoreCount(pc) ==
    /\ hcount' = [hcount EXCEPT ![fl.run] = NewCount]
    /\ hurtCount' = hurtCount \ {fl.run}
    /\ viewed' = viewed \ {fl.run}
    /\ fl' = [fl EXCEPT !.pc = pc, !.run = None, !.n = 0]
    /\ UNCHANGED <<row, deleted, points, histos, steps, keys, hurtKeys>>

SetCount ==
    /\ fl.pc = "setCount"
    /\ StoreCount("counters")
    /\ UNCHANGED <<logVars, rq, view, cache, outcome, bounds>>

SetCountFails ==
    /\ fl.pc = "setCount"
    /\ Fault("db")
    /\ hurtCount' = hurtCount \cup {fl.run}
    /\ fl' = [fl EXCEPT !.pc = "counters", !.run = None, !.n = 0]
    /\ UNCHANGED <<logVars, dbVars, rq, view, cache, outcome, hurtKeys, viewed, asked, opened>>

CountersDone ==
    /\ fl.pc = "counters"
    /\ fl.todo = {}
    /\ fl' = [fl EXCEPT !.pc = "forks", !.todo = ForkLines]
    /\ UNCHANGED <<logVars, dbVars, rq, view, cache, ghosts, bounds>>

-----------------------------------------------------------------------------
(* processForkOp, for the fork entries of the batch in their order.  The
   target is not looked at.  Nobody but the flusher adds points, so a chunk is
   read and inserted in one step. *)

ForkLine == Earliest(fl.todo)
Parent   == log[ForkLine].parent

(* COALESCE(MAX(step), -1) of the parent's run_steps. *)
Reaches(r, s) == \E t \in steps[r] : s <= t

(* Deliberate fault: the step of the fork itself is left out. *)
BugBelowStep(store) == {c \in Cells : c[1] < log[ForkLine].step /\ store[Parent][c] # 0}

Inheritable(store) == {c \in Cells : c[1] <= log[ForkLine].step /\ store[Parent][c] # 0}

NextFork == [IdleFl EXCEPT !.pc = "forks", !.todo = fl.todo \ {ForkLine}]

ForkCheck ==
    /\ fl.pc = "forks"
    /\ fl.todo # {}
    /\ Reaches(Parent, log[ForkLine].step)
    /\ fl' = [fl EXCEPT !.pc = "copyScalars", !.run = log[ForkLine].run,
                        !.left = Inheritable(points)]
    /\ UNCHANGED <<logVars, dbVars, rq, view, cache, ghosts, bounds>>

(* The count announced by ForkRun stays. *)
ForkInvalid ==
    /\ fl.pc = "forks"
    /\ fl.todo # {}
    /\ ~Reaches(Parent, log[ForkLine].step)
    /\ row' = [row EXCEPT ![log[ForkLine].run] = "failed"]
    /\ outcome' = [outcome EXCEPT ![ForkLine] = "refused"]
    /\ hurtCount' = hurtCount \cup {log[ForkLine].run}
    /\ hurtKeys' = hurtKeys \cup Unlisted(log[ForkLine].run)
    /\ fl' = NextFork
    /\ UNCHANGED <<logVars, deleted, points, histos, steps, keys, hcount, rq, view,
                   cache, viewed, bounds>>

(* LIMIT txChunkSize, ordered by step (and by key, which is any order here). *)
Chunks(S) ==
    {C \in SUBSET S : /\ C # {}
                      /\ Cardinality(C) <= TxChunk
                      /\ C # S => Cardinality(C) = TxChunk
                      /\ \A c \in C, d \in S \ C : c[1] <= d[1]}

CopyScalars(C) ==
    /\ fl.pc = "copyScalars"
    /\ points' = [points EXCEPT ![fl.run] =
                     [c \in Cells |-> IF @[c] = 0 /\ c \in C THEN points[Parent][c] ELSE @[c]]]
    /\ steps' = [steps EXCEPT ![fl.run] = @ \cup {c[1] : c \in C}]
    /\ fl' = [fl EXCEPT !.pc = "copyKeys", !.keys = {c[2] : c \in C}, !.left = @ \ C]
    /\ UNCHANGED <<logVars, row, deleted, histos, keys, hcount, rq, view, cache, ghosts, bounds>>

CopyKeys ==
    /\ fl.pc = "copyKeys"
    /\ keys' = [keys EXCEPT ![fl.run] = @ \cup fl.keys]
    /\ fl' = [fl EXCEPT !.pc = "copyScalars", !.keys = {}]
    /\ UNCHANGED <<logVars, row, deleted, points, histos, steps, hcount, rq, view,
                   cache, ghosts, bounds>>

(* Deliberate fault: histograms of all steps are copied. *)
BugAllHistograms ==
    /\ fl.pc = "copyScalars"
    /\ fl.left = {}
    /\ histos' = [histos EXCEPT ![fl.run] =
                     [c \in Cells |-> IF @[c] = 0 THEN histos[Parent][c] ELSE @[c]]]
    /\ fl' = [fl EXCEPT !.pc = "copyRest"]
    /\ UNCHANGED <<logVars, row, deleted, points, steps, keys, hcount, rq, view,
                   cache, ghosts, bounds>>

(* No point is left; then the histograms, which nothing tells apart in
   chunks. *)
CopyHistograms ==
    /\ fl.pc = "copyScalars"
    /\ fl.left = {}
    /\ histos' = [histos EXCEPT ![fl.run] =
                     [c \in Cells |-> IF @[c] = 0 /\ c \in Inheritable(histos)
                                      THEN histos[Parent][c] ELSE @[c]]]
    /\ fl' = [fl EXCEPT !.pc = "copyRest"]
    /\ UNCHANGED <<logVars, row, deleted, points, steps, keys, hcount, rq, view,
                   cache, ghosts, bounds>>

(* All the parent's keys, those it got after the fork step too. *)
CopyRunKeys ==
    /\ fl.pc = "copyRest"
    /\ keys' = [keys EXCEPT ![fl.run] = @ \cup keys[Parent]]
    /\ fl' = [fl EXCEPT !.pc = "forkCount"]
    /\ UNCHANGED <<logVars, row, deleted, points, histos, steps, hcount, rq, view,
                   cache, ghosts, bounds>>

ForkCount ==
    /\ fl.pc = "forkCount"
    /\ fl' = [fl EXCEPT !.pc = "setForkCount", !.n = Cardinality(steps[fl.run])]
    /\ UNCHANGED <<logVars, dbVars, rq, view, cache, ghosts, bounds>>

SetForkCount ==
    /\ fl.pc = "setForkCount"
    /\ hcount' = [hcount EXCEPT ![fl.run] = fl.n]
    /\ hurtCount' = hurtCount \ {fl.run}
    /\ viewed' = viewed \ {fl.run}
    /\ outcome' = [outcome EXCEPT ![ForkLine] = "copied"]
    /\ fl' = NextFork
    /\ UNCHANGED <<logVars, row, deleted, points, histos, steps, keys, rq, view, cache,
                   hurtKeys, bounds>>

(* The error is logged, and the fork entry forgotten. *)
ForkFails ==
    /\ fl.pc \in {"forks", "copyScalars", "copyKeys", "copyRest", "forkCount", "setForkCount"}
    /\ fl.todo # {}
    /\ Fault("db")
    /\ outcome' = [outcome EXCEPT ![ForkLine] = "dropped"]
    /\ hurtCount' = hurtCount \cup {log[ForkLine].run}
    /\ hurtKeys' = hurtKeys \cup Unlisted(log[ForkLine].run)
    /\ fl' = NextFork
    /\ UNCHANGED <<logVars, dbVars, rq, view, cache, viewed, asked, opened>>

ForksDone ==
    /\ fl.pc = "forks"
    /\ fl.todo = {}
    /\ fl' = IdleFl
    /\ batch' = {}
    /\ UNCHANGED <<log, saved, pos, dbVars, rq, view, cache, ghosts, bounds>>

-----------------------------------------------------------------------------
(* A browser loads a run: the page with its count, the keys (allKeyNames), the
   points of each key within the range of the page.  With the points come
   ensureRunSteps and its repair.  In view, names are the keys of the page and
   keys those still to load; broken says that an answer ended early. *)

CacheHit(r) == cache[r] # None /\ cache[r].count = hcount[r]

(* A page is left when it is loaded. *)
NoPage == view.pc \in {"idle", "shown"}

OpenPage(r) ==
    /\ NoPage
    /\ opened < MaxViews
    /\ LiveRow(r)
    /\ ~CacheHit(r)
    /\ view' = [IdleView EXCEPT !.pc = "keys", !.run = r, !.count = hcount[r]]
    /\ opened' = opened + 1
    /\ UNCHANGED <<logVars, dbVars, fl, rq, cache, ghosts, asked, faults>>

(* project.html: the points of each run for the keys of all of them; none are
   kept. *)
OpenProject(r) ==
    /\ NoPage
    /\ opened < MaxViews
    /\ LiveRow(r)
    /\ view' = [IdleView EXCEPT !.pc = "claim", !.run = r, !.count = None,
                               !.keys = UNION {keys[q] : q \in Runs \ deleted}]
    /\ view'.keys # {}
    /\ opened' = opened + 1
    /\ UNCHANGED <<logVars, dbVars, fl, rq, cache, ghosts, asked, faults>>

(* A run without keys is shown empty, and not cached. *)
GetHistoryKeys ==
    /\ view.pc = "keys"
    /\ view' = IF keys[view.run] = {} THEN IdleView
               ELSE [view EXCEPT !.pc = "claim", !.names = keys[view.run],
                                 !.keys = keys[view.run]]
    /\ UNCHANGED <<logVars, dbVars, fl, rq, cache, ghosts, bounds>>

(* Deliberate fault: keys loaded for another range still count as loaded. *)
BugKeepLoaded(R) == [view EXCEPT !.pc = "claim", !.n = 0, !.cells = {}, !.range = R,
                                 !.broken = FALSE]

(* The page asks for its keys as for the first time. *)
AskAgain(R) == [view EXCEPT !.pc = "claim", !.n = 0, !.keys = view.names, !.cells = {},
                            !.range = R, !.broken = FALSE]

(* A zoom, or a new xMin or xMax: what has been loaded is dropped.  The count of
   the page stays. *)
Zoom(R) ==
    /\ view.pc \in {"data", "shown"}
    /\ view.count # None
    /\ view' = AskAgain(R)
    /\ UNCHANGED <<logVars, dbVars, fl, rq, cache, ghosts, bounds>>

ReadClaim ==
    /\ view.pc = "claim"
    /\ view' = [view EXCEPT !.pc = "steps", !.n = hcount[view.run]]
    /\ UNCHANGED <<logVars, dbVars, fl, rq, cache, ghosts, bounds>>

ReadSteps ==
    /\ view.pc = "steps"
    /\ view' = [view EXCEPT !.n = 0,
                            !.pc = IF steps[view.run] # {} \/ view.n = 0 THEN "data" ELSE "backfill"]
    /\ UNCHANGED <<logVars, dbVars, fl, rq, cache, ghosts, bounds>>

Backfill ==
    /\ view.pc = "backfill"
    /\ steps' = [steps EXCEPT ![view.run] = @ \cup ScalarSteps(view.run)]
    /\ view' = [view EXCEPT !.pc = "recount"]
    /\ UNCHANGED <<logVars, row, deleted, points, histos, keys, hcount, fl, rq, cache,
                   ghosts, bounds>>

(* SQLITE_BUSY: the points are read all the same. *)
BackfillBusy ==
    /\ view.pc = "backfill"
    /\ view' = [view EXCEPT !.pc = "data"]
    /\ UNCHANGED <<logVars, dbVars, fl, rq, cache, ghosts, bounds>>

Recount ==
    /\ view.pc = "recount"
    /\ view' = [view EXCEPT !.pc = "store", !.n = Cardinality(steps[view.run])]
    /\ UNCHANGED <<logVars, dbVars, fl, rq, cache, ghosts, bounds>>

StoreRecount ==
    /\ view.pc = "store"
    /\ hcount' = [hcount EXCEPT ![view.run] = view.n]
    /\ viewed' = viewed \cup {view.run}
    /\ view' = [view EXCEPT !.pc = "data", !.n = 0]
    /\ UNCHANGED <<logVars, row, deleted, points, histos, steps, keys, fl, rq, cache,
                   outcome, hurtKeys, hurtCount, bounds>>

(* What a query for key k returns. *)
Selected(k) == {c \in Stored(view.run) : c[2] = k /\ c[1] \in view.range}

(* streamKeyScalars, a query for each key. *)
StreamKey(k) ==
    /\ view.pc = "data"
    /\ k \in view.keys
    /\ view' = [view EXCEPT !.keys = @ \ {k}, !.cells = @ \cup Selected(k)]
    /\ UNCHANGED <<logVars, dbVars, fl, rq, cache, ghosts, bounds>>

(* setCachedHistory: under the count of the page, whatever its range. *)
Keep(cells, within) ==
    cache' = [cache EXCEPT ![view.run] =
                 [count |-> view.count, cells |-> cells, within |-> within]]

(* buildAndCacheFullData; the page stays open. *)
KeepHistory ==
    /\ view.pc = "data"
    /\ view.keys = {}
    /\ view.count # None
    /\ Keep(view.cells, IF view.broken THEN {} ELSE view.range)
    /\ view' = [view EXCEPT !.pc = "shown", !.cells = {}, !.range = Steps, !.broken = FALSE]
    /\ UNCHANGED <<logVars, dbVars, fl, rq, ghosts, bounds>>

ShowHistory ==
    /\ view.pc = "data"
    /\ view.keys = {}
    /\ view.count = None
    /\ view' = IdleView
    /\ UNCHANGED <<logVars, dbVars, fl, rq, cache, ghosts, bounds>>

(* The keys cannot be read.  The page asks for a history without naming keys,
   which has no points (history.go:394), and keeps that. *)
KeysFail ==
    /\ view.pc = "keys"
    /\ view.count # None
    /\ Fault("read")
    /\ Keep({}, {})
    /\ view' = IdleView
    /\ UNCHANGED <<logVars, dbVars, fl, rq, ghosts, asked, opened>>

(* A query fails before any point is sent: the answer is an error, and the keys
   are asked for again. *)
RequestFails ==
    /\ view.pc \in {"steps", "backfill", "recount", "store", "data"}
    /\ view.count # None
    /\ view.cells = {}
    /\ Fault("read")
    /\ view' = AskAgain(view.range)
    /\ UNCHANGED <<logVars, dbVars, fl, rq, cache, ghosts, asked, opened>>

(* A query fails after some points D of its key: the answer just ends, and all
   the keys count as loaded. *)
AnswerBreaks(k, D) ==
    /\ view.pc = "data"
    /\ k \in view.keys
    /\ view.count # None
    /\ D \subseteq Selected(k)
    /\ view.cells \cup D # {}
    /\ Fault("read")
    /\ view' = [view EXCEPT !.keys = {}, !.cells = @ \cup D, !.broken = TRUE]
    /\ UNCHANGED <<logVars, dbVars, fl, rq, cache, ghosts, asked, opened>>

-----------------------------------------------------------------------------
(* The process ends and is started again: the lines after the position found on
   disk are read once more, those before it are not, whatever became of them.
   savePos truncates wal.pos before it writes it (wal.go:381-396), between two
   flushes: with an empty file the reader begins at the first line that
   compaction has left. *)

(* Line i, processed once more, lists key k of its run. *)
Lists(i, k) == \/ k \in log[i].scalars
               \/ /\ IsFork(i)
                  /\ \E c \in Stored(log[i].parent) : c[1] <= log[i].step /\ c[2] = k

Replayed(s, r, k) == \E i \in s + 1 .. Len(log) : log[i].run = r /\ Lists(i, k)

CrashAt(s) ==
    /\ Fault("crash")
    /\ saved' = s
    /\ pos' = s
    /\ batch' = {}
    /\ fl' = IdleFl
    /\ rq' = IdleRq
    /\ view' = IdleView
    /\ outcome' = [i \in 1..MaxLines |-> IF i > s THEN "none"
                                         ELSE IF i \in batch /\ outcome[i] = "none" THEN "dropped"
                                         ELSE outcome[i]]
    /\ hurtKeys' = hurtKeys \cup {p \in UNION {Unlisted(r) : r \in Runs} :
                                    ~Replayed(s, p[1], p[2])}
    /\ hurtCount' = hurtCount \cup {log[i].run : i \in {j \in batch : j <= s}}
                              \cup IF rq.pc = "append" THEN {rq.run} ELSE {}
    /\ UNCHANGED <<log, dbVars, cache, viewed, asked, opened>>

Crash == \E s \in 0..saved : (s = saved \/ fl.pc = "idle") /\ CrashAt(s)

-----------------------------------------------------------------------------
(* The next-state relation. *)

Client == \/ \E l \in Payloads : LogLine(l)
          \/ \E r, parent \in Runs, s \in Steps : BeginFork(r, parent, s)
          \/ ForkRow \/ ForkClaim \/ ForkAppend \/ ForkRefused
          \/ \E r \in Deletable : DeleteRun(r)

Batch == ReadLine \/ StartFlush

Groups == \/ \E r \in Runs : FlushScalars(r) \/ FlushHistograms(r) \/ CountSteps(r)
          \/ FlushKeys \/ ScalarsDone \/ HistogramsDone \/ SetCount \/ CountersDone

Copy == \/ ForkCheck \/ ForkInvalid
        \/ \E C \in Chunks(fl.left) : CopyScalars(C)
        \/ CopyKeys \/ CopyHistograms \/ CopyRunKeys \/ ForkCount \/ SetForkCount
        \/ ForksDone

Errors == \/ \E r \in Runs : FlushScalarsFails(r) \/ FlushHistogramsFails(r)
          \/ FlushKeysFails \/ SetCountFails \/ ForkFails

Browser == \/ \E r \in Viewed : OpenPage(r)
           \/ \E r \in Compared : OpenProject(r)
           \/ GetHistoryKeys \/ ReadClaim \/ ReadSteps
           \/ Backfill \/ BackfillBusy \/ Recount \/ StoreRecount
           \/ \E k \in Keys : StreamKey(k)
           \/ KeepHistory \/ ShowHistory
           \/ \E R \in Ranges : Zoom(R)
           \/ KeysFail \/ RequestFails
           \/ \E k \in Keys, D \in SUBSET Cells : AnswerBreaks(k, D)

Flusher == Batch \/ Groups \/ Copy \/ Errors

Next == Client \/ Flusher \/ SavePos \/ Browser \/ Crash

Spec == Init /\ [][Next]_vars

(* readerLoop never waits for anybody. *)
FairSpec == Spec /\ WF_vars(Flusher)

-----------------------------------------------------------------------------
(* Correctness. *)

Positions == 0..MaxLines

(* The variables have their types. *)
TypeOK ==
    /\ log \in Seq(Rows \cup Forks) /\ Len(log) <= MaxLines
    /\ saved \in 0..Len(log)
    /\ pos \in 0..Len(log)
    /\ batch \subseteq 1..pos
    /\ row \in [Runs -> {"none", "running", "failed"}]
    /\ deleted \subseteq Runs
    /\ points \in [Runs -> [Cells -> Positions]]
    /\ histos \in [Runs -> [Cells -> Positions]]
    /\ steps \in [Runs -> SUBSET Steps]
    /\ keys \in [Runs -> SUBSET Keys]
    /\ hcount \in [Runs -> 0..MaxStep + 1]
    /\ fl \in [pc : FlPCs, todo : SUBSET (Runs \cup 1..MaxLines), run : Runs \cup {None},
               keys : SUBSET Keys, left : SUBSET Cells, n : 0..MaxStep + 1]
    /\ rq \in [pc : RqPCs, run : Runs \cup {None}, parent : Runs \cup {None}, upto : Steps]
    /\ view \in [pc : ViewPCs, run : Runs \cup {None}, count : 0..MaxStep + 1 \cup {None},
                 names : SUBSET Keys, keys : SUBSET Keys, n : 0..MaxStep + 1,
                 cells : SUBSET Cells, range : SUBSET Steps, broken : BOOLEAN]
    /\ cache \in [Runs -> {None} \cup [count : 0..MaxStep + 1, cells : SUBSET Cells,
                                       within : SUBSET Steps]]
    /\ outcome \in [1..MaxLines -> Outcomes]
    /\ hurtKeys \subseteq Runs \X Keys
    /\ hurtCount \subseteq Runs
    /\ viewed \subseteq Runs
    /\ asked \in 0..MaxForks
    /\ opened \in 0..MaxViews
    /\ faults \in 0..MaxFaults

(* Every line of r is behind the flusher, and no request is announcing a fork. *)
Settled(r) ==
    /\ \A i \in batch \cup Unread : log[i].run # r
    /\ rq.run # r

InFlight(r, k) ==
    \/ fl.pc \in {"keys", "copyKeys"} /\ fl.run = r /\ k \in fl.keys
    \/ \E i \in batch \cup Unread : log[i].run = r /\ Lists(i, k)

(* history.go:158 writes the keys after the points.  A key with points is
   listed (GetHistoryKeys), or the flusher is about to list it, or it is going
   to read a line with it again; only a failed statement, or a crash with the
   position already past the line, hides it. *)
KeysListed ==
    \A r \in Runs \ deleted, c \in Cells :
        points[r][c] # 0 => \/ c[2] \in keys[r]
                            \/ InFlight(r, c[2])
                            \/ <<r, c[2]>> \in hurtKeys

(* buffer.go:127: counts are absolute.  Once the lines of a run are processed
   its count is the number of its steps, lines replayed after a crash, several
   lines of one step and forks over existing data notwithstanding; unless the
   statement that stores it failed, a fork was refused, or a reader's repair
   came last. *)
CountersSettle ==
    \A r \in Runs \ deleted :
        Settled(r) /\ r \notin hurtCount \cup viewed => hcount[r] = Cardinality(steps[r])

(* The same, with a browser that opens the run in time. *)
CountersSettleUnderReads ==
    \A r \in Runs \ deleted :
        Settled(r) /\ r \notin hurtCount => hcount[r] = Cardinality(steps[r])

NotForkedAfter(i, r) == \A j \in i + 1 .. Len(log) : ~(IsFork(j) /\ log[j].run = r)

(* A fork that was copied has everything its parent had below the fork step in
   lines before the fork; a fork that was refused has a parent that did not
   reach its step (buffer.go:174).  Batches, chunks, replays and failures may
   come as they like. *)
ForkFaithful ==
    \A i \in 1..Len(log) :
        LET parent == log[i].parent IN
        /\ outcome[i] = "copied" /\ NotForkedAfter(i, parent) =>
              \A c \in Cells : c[1] <= log[i].step =>
                  /\ points[parent][c] \in 1..i-1 => points[log[i].run][c] # 0
                  /\ histos[parent][c] \in 1..i-1 => histos[log[i].run][c] # 0
        /\ outcome[i] = "refused" /\ NotForkedAfter(i, parent) =>
              \A c \in Cells : points[parent][c] \in 1..i-1 => c[1] < log[i].step

Forked(r) == \/ rq.run = r
             \/ \E i \in 1..Len(log) : IsFork(i) /\ log[i].run = r

(* run.html:1245 "cache hit, skipping fetch": what a browser keeps of a run that
   is not a fork, whenever the counts agree, has every step of the range it was
   loaded for, and none that the run does not have, however the three requests
   of a page fell between the statements of the flusher.  The count says nothing
   of the range: a page that was zoomed, or whose keys or answer failed, is kept
   under the count of the whole history. *)
CacheHoldsItsRange ==
    \A r \in Runs \ deleted :
        LET held == {c[1] : c \in cache[r].cells} IN
        /\ Settled(r) /\ ~Forked(r)
        /\ r \notin hurtCount /\ \A k \in Keys : <<r, k>> \notin hurtKeys
        /\ CacheHit(r)
        => steps[r] \cap cache[r].within \subseteq held /\ held \subseteq steps[r]

LinesWith(kind) == [i \in 1..Len(log) |-> [run |-> log[i].run, step |-> log[i].step,
                                          keys |-> log[i][kind], parent |-> log[i].parent]]

Scalars    == INSTANCE PointStore WITH lines <- LinesWith("scalars"), point <- points
Histograms == INSTANCE PointStore WITH lines <- LinesWith("histograms"), point <- histos

(* Flusher, replays and copies together: a point is written once, and is from
   a line of its run or from a parent, below the fork step. *)
ScalarsAreKept == Scalars!Spec

(* The same for histograms. *)
HistogramsAreKept == Histograms!Spec

Reading == INSTANCE LineReader WITH
              Lines  <- Payloads \cup Forks,
              Counts <- HoldsItems,
              batch  <- {i \in batch : HasItem(i)},
              torn   <- FALSE

(* The lines are read as module Wal says that lines are read (wal.go:263-300):
   what is assumed of the log here is what the log gives, as long as no
   compaction is torn. *)
ImplementsLineReader == Reading!Spec

(* Every accepted fork is copied, refused or dropped with an error: it does not
   wait for ever behind the lines of others. *)
ForksSettle ==
    \A i \in 1..MaxLines :
        (i <= Len(log) /\ IsFork(i)) ~> outcome[i] # "none"

=============================================================================
