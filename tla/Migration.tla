----------------------------- MODULE Migration -----------------------------
(***************************************************************************)
(* The migration service: a worker thread that copies projects from        *)
(* Weights & Biases to worb, and the requests that steer it                *)
(* (migration/migration_server.py), with its progress in a SQLite database *)
(* (migration/state_db.py) that survives crashes and restarts.             *)
(*                                                                         *)
(* A run is copied part by part, a part request by request ("piece").  The *)
(* worker goes by the row it read when it picked the run, while requests   *)
(* and its own updates change the row.  A statement on the database, a     *)
(* request to worb, and a look at the flags of the worker are one step     *)
(* each.  Which of several rows ORDER BY id puts first is left open.       *)
(***************************************************************************)
EXTENDS Integers, Sequences, FiniteSets

CONSTANTS
    Projects,     \* projects of the source
    Runs,         \* runs of the source
    ProjectOf,    \* ProjectOf[r]: the project of run r
    Pieces,       \* Pieces[r][p]: the requests part p of run r takes
    None,         \* no project, no run
    MaxErrors,    \* max_errors of the settings
    Faults,       \* what may go wrong: a subset of FaultKinds
    MaxFaults,    \* model bound: faults
    MaxRequests   \* model bound: resets, pauses and shutdowns

(* The parts of a run in the order of _migrate_run; each has a column that
   says it is done. *)
PartSeq == <<"upserted", "history", "summary", "logs", "events", "files", "completed">>
Parts   == {PartSeq[k] : k \in 1..Len(PartSeq)}

(* Parts with a look at the worker's flags before each piece, and after. *)
Interruptible == {"history", "files"}
GatedAfter    == {"upserted", "history"}

(* Parts for which nothing is sent when the source fails. *)
Forgiving == {"summary", "logs", "files"}

FaultKinds == {"source", "worb", "crash"}

ASSUME SourceAssumption == /\ ProjectOf \in [Runs -> Projects]
                           /\ Pieces \in [Runs -> [Parts -> Nat]]
                           /\ None \notin Projects \cup Runs
ASSUME BoundsAssumption == /\ MaxErrors \in Nat
                           /\ Faults \subseteq FaultKinds
                           /\ MaxFaults \in Nat
                           /\ MaxRequests \in Nat

VARIABLES
    \* the state database
    pstatus,    \* migration_projects.status
    rstatus,    \* migration_runs.status
    flags,      \* flags[r]: the parts whose column is set
    sent,       \* migration_runs.history_lines_sent, in pieces
    errors,     \* migration_runs.error_count
    \* the process
    up,         \* it runs
    stopped,    \* Worker._stopped
    paused,     \* Worker._paused
    w,          \* the worker: its place, the run and the row it read, or the project
    api,        \* the handler of a request to reset a project
    \* worb
    got,        \* got[r]: the pieces that reached worb since run r was last reset
    \* of the model, since the last reset
    missed,     \* missed[r]: pieces the source did not give
    cut,        \* cut[r]: parts that a shutdown interrupted
    overtaken,  \* runs reset under the worker's hands
    reopened,   \* projects with a run that was reset behind their status
    stranded,   \* projects whose discovery a crash or a shutdown ended
    faults,     \* faults so far
    requests    \* requests so far

rowVars  == <<flags, sent, errors>>
dbVars   == <<pstatus, rstatus, rowVars>>
procVars == <<up, stopped, paused>>
lossVars == <<missed, cut, overtaken>>
bounds   == <<faults, requests>>
vars     == <<dbVars, procVars, w, api, got, lossVars, reopened, stranded, bounds>>

ProjectStatus == {"none", "pending", "discovering", "ready", "done", "error"}
RunStatus     == {"none", "pending", "in_progress", "done", "error"}

Discovering == {"list", "upsert"}
OnPart      == {"gate", "send", "count", "mark"}
Busy        == {"begin", "fetch", "part", "after", "finish"} \cup OnPart
Closing     == {"check", "close"}
WorkerPCs   == {"idle", "pick", "pickRun", "error"} \cup Discovering \cup Busy \cup Closing

Workers  == [pc : WorkerPCs, project : Projects \cup {None}, todo : SUBSET Runs,
             run : Runs \cup {None}, flags : SUBSET Parts, sent : Nat,
             part : 1..Len(PartSeq), at : Nat]
Handlers == [pc : {"idle", "runs", "project"}, project : Projects \cup {None},
             seen : ProjectStatus, force : BOOLEAN]

IdleWorker == [pc |-> "idle", project |-> None, todo |-> {}, run |-> None,
               flags |-> {}, sent |-> 0, part |-> 1, at |-> 1]
IdleApi    == [pc |-> "idle", project |-> None, seen |-> "none", force |-> FALSE]

-----------------------------------------------------------------------------
RunsOf(p) == {r \in Runs : ProjectOf[r] = p}
Rows(p)   == {r \in RunsOf(p) : rstatus[r] # "none"}

(* The part the worker is at, and its pieces. *)
Part     == PartSeq[w.part]
PieceSet(r, p) == {<<p, i>> : i \in 1..Pieces[r][p]}

(* Worker w has run r's row in its hands. *)
At(r) == w.run = r /\ w.pc \in Busy

(* Where a worker goes that is about to send piece i of the part. *)
PieceOrMark(r, p, i) ==
    IF i > Pieces[r][p] THEN "mark" ELSE IF p \in Interruptible THEN "gate" ELSE "send"

Init ==
    /\ pstatus = [p \in Projects |-> "none"]
    /\ rstatus = [r \in Runs |-> "none"]
    /\ flags = [r \in Runs |-> {}]
    /\ sent = [r \in Runs |-> 0]
    /\ errors = [r \in Runs |-> 0]
    /\ up = TRUE
    /\ stopped = FALSE
    /\ paused = FALSE
    /\ w = IdleWorker
    /\ api = IdleApi
    /\ got = [r \in Runs |-> {}]
    /\ missed = [r \in Runs |-> {}]
    /\ cut = [r \in Runs |-> {}]
    /\ overtaken = {}
    /\ reopened = {}
    /\ stranded = {}
    /\ faults = 0
    /\ requests = 0

Fault(kind) == kind \in Faults /\ faults < MaxFaults /\ faults' = faults + 1
Request     == requests < MaxRequests /\ requests' = requests + 1

Serving == up /\ ~stopped         \* requests are answered

-----------------------------------------------------------------------------
(* Worker._run and _tick. *)

(* The worker waits while it is paused; once stopped it leaves its loop. *)
Tick ==
    /\ w.pc = "idle"
    /\ Serving /\ ~paused
    /\ w' = [w EXCEPT !.pc = "pick"]
    /\ UNCHANGED <<dbVars, procVars, api, got, lossVars, reopened, stranded, bounds>>

PickProject(p) ==
    /\ w.pc = "pick"
    /\ pstatus[p] = "pending"
    /\ pstatus' = [pstatus EXCEPT ![p] = "discovering"]
    /\ w' = [w EXCEPT !.pc = "list", !.project = p]
    /\ UNCHANGED <<rstatus, rowVars, procVars, api, got, lossVars, reopened, stranded, bounds>>

NoProject ==
    /\ w.pc = "pick"
    /\ \A p \in Projects : pstatus[p] # "pending"
    /\ w' = [w EXCEPT !.pc = "pickRun"]
    /\ UNCHANGED <<dbVars, procVars, api, got, lossVars, reopened, stranded, bounds>>

Eligible(status) ==
    {r \in Runs : rstatus[r] = status /\ errors[r] < MaxErrors /\ pstatus[ProjectOf[r]] = "ready"}

(* Deliberate fault: what was interrupted is not looked for. *)
BugPendingOnly == Eligible("pending")

(* get_next_run: what was interrupted goes first. *)
NextRuns == IF Eligible("in_progress") # {} THEN Eligible("in_progress") ELSE Eligible("pending")

PickRun(r) ==
    /\ w.pc = "pickRun"
    /\ r \in NextRuns
    /\ w' = [IdleWorker EXCEPT !.pc = "begin", !.run = r, !.flags = flags[r], !.sent = sent[r]]
    /\ UNCHANGED <<dbVars, procVars, api, got, lossVars, reopened, stranded, bounds>>

NoRun ==
    /\ w.pc = "pickRun"
    /\ NextRuns = {}
    /\ w' = IdleWorker
    /\ UNCHANGED <<dbVars, procVars, api, got, lossVars, reopened, stranded, bounds>>

-----------------------------------------------------------------------------
(* Worker._discover_project. *)

SetProject(status) == pstatus' = [pstatus EXCEPT ![w.project] = status]

ListRuns ==
    /\ w.pc = "list"
    /\ w' = [w EXCEPT !.pc = "upsert", !.todo = RunsOf(w.project)]
    /\ UNCHANGED <<dbVars, procVars, api, got, lossVars, reopened, stranded, bounds>>

(* Deliberate fault: the error is logged, the status stays. *)
BugOnlyLogs ==
    /\ w.pc = "list"
    /\ Fault("source")
    /\ w' = IdleWorker
    /\ UNCHANGED <<dbVars, procVars, api, got, lossVars, reopened, stranded, requests>>

ListFails ==
    /\ w.pc = "list"
    /\ Fault("source")
    /\ SetProject("error")
    /\ w' = IdleWorker
    /\ UNCHANGED <<rstatus, rowVars, procVars, api, got, lossVars, reopened, stranded, requests>>

(* upsert_migration_run: a row that is there keeps its progress. *)
UpsertRow(r) ==
    /\ w.pc = "upsert"
    /\ r \in w.todo
    /\ rstatus' = [rstatus EXCEPT ![r] = IF @ = "none" THEN "pending" ELSE @]
    /\ w' = [w EXCEPT !.todo = @ \ {r}]
    /\ UNCHANGED <<pstatus, rowVars, procVars, api, got, lossVars, reopened, stranded, bounds>>

Discovered ==
    /\ w.pc = "upsert"
    /\ w.todo = {}
    /\ SetProject("ready")
    /\ w' = IdleWorker
    /\ UNCHANGED <<rstatus, rowVars, procVars, api, got, lossVars, reopened, stranded, bounds>>

-----------------------------------------------------------------------------
(* Worker._migrate_run. *)

SetRun(status) == rstatus' = [rstatus EXCEPT ![w.run] = status]

BeginRun ==
    /\ w.pc = "begin"
    /\ SetRun("in_progress")
    /\ w' = [w EXCEPT !.pc = "fetch"]
    /\ UNCHANGED <<pstatus, rowVars, procVars, api, got, lossVars, reopened, stranded, bounds>>

FetchRun ==
    /\ w.pc = "fetch"
    /\ w' = [w EXCEPT !.pc = "part"]
    /\ UNCHANGED <<dbVars, procVars, api, got, lossVars, reopened, stranded, bounds>>

(* The source fails where the worker needs it, for the run, its history and
   its events, or worb does when it is asked where to put the files. *)
StartFails ==
    /\ \/ w.pc = "fetch" /\ Fault("source")
       \/ w.pc = "part" /\ Part \in {"history", "events"} \ w.flags /\ Fault("source")
       \/ w.pc = "part" /\ Part \in {"files"} \ w.flags /\ Fault("worb")
    /\ w' = [w EXCEPT !.pc = "error"]
    /\ UNCHANGED <<dbVars, procVars, api, got, lossVars, reopened, stranded, requests>>

Advance(pc) == [w EXCEPT !.pc = pc, !.part = @ + 1, !.at = 1]

(* Deliberate fault: one part past the last. *)
BugOnePartMore ==
    w' = IF w.part > Len(PartSeq) THEN [w EXCEPT !.pc = "finish"] ELSE Advance("part")

(* On to the next part, past a gate or not, or to the end. *)
NextPart ==
    w' = IF w.part = Len(PartSeq) THEN [w EXCEPT !.pc = "finish"]
         ELSE IF Part \in GatedAfter THEN Advance("after") ELSE Advance("part")

SkipPart ==
    /\ w.pc = "part"
    /\ Part \in w.flags
    /\ NextPart
    /\ UNCHANGED <<dbVars, procVars, api, got, lossVars, reopened, stranded, bounds>>

(* Deliberate fault: history starts over. *)
BugStartOver == 1

(* History goes on where the row says it was. *)
FirstPiece == IF Part = "history" THEN w.sent + 1 ELSE 1

StartPart ==
    /\ w.pc = "part"
    /\ Part \notin w.flags
    /\ w' = [w EXCEPT !.pc = PieceOrMark(w.run, Part, FirstPiece), !.at = FirstPiece]
    /\ UNCHANGED <<dbVars, procVars, api, got, lossVars, reopened, stranded, bounds>>

(* get_run_summary, fetch_console_logs and fetch_run_files return nothing when
   they fail. *)
SourceHasNothing ==
    /\ w.pc = "part"
    /\ Part \in Forgiving \ w.flags
    /\ Fault("source")
    /\ missed' = [missed EXCEPT ![w.run] = @ \cup PieceSet(w.run, Part)]
    /\ w' = [w EXCEPT !.pc = "mark"]
    /\ UNCHANGED <<dbVars, procVars, api, got, cut, overtaken, reopened, stranded, requests>>

(* The gates: _wait_if_paused, and the early return once stopped. *)
PassGate ==
    /\ w.pc \in {"gate", "after"}
    /\ ~paused /\ ~stopped
    /\ w' = [w EXCEPT !.pc = IF @ = "gate" THEN "send" ELSE "part"]
    /\ UNCHANGED <<dbVars, procVars, api, got, lossVars, reopened, stranded, bounds>>

(* _migrate_history and _migrate_files return as if all had been sent. *)
CutShort ==
    /\ w.pc = "gate"
    /\ stopped
    /\ cut' = [cut EXCEPT ![w.run] = @ \cup {Part}]
    /\ w' = [w EXCEPT !.pc = "mark"]
    /\ UNCHANGED <<dbVars, procVars, api, got, missed, overtaken, reopened, stranded, bounds>>

(* Deliberate fault: the loop is left for what comes after it. *)
BugBreaks ==
    /\ w.pc = "after"
    /\ stopped
    /\ w' = [w EXCEPT !.pc = "finish"]
    /\ UNCHANGED <<dbVars, procVars, api, got, lossVars, reopened, stranded, bounds>>

LeaveRun ==
    /\ w.pc = "after"
    /\ stopped
    /\ w' = IdleWorker
    /\ UNCHANGED <<dbVars, procVars, api, got, lossVars, reopened, stranded, bounds>>

Deliver == got' = [got EXCEPT ![w.run] = @ \cup {<<Part, w.at>>}]

NextPiece == [w EXCEPT !.at = @ + 1, !.pc = PieceOrMark(w.run, Part, w.at + 1)]

SendPiece ==
    /\ w.pc = "send"
    /\ Deliver
    /\ w' = IF Part = "history" THEN [w EXCEPT !.pc = "count"] ELSE NextPiece
    /\ UNCHANGED <<dbVars, procVars, api, lossVars, reopened, stranded, bounds>>

(* Deliberate fault: the error is logged and the next piece is sent. *)
BugGoesOn ==
    /\ w.pc = "send"
    /\ Fault("worb")
    /\ w' = IF Part = "history" THEN [w EXCEPT !.pc = "count"] ELSE NextPiece
    /\ UNCHANGED <<dbVars, procVars, api, got, lossVars, reopened, stranded, requests>>

(* No attempt of retry() was answered with success; one may have arrived. *)
SendFails ==
    /\ w.pc = "send"
    /\ Fault("worb")
    /\ Deliver \/ UNCHANGED got
    /\ w' = [w EXCEPT !.pc = "error"]
    /\ UNCHANGED <<dbVars, procVars, api, lossVars, reopened, stranded, requests>>

(* download_file returns nothing when it fails, or worb gave no place. *)
FileMissing ==
    /\ w.pc = "send"
    /\ Part = "files"
    /\ Fault("source")
    /\ missed' = [missed EXCEPT ![w.run] = @ \cup {<<Part, w.at>>}]
    /\ w' = NextPiece
    /\ UNCHANGED <<dbVars, procVars, api, got, cut, overtaken, reopened, stranded, requests>>

(* update_history_lines_sent. *)
CountSent ==
    /\ w.pc = "count"
    /\ sent' = [sent EXCEPT ![w.run] = w.at]
    /\ w' = NextPiece
    /\ UNCHANGED <<pstatus, rstatus, flags, errors, procVars, api, got, lossVars, reopened, stranded, bounds>>

(* mark_upserted and the like. *)
MarkPart ==
    /\ w.pc = "mark"
    /\ flags' = [flags EXCEPT ![w.run] = @ \cup {Part}]
    /\ NextPart
    /\ UNCHANGED <<pstatus, rstatus, sent, errors, procVars, api, got, lossVars, reopened, stranded, bounds>>

FinishRun ==
    /\ w.pc = "finish"
    /\ SetRun("done")
    /\ w' = [w EXCEPT !.pc = "check"]
    /\ UNCHANGED <<pstatus, rowVars, procVars, api, got, lossVars, reopened, stranded, bounds>>

(* record_run_error. *)
RecordError ==
    /\ w.pc = "error"
    /\ SetRun("error")
    /\ errors' = [errors EXCEPT ![w.run] = @ + 1]
    /\ w' = IdleWorker
    /\ UNCHANGED <<pstatus, flags, sent, procVars, api, got, lossVars, reopened, stranded, bounds>>

(* Deliberate fault: a run that failed does not count as remaining. *)
BugIgnoresErrors(p) == {r \in Rows(p) : rstatus[r] \notin {"done", "error"}}

Remaining(p) == {r \in Rows(p) : rstatus[r] # "done"}

(* check_project_done. *)
CheckProject ==
    /\ w.pc = "check"
    /\ w' = IF Remaining(ProjectOf[w.run]) = {} THEN [w EXCEPT !.pc = "close"] ELSE IdleWorker
    /\ UNCHANGED <<dbVars, procVars, api, got, lossVars, reopened, stranded, bounds>>

CloseProject ==
    /\ w.pc = "close"
    /\ pstatus' = [pstatus EXCEPT ![ProjectOf[w.run]] = "done"]
    /\ w' = IdleWorker
    /\ UNCHANGED <<rstatus, rowVars, procVars, api, got, lossVars, reopened, stranded, bounds>>

-----------------------------------------------------------------------------
(* Requests. *)

(* schedule_migration and add_project. *)
Schedule(p) ==
    /\ Serving
    /\ pstatus[p] = "none"
    /\ pstatus' = [pstatus EXCEPT ![p] = "pending"]
    /\ UNCHANGED <<rstatus, rowVars, procVars, w, api, got, lossVars, reopened, stranded, bounds>>

(* What reset_run and reset_all_runs do to the rows in R. *)
ClearRows(R) ==
    /\ rstatus' = [r \in Runs |-> IF r \in R THEN "pending" ELSE rstatus[r]]
    /\ flags' = [r \in Runs |-> IF r \in R THEN {} ELSE flags[r]]
    /\ sent' = [r \in Runs |-> IF r \in R THEN 0 ELSE sent[r]]
    /\ errors' = [r \in Runs |-> IF r \in R THEN 0 ELSE errors[r]]
    /\ got' = [r \in Runs |-> IF r \in R THEN {} ELSE got[r]]
    /\ missed' = [r \in Runs |-> IF r \in R THEN {} ELSE missed[r]]
    /\ cut' = [r \in Runs |-> IF r \in R THEN {} ELSE cut[r]]
    /\ overtaken' = (overtaken \ R) \cup {r \in R : At(r)}

(* Project p is done, or about to be. *)
Closed(p) == pstatus[p] = "done" \/ (w.pc \in Closing /\ ProjectOf[w.run] = p)

Reopen(R) == reopened' = reopened \cup {p \in Projects : Closed(p) /\ R \cap RunsOf(p) # {}}

ResetRun(r) ==
    /\ Serving /\ Request
    /\ rstatus[r] # "none"
    /\ ClearRows({r})
    /\ Reopen({r})
    /\ UNCHANGED <<pstatus, procVars, w, api, stranded, faults>>

(* reset_runs for a project: it is read, its runs are reset, and then itself
   if it was not in work when it was read. *)
ResetProject(p, force) ==
    /\ Serving /\ Request
    /\ api.pc = "idle"
    /\ pstatus[p] # "none"
    /\ api' = [pc |-> "runs", project |-> p, seen |-> pstatus[p], force |-> force]
    /\ UNCHANGED <<dbVars, procVars, w, got, lossVars, reopened, stranded, faults>>

ResetRows ==
    /\ api.pc = "runs"
    /\ LET failed == {r \in Rows(api.project) : rstatus[r] = "error"} IN
       IF api.force
       THEN ClearRows(Rows(api.project)) /\ Reopen(Rows(api.project))
       ELSE /\ rstatus' = [r \in Runs |-> IF r \in failed THEN "pending" ELSE rstatus[r]]
            /\ errors' = [r \in Runs |-> IF r \in failed THEN 0 ELSE errors[r]]
            /\ Reopen(failed)
            /\ UNCHANGED <<flags, sent, got, lossVars>>
    /\ api' = [api EXCEPT !.pc = "project"]
    /\ UNCHANGED <<pstatus, procVars, w, stranded, bounds>>

ResetStatus ==
    /\ api.pc = "project"
    /\ IF api.seen \in {"error", "done"}
       THEN /\ pstatus' = [pstatus EXCEPT ![api.project] = "pending"]
            /\ reopened' = reopened \ {api.project}
       ELSE UNCHANGED <<pstatus, reopened>>
    /\ api' = IdleApi
    /\ UNCHANGED <<rstatus, rowVars, procVars, w, got, lossVars, stranded, bounds>>

Pause ==
    /\ Serving /\ Request
    /\ ~paused
    /\ paused' = TRUE
    /\ UNCHANGED <<dbVars, up, stopped, w, api, got, lossVars, reopened, stranded, faults>>

Resume ==
    /\ Serving
    /\ paused
    /\ paused' = FALSE
    /\ UNCHANGED <<dbVars, up, stopped, w, api, got, lossVars, reopened, stranded, bounds>>

-----------------------------------------------------------------------------
(* The process. *)

(* The end of lifespan: requests have been answered, the worker is told. *)
Stop ==
    /\ Serving /\ Request
    /\ api.pc = "idle"
    /\ stopped' = TRUE
    /\ UNCHANGED <<dbVars, up, paused, w, api, got, lossVars, reopened, stranded, faults>>

(* The process is gone, with what it knew. *)
Gone ==
    /\ up' = FALSE
    /\ w' = IdleWorker
    /\ api' = IdleApi
    /\ stranded' = stranded \cup {p \in Projects : w.pc \in Discovering /\ w.project = p}

(* Worker.stop waits ten seconds for the worker; it may still be at work when
   the database is closed under it. *)
Exit ==
    /\ up /\ stopped
    /\ Gone
    /\ UNCHANGED <<dbVars, stopped, paused, got, lossVars, reopened, bounds>>

Crash ==
    /\ up
    /\ Fault("crash")
    /\ Gone
    /\ UNCHANGED <<dbVars, stopped, paused, got, lossVars, reopened, requests>>

Start ==
    /\ ~up
    /\ up' = TRUE
    /\ stopped' = FALSE
    /\ paused' = FALSE
    /\ UNCHANGED <<dbVars, w, api, got, lossVars, reopened, stranded, bounds>>

-----------------------------------------------------------------------------
(* The next-state relation. *)

Discover == ListRuns \/ ListFails \/ Discovered \/ \E r \in Runs : UpsertRow(r)

Migrate == \/ BeginRun \/ FetchRun \/ StartFails
           \/ SkipPart \/ StartPart \/ SourceHasNothing
           \/ PassGate \/ CutShort \/ LeaveRun
           \/ SendPiece \/ SendFails \/ FileMissing \/ CountSent \/ MarkPart
           \/ FinishRun \/ RecordError \/ CheckProject \/ CloseProject

Work == \/ Tick \/ NoProject \/ NoRun \/ Discover \/ Migrate
        \/ \E p \in Projects : PickProject(p)
        \/ \E r \in Runs : PickRun(r)

Reset == \/ \E r \in Runs : ResetRun(r)
         \/ \E p \in Projects, force \in BOOLEAN : ResetProject(p, force)
         \/ ResetRows \/ ResetStatus

Next == \/ Work
        \/ Reset
        \/ \E p \in Projects : Schedule(p)
        \/ Pause \/ Resume
        \/ Stop \/ Exit \/ Crash \/ Start

Spec == Init /\ [][Next]_vars

(* The worker's thread is scheduled, requests are carried through, a process
   that is told to end does so, who pauses resumes, and the service is
   started again. *)
FairSpec == Spec /\ WF_vars(Work) /\ WF_vars(ResetRows \/ ResetStatus)
                 /\ WF_vars(Exit) /\ WF_vars(Start) /\ WF_vars(Resume)

-----------------------------------------------------------------------------
(* Correctness. *)

(* The variables have their types. *)
TypeOK ==
    /\ pstatus \in [Projects -> ProjectStatus]
    /\ rstatus \in [Runs -> RunStatus]
    /\ flags \in [Runs -> SUBSET Parts]
    /\ sent \in [Runs -> Nat]
    /\ errors \in [Runs -> Nat]
    /\ up \in BOOLEAN /\ stopped \in BOOLEAN /\ paused \in BOOLEAN
    /\ w \in Workers
    /\ api \in Handlers
    /\ got \in [Runs -> SUBSET (Parts \X Nat)]
    /\ missed \in [Runs -> SUBSET (Parts \X Nat)]
    /\ cut \in [Runs -> SUBSET Parts]
    /\ overtaken \subseteq Runs
    /\ reopened \subseteq Projects /\ stranded \subseteq Projects
    /\ faults \in Nat /\ requests \in Nat

(* Everything of part p of run r that the source gave reached worb. *)
Whole(r, p) == p \in cut[r] \/ PieceSet(r, p) \subseteq got[r] \cup missed[r]

(* migration_server.py:396, "resume support".  A part whose column is set is
   never looked at again, so all of it must have reached worb, and so must the
   lines that history_lines_sent counts, whatever crash, error, pause or reset
   comes between sending and noting.  It is not so for a part a shutdown cut
   short (CutShort), nor for a run that was reset while the worker was at it:
   the worker's old row goes on over the cleared one. *)
SkippedIsDelivered ==
    \A r \in Runs \ overtaken :
        /\ \A p \in flags[r] : Whole(r, p)
        /\ \A i \in 1..sent[r] : <<"history", i>> \in got[r]

(* migration_server.py:349.  A run is done only when every part is with worb,
   over any number of attempts since its last reset; same exceptions. *)
DoneRunIsComplete ==
    \A r \in Runs \ overtaken : rstatus[r] = "done" => \A p \in Parts : Whole(r, p)

(* state_db.py:250-259 counts the runs that remain and then closes the
   project.  A project is done only when all its runs are, unless a run was
   reset after the count and the project was not. *)
DoneProjectHasDoneRuns ==
    \A p \in Projects \ reopened : pstatus[p] = "done" => \A r \in Rows(p) : rstatus[r] = "done"

(* state_db.py:148-163.  A run of a project that is ready is migrated or fails,
   through crashes, shutdowns and pauses; get_next_run does not see runs of a
   project that was closed over a reset. *)
RunsSettle ==
    \A r \in Runs :
        (rstatus[r] \in {"pending", "in_progress"} /\ pstatus[ProjectOf[r]] = "ready")
            ~> (rstatus[r] \in {"done", "error"} \/ ProjectOf[r] \in reopened)

(* migration_server.py:209-244.  A scheduled project gets its runs listed, or
   fails, unless the process ends while it is about it: a project that is left
   in discovering is never picked again, nor can it be reset. *)
ProjectsAreDiscovered ==
    \A p \in Projects :
        pstatus[p] = "pending" ~> (pstatus[p] \in {"ready", "error", "done"} \/ p \in stranded)

Settling(st) == CASE st = "none"                       -> "unlisted"
                  [] st \in {"pending", "in_progress"} -> "open"
                  [] st = "error"                      -> "failed"
                  [] st = "done"                       -> "done"

(* Given up: what the source did not give, and the parts that were cut short. *)
GivenUp(r) == missed[r] \cup UNION {PieceSet(r, p) : p \in cut[r]}

Copying == INSTANCE Transfer WITH
              Order   <- PartSeq,
              Resumed <- "history",
              status  <- [r \in Runs |-> Settling(rstatus[r])],
              noted   <- flags,
              counted <- sent,
              arrived <- got,
              lost    <- [r \in Runs |-> GivenUp(r)],
              blurred <- overtaken

(* Over any number of attempts, with crashes, failures, pauses and shutdowns
   between any two statements, a run is copied as Transfer says: its parts in
   order and each noted once, its history without a gap and without a batch sent
   twice but the one after the last count, and no further once it is done. *)
ImplementsTransfer == Copying!Spec

=============================================================================
