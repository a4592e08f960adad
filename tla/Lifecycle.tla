----------------------------- MODULE Lifecycle -----------------------------
(***************************************************************************)
(* The life of projects and runs in the database: created by request       *)
(* handlers (internal/store/runs.go), filled by the flusher (buffer.go,    *)
(* history.go) and by uploads (runs.go, artifacts.go), soft-deleted on     *)
(* request, and removed piece by piece by the cleanup goroutine            *)
(* (cleanup.go).                                                           *)
(*                                                                         *)
(* Every SQL statement outside a transaction commits by itself, on one of  *)
(* 32 connections, so an action is one statement or one transaction and    *)
(* everything else may happen between two of them.  Columns that decide    *)
(* nothing here are left out; a lookup by name or display name finds some  *)
(* live run of the project, or none.                                       *)
(***************************************************************************)
EXTENDS Integers, Sequences

CONSTANTS
    ClientIds,    \* run ids a client may choose
    Uuids,        \* run ids the server draws
    ProjectIds,   \* project ids the server draws
    Names,        \* (entity, name) pairs of projects
    Handlers,     \* goroutines serving requests
    Kinds,        \* kinds of groups the flusher writes
    None,         \* no run, project or name
    MaxCreates,   \* model bound: run rows ever inserted
    MaxWrites     \* model bound: groups and uploads ever written

RunIds == ClientIds \cup Uuids

ASSUME NoneAssumption == None \notin RunIds \cup ProjectIds \cup Names
ASSUME IdsAssumption  == ClientIds \cap Uuids = {}
ASSUME KindsAssumption == Kinds \subseteq {"scalars", "histograms", "events", "logs"}
ASSUME LimitsAssumption == MaxCreates \in Nat /\ MaxWrites \in Nat

(* Deliberate fault: the table added last is forgotten. *)
BugForgetKeys == <<"history_scalars", "history_histograms", "run_steps",
                   "system_events", "console_logs", "files", "artifacts">>

(* The tables purgeDeletedData empties, in its order. *)
PurgeOrder == <<"history_scalars", "history_histograms", "run_steps", "run_keys",
                "system_events", "console_logs", "files", "artifacts">>

(* The tables with a reference to runs(id). *)
Tables == {"history_scalars", "history_histograms", "run_steps", "run_keys",
           "system_events", "console_logs", "files", "artifacts"}

(* The transactions that write a group: flushScalars adds the keys in one of
   its own. *)
GroupTxs == [scalars    |-> <<{"history_scalars", "run_steps"}, {"run_keys"}>>,
             histograms |-> <<{"history_histograms"}>>,
             events     |-> <<{"system_events"}>>,
             logs       |-> <<{"console_logs"}>>]

(* processForkOp copies scalars and histograms, where the parent has any below
   the fork step, and the keys. *)
ForkTxs == {<<{"history_scalars", "run_steps"}, {"run_keys"},
              {"history_histograms"}, {"run_keys"}>>,
            <<{"history_scalars", "run_steps"}, {"run_keys"}, {"run_keys"}>>,
            <<{"history_histograms"}, {"run_keys"}>>,
            <<{"run_keys"}>>}

VARIABLES
    \* the database
    pstate,   \* pstate[p]: no row yet, live, soft-deleted, or row removed
    pname,    \* projects.name (and entity)
    rstate,   \* rstate[r]: likewise
    rproj,    \* runs.project_id
    rows,     \* rows[r][t]: the data of run r in table t, in purge batches
    \* the processes
    req,      \* req[h]: what handler h is doing
    fl,       \* the group the flusher is writing
    purge,    \* where the cleanup goroutine is
    \* of the model
    creates,  \* run rows inserted so far
    writes    \* groups and uploads started so far

db   == <<pstate, pname, rstate, rproj, rows>>
vars == <<db, req, fl, purge, creates, writes>>

States   == {"fresh", "live", "deleted", "purged"}
ReqPCs   == {"idle", "lookup", "project", "addProject", "byName", "project2",
             "addProject2", "insertRun", "project3", "addProject3", "findRun", "upload"}
PurgePCs == {"idle", "batch", "row", "projects", "project"}

IdleReq   == [pc |-> "idle", run |-> None, proj |-> None, name |-> None]
IdleFlush == [run |-> None, txs |-> << >>]
IdlePurge == [pc |-> "idle", run |-> None, table |-> 1, proj |-> None]

-----------------------------------------------------------------------------
(* Rows and keys. *)

HasRow(state) == state \in {"live", "deleted"}

(* Deliberate fault: the connection is opened without foreign_keys(1). *)
BugNoForeignKeys(ok) == TRUE

(* With the pragma the database refuses a statement that would leave a row
   whose parent is missing. *)
ForeignKey(ok) == ok

NoData(r) == \A t \in Tables : rows[r][t] = 0

NoRuns(p) == \A r \in RunIds : HasRow(rstate[r]) => rproj[r] # p

(* UNIQUE(entity, name) counts soft-deleted rows too. *)
NameTaken(n) == \E p \in ProjectIds : HasRow(pstate[p]) /\ pname[p] = n

LiveProject(p, n) == pstate[p] = "live" /\ pname[p] = n

LiveRunOf(r, p) == rstate[r] = "live" /\ rproj[r] = p

(* uuid.New(): nobody has it. *)
Drawable(u) == rstate[u] = "fresh" /\ \A h \in Handlers : req[h].run # u

Init ==
    /\ pstate = [p \in ProjectIds |-> "fresh"]
    /\ pname = [p \in ProjectIds |-> None]
    /\ rstate = [r \in RunIds |-> "fresh"]
    /\ rproj = [r \in RunIds |-> None]
    /\ rows = [r \in RunIds |-> [t \in Tables |-> 0]]
    /\ req = [h \in Handlers |-> IdleReq]
    /\ fl = IdleFlush
    /\ purge = IdlePurge
    /\ creates = 0
    /\ writes = 0

-----------------------------------------------------------------------------
(* Requests.  UpsertRun with an id of the client's or a drawn one; ForkRun,
   which has read its parent; and the handlers that make sure of a project
   before they look for a run in it. *)

Goto(h, pc)  == req' = [req EXCEPT ![h].pc = pc]
Finish(h)    == req' = [req EXCEPT ![h] = IdleReq]

BeginUpsert(h, r, n) ==
    /\ req[h].pc = "idle"
    /\ r \in ClientIds \/ Drawable(r)
    /\ req' = [req EXCEPT ![h] = [pc |-> "lookup", run |-> r, proj |-> None, name |-> n]]
    /\ UNCHANGED <<db, fl, purge, creates, writes>>

BeginFork(h, parent, u) ==
    /\ req[h].pc = "idle"
    /\ rstate[parent] = "live"
    /\ u \in Uuids /\ Drawable(u)
    /\ req' = [req EXCEPT ![h] = [pc |-> "insertRun", run |-> u,
                                  proj |-> rproj[parent], name |-> None]]
    /\ UNCHANGED <<db, fl, purge, creates, writes>>

BeginUpload(h, n) ==
    /\ req[h].pc = "idle"
    /\ req' = [req EXCEPT ![h] = [pc |-> "project3", run |-> None,
                                  proj |-> None, name |-> n]]
    /\ UNCHANGED <<db, fl, purge, creates, writes>>

(* A live run is updated in columns the model leaves out, and that is all. *)
LookupLive(h) ==
    /\ req[h].pc = "lookup"
    /\ rstate[req[h].run] = "live"
    /\ Finish(h)
    /\ UNCHANGED <<db, fl, purge, creates, writes>>

LookupNone(h) ==
    /\ req[h].pc = "lookup"
    /\ rstate[req[h].run] # "live"
    /\ Goto(h, IF req[h].run \in ClientIds THEN "project2" ELSE "project")
    /\ UNCHANGED <<db, fl, purge, creates, writes>>

(* EnsureProject: a SELECT of a live project, then an INSERT. *)

AfterProject(pc) == CASE pc \in {"project", "addProject"}   -> "byName"
                      [] pc \in {"project2", "addProject2"} -> "insertRun"
                      [] OTHER                              -> "findRun"

FindProject(h) ==
    /\ req[h].pc \in {"project", "project2", "project3"}
    /\ \E p \in ProjectIds :
          /\ LiveProject(p, req[h].name)
          /\ req' = [req EXCEPT ![h].proj = p, ![h].pc = AfterProject(@)]
    /\ UNCHANGED <<db, fl, purge, creates, writes>>

FindNoProject(h) ==
    /\ req[h].pc \in {"project", "project2", "project3"}
    /\ \A p \in ProjectIds : ~LiveProject(p, req[h].name)
    /\ Goto(h, CASE req[h].pc = "project"  -> "addProject"
                 [] req[h].pc = "project2" -> "addProject2"
                 [] OTHER                  -> "addProject3")
    /\ UNCHANGED <<db, fl, purge, creates, writes>>

AddProject(h, p) ==
    /\ req[h].pc \in {"addProject", "addProject2", "addProject3"}
    /\ ~NameTaken(req[h].name)
    /\ pstate[p] = "fresh"
    /\ pstate' = [pstate EXCEPT ![p] = "live"]
    /\ pname' = [pname EXCEPT ![p] = req[h].name]
    /\ req' = [req EXCEPT ![h].proj = p, ![h].pc = AfterProject(@)]
    /\ UNCHANGED <<rstate, rproj, rows, fl, purge, creates, writes>>

(* SELECT by name, for a run id that was drawn here. *)
ByName(h) ==
    /\ req[h].pc = "byName"
    /\ \/ (\E r \in RunIds : LiveRunOf(r, req[h].proj)) /\ Finish(h)
       \/ Goto(h, "project2")
    /\ UNCHANGED <<db, fl, purge, creates, writes>>

(* Deliberate fault: a soft-deleted row with this id is revived. *)
BugRevive(h) ==
    LET r == req[h].run  p == req[h].proj IN
    /\ req[h].pc = "insertRun"
    /\ creates < MaxCreates
    /\ rstate[r] # "live"
    /\ ForeignKey(HasRow(pstate[p]))
    /\ rstate' = [rstate EXCEPT ![r] = "live"]
    /\ rproj' = [rproj EXCEPT ![r] = p]
    /\ creates' = creates + 1
    /\ Finish(h)
    /\ UNCHANGED <<pstate, pname, rows, fl, purge, writes>>

(* INSERT INTO runs: the id must have no row, soft-deleted or not, and the
   project's row must still be there.  That it may be soft-deleted by now
   nobody checks. *)
InsertRun(h) ==
    LET r == req[h].run  p == req[h].proj IN
    /\ req[h].pc = "insertRun"
    /\ creates < MaxCreates
    /\ ~HasRow(rstate[r])
    /\ ForeignKey(HasRow(pstate[p]))
    /\ rstate' = [rstate EXCEPT ![r] = "live"]
    /\ rproj' = [rproj EXCEPT ![r] = p]
    /\ creates' = creates + 1
    /\ Finish(h)
    /\ UNCHANGED <<pstate, pname, rows, fl, purge, writes>>

(* A statement is refused (a constraint, a busy database) and the request
   fails; UpsertRun goes on when it was only looking for a run by name. *)
StatementFails(h) ==
    /\ req[h].pc # "idle"
    /\ IF req[h].pc \in {"project", "addProject", "byName"}
       THEN Goto(h, "project2")
       ELSE Finish(h)
    /\ UNCHANGED <<db, fl, purge, creates, writes>>

(* GetRunByName, then InsertFile or CreateArtifact without another look.  The
   filestream handler and the queries stop here. *)
FindRun(h) ==
    /\ req[h].pc = "findRun"
    /\ \/ \E r \in RunIds : /\ LiveRunOf(r, req[h].proj)
                            /\ req' = [req EXCEPT ![h].run = r, ![h].pc = "upload"]
       \/ Finish(h)
    /\ UNCHANGED <<db, fl, purge, creates, writes>>

Upload(h, t) ==
    LET r == req[h].run IN
    /\ req[h].pc = "upload"
    /\ t \in {"files", "artifacts"}
    /\ writes < MaxWrites
    /\ ForeignKey(HasRow(rstate[r]))
    /\ rows' = [rows EXCEPT ![r][t] = @ + 1]
    /\ writes' = writes + 1
    /\ UNCHANGED <<pstate, pname, rstate, rproj, req, fl, purge, creates>>

UploadEnds(h) ==
    /\ req[h].pc = "upload"
    /\ Finish(h)
    /\ UNCHANGED <<db, fl, purge, creates, writes>>

DeleteRun(r) ==
    /\ rstate[r] = "live"
    /\ rstate' = [rstate EXCEPT ![r] = "deleted"]
    /\ UNCHANGED <<pstate, pname, rproj, rows, req, fl, purge, creates, writes>>

(* One transaction for the runs and the project. *)
DeleteProject(p) ==
    /\ pstate[p] = "live"
    /\ pstate' = [pstate EXCEPT ![p] = "deleted"]
    /\ rstate' = [r \in RunIds |-> IF LiveRunOf(r, p) THEN "deleted" ELSE rstate[r]]
    /\ UNCHANGED <<pname, rproj, rows, req, fl, purge, creates, writes>>

-----------------------------------------------------------------------------
(* The flusher.  The log may hold lines of any run that ever existed. *)

(* activeRunIDs says the run is live; the transactions come later. *)
FlushActive(r, k) ==
    /\ fl = IdleFlush
    /\ writes < MaxWrites
    /\ rstate[r] = "live"
    /\ fl' = [run |-> r, txs |-> GroupTxs[k]]
    /\ writes' = writes + 1
    /\ UNCHANGED <<db, req, purge, creates>>

(* activeRunIDs cannot read the table and takes every run for live. *)
FlushUnchecked(r, k) ==
    /\ fl = IdleFlush
    /\ writes < MaxWrites
    /\ rstate[r] # "fresh"
    /\ fl' = [run |-> r, txs |-> GroupTxs[k]]
    /\ writes' = writes + 1
    /\ UNCHANGED <<db, req, purge, creates>>

(* A fork operation is not checked at all. *)
FlushFork(r) ==
    /\ fl = IdleFlush
    /\ writes < MaxWrites
    /\ rstate[r] # "fresh"
    /\ \E txs \in ForkTxs : fl' = [run |-> r, txs |-> txs]
    /\ writes' = writes + 1
    /\ UNCHANGED <<db, req, purge, creates>>

FlushTx ==
    LET r == fl.run IN
    /\ fl.txs # << >>
    /\ ForeignKey(HasRow(rstate[r]))
    /\ rows' = [rows EXCEPT ![r] =
                  [t \in Tables |-> @[t] + IF t \in Head(fl.txs) THEN 1 ELSE 0]]
    /\ fl' = IF Tail(fl.txs) = << >> THEN IdleFlush ELSE [fl EXCEPT !.txs = Tail(@)]
    /\ UNCHANGED <<pstate, pname, rstate, rproj, req, purge, creates, writes>>

(* The run is gone (or the database busy): the rest of the group is dropped. *)
FlushFails ==
    /\ fl.txs # << >>
    /\ fl' = IdleFlush
    /\ UNCHANGED <<db, req, purge, creates, writes>>

-----------------------------------------------------------------------------
(* The cleanup goroutine: at each tick one batch, or one row of a run that has
   no data left, or one project without runs. *)

(* Deliberate fault: only runs are looked for. *)
BugOnlyRuns == \E r \in RunIds : rstate[r] = "deleted"

HasDeletedData == \/ \E r \in RunIds : rstate[r] = "deleted"
                  \/ \E p \in ProjectIds : pstate[p] = "deleted"

PickRun(r) ==
    /\ purge.pc = "idle"
    /\ rstate[r] = "deleted"
    /\ purge' = [purge EXCEPT !.pc = "batch", !.run = r, !.table = 1]
    /\ UNCHANGED <<db, req, fl, creates, writes>>

PickNoRun ==
    /\ purge.pc = "idle"
    /\ HasDeletedData
    /\ \A r \in RunIds : rstate[r] # "deleted"
    /\ purge' = [purge EXCEPT !.pc = "projects"]
    /\ UNCHANGED <<db, req, fl, creates, writes>>

DeleteBatch ==
    LET r == purge.run  t == PurgeOrder[purge.table] IN
    /\ purge.pc = "batch"
    /\ rows[r][t] > 0
    /\ rows' = [rows EXCEPT ![r][t] = @ - 1]
    /\ purge' = IdlePurge
    /\ UNCHANGED <<pstate, pname, rstate, rproj, req, fl, creates, writes>>

(* Deliberate fault: the loop runs one table too far. *)
BugOneTableMore ==
    /\ purge.pc = "batch"
    /\ rows[purge.run][PurgeOrder[purge.table]] = 0
    /\ purge' = IF purge.table > Len(PurgeOrder)
                THEN [purge EXCEPT !.pc = "row"]
                ELSE [purge EXCEPT !.table = @ + 1]
    /\ UNCHANGED <<db, req, fl, creates, writes>>

BatchEmpty ==
    /\ purge.pc = "batch"
    /\ rows[purge.run][PurgeOrder[purge.table]] = 0
    /\ purge' = IF purge.table = Len(PurgeOrder)
                THEN [purge EXCEPT !.pc = "row"]
                ELSE [purge EXCEPT !.table = @ + 1]
    /\ UNCHANGED <<db, req, fl, creates, writes>>

(* A late group may have filled a table that was empty a moment ago: then the
   DELETE fails and a later tick starts again. *)
DeleteRunRow ==
    LET r == purge.run IN
    /\ purge.pc = "row"
    /\ rstate' = IF ForeignKey(NoData(r)) THEN [rstate EXCEPT ![r] = "purged"] ELSE rstate
    /\ purge' = IdlePurge
    /\ UNCHANGED <<pstate, pname, rproj, rows, req, fl, creates, writes>>

Purgeable(p) == pstate[p] = "deleted" /\ NoRuns(p)

PickProject(p) ==
    /\ purge.pc = "projects"
    /\ Purgeable(p)
    /\ purge' = [purge EXCEPT !.pc = "project", !.proj = p]
    /\ UNCHANGED <<db, req, fl, creates, writes>>

PickNoProject ==
    /\ purge.pc = "projects"
    /\ \A p \in ProjectIds : ~Purgeable(p)
    /\ purge' = IdlePurge
    /\ UNCHANGED <<db, req, fl, creates, writes>>

DeleteProjectRow ==
    LET p == purge.proj IN
    /\ purge.pc = "project"
    /\ pstate' = IF ForeignKey(NoRuns(p)) THEN [pstate EXCEPT ![p] = "purged"] ELSE pstate
    /\ purge' = IdlePurge
    /\ UNCHANGED <<pname, rstate, rproj, rows, req, fl, creates, writes>>

-----------------------------------------------------------------------------
(* The next-state relation. *)

Request(h) ==
    \/ \E r \in RunIds, n \in Names : BeginUpsert(h, r, n)
    \/ \E r \in RunIds, u \in Uuids : BeginFork(h, r, u)
    \/ \E n \in Names : BeginUpload(h, n)
    \/ LookupLive(h) \/ LookupNone(h)
    \/ FindProject(h) \/ FindNoProject(h)
    \/ \E p \in ProjectIds : AddProject(h, p)
    \/ ByName(h)
    \/ InsertRun(h)
    \/ FindRun(h)
    \/ \E t \in Tables : Upload(h, t)
    \/ UploadEnds(h)
    \/ StatementFails(h)

Deletion == \/ \E r \in RunIds : DeleteRun(r)
            \/ \E p \in ProjectIds : DeleteProject(p)

Flusher == \/ \E r \in RunIds, k \in Kinds : FlushActive(r, k) \/ FlushUnchecked(r, k)
           \/ \E r \in RunIds : FlushFork(r)
           \/ FlushTx
           \/ FlushFails

Cleanup == \/ \E r \in RunIds : PickRun(r)
           \/ PickNoRun \/ DeleteBatch \/ BatchEmpty \/ DeleteRunRow
           \/ \E p \in ProjectIds : PickProject(p)
           \/ PickNoProject \/ DeleteProjectRow

Next == (\E h \in Handlers : Request(h)) \/ Deletion \/ Flusher \/ Cleanup

Spec == Init /\ [][Next]_vars

(* The ticker of the cleanup goroutine runs for as long as the server does. *)
FairSpec == Spec /\ WF_vars(Cleanup)

-----------------------------------------------------------------------------
(* Correctness. *)

Requests == [pc : ReqPCs, run : RunIds \cup {None}, proj : ProjectIds \cup {None},
             name : Names \cup {None}]

(* The variables have their types. *)
TypeOK ==
    /\ pstate \in [ProjectIds -> States]
    /\ pname \in [ProjectIds -> Names \cup {None}]
    /\ rstate \in [RunIds -> States]
    /\ rproj \in [RunIds -> ProjectIds \cup {None}]
    /\ rows \in [RunIds -> [Tables -> Nat]]
    /\ req \in [Handlers -> Requests]
    /\ fl \in [run : RunIds \cup {None}, txs : Seq(SUBSET Tables)]
    /\ purge \in [pc : PurgePCs, run : RunIds \cup {None}, table : 1..Len(PurgeOrder),
                  proj : ProjectIds \cup {None}]
    /\ creates \in 0..MaxCreates
    /\ writes \in 0..MaxWrites

(* Neither a purge that has found every table empty nor a flusher that has
   found a run live leaves data of a run, or a run of a project, that is no
   longer there: nothing would ever look for it again. *)
NoOrphans ==
    /\ \A r \in RunIds : ~HasRow(rstate[r]) => NoData(r)
    /\ \A r \in RunIds : HasRow(rstate[r]) => /\ rproj[r] \in ProjectIds
                                              /\ HasRow(pstate[rproj[r]])

Registry == INSTANCE RunRegistry WITH
    Ids        <- RunIds,
    DataTables <- Tables,
    status     <- [r \in RunIds |-> CASE rstate[r] = "live"    -> "shown"
                                      [] rstate[r] = "deleted" -> "hidden"
                                      [] OTHER                 -> "absent"],
    visible    <- [r \in RunIds |-> IF rstate[r] = "live" THEN rows[r]
                                    ELSE [t \in Tables |-> 0]]

(* Requests, flusher and cleanup together keep the promise of RunRegistry: the
   purge never touches a run that is shown, a deleted run does not come back,
   and a run created under an old id starts empty. *)
ImplementsRegistry == Registry!Spec

(* cleanup.go:9: the data of a soft-deleted run is purged, late writes or not,
   and then the run. *)
RunsArePurged == \A r \in RunIds : rstate[r] = "deleted" ~> rstate[r] = "purged"

(* And a soft-deleted project too, unless a live run got into it. *)
ProjectsArePurged ==
    \A p \in ProjectIds :
        pstate[p] = "deleted" ~> \/ pstate[p] = "purged"
                                 \/ \E r \in RunIds : LiveRunOf(r, p)

(* index.html:52 "Delete this project and all its runs? This cannot be
   undone.": a deleted project shows no run. *)
DeletedProjectHasNoRun ==
    \A p \in ProjectIds, r \in RunIds : pstate[p] = "deleted" => ~LiveRunOf(r, p)

=============================================================================
