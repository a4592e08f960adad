----------------------------- MODULE FileStream -----------------------------
(***************************************************************************)
(* Uploads: clients that log under one name, and the handlers that serve   *)
(* them.                                                                   *)
(*                                                                         *)
(* A client creates its run by name (UpsertBucket in schema.resolvers.go,  *)
(* UpsertRun in runs.go) and then posts chunks to the file stream          *)
(* (internal/filestream/handler.go), each until it is answered with        *)
(* success or MaxTries requests have failed (retry in worb_client.py).  A  *)
(* creation may give the state of the run: a migrated run is finished when *)
(* its upload begins.  A chunk has lines of several files; the handler     *)
(* goes through them in the order of a Go map, which is any order.         *)
(*                                                                         *)
(* A client whose connection breaks tries again while the old handler is   *)
(* still at work.  A statement, or an append to the log, is one step.      *)
(***************************************************************************)
EXTENDS Integers, Sequences, FiniteSets

CONSTANTS
    Clients,     \* processes that upload, all under one name
    Handlers,    \* goroutines serving requests
    Runs,        \* run ids the server draws
    Plan,        \* the chunks of an upload: the steps of their history lines, other files
    Given,       \* Given[c]: the state c creates its run with, "none" if it gives none
    None,        \* no run, handler or client
    MaxTries,    \* retries of retry(): requests for one chunk
    Deletable,   \* the runs a user deletes
    Faults,      \* what may go wrong: a subset of FaultKinds
    MaxFaults    \* model bound: faults

OtherFiles == {"events", "logs", "summary"}
Files      == {"history"} \cup OtherFiles
FaultKinds == {"lost", "full", "db", "crash"}

(* Every state of a run that is not finished is "running" here. *)
States == {"none", "running", "finished"}

Last == Len(Plan)

ASSUME PlanAssumption   == Plan \in Seq([steps : SUBSET Nat, others : SUBSET OtherFiles])
ASSUME StepsAssumption  == /\ \A k \in 1..Last : IsFiniteSet(Plan[k].steps)
                           /\ \A j, k \in 1..Last : j # k => Plan[j].steps \cap Plan[k].steps = {}
ASSUME GivenAssumption  == Given \in [Clients -> States]
ASSUME NoneAssumption   == None \notin Clients \cup Handlers \cup Runs
ASSUME TriesAssumption  == MaxTries \in Nat \ {0}
ASSUME RunsAssumption   == Deletable \subseteq Runs
ASSUME FaultsAssumption == Faults \subseteq FaultKinds /\ MaxFaults \in Nat

VARIABLES
    \* the database and the log
    state,       \* runs.state
    deleted,     \* the soft-deleted runs
    received,    \* runs.received_history_count
    logged,      \* logged[r]: <<c, k, f>> where file f of chunk k of c is in the log
    \* the processes
    next,        \* next[c]: the chunk client c sends, 0 for the creation of the run
    tries,       \* tries[c]: requests sent for it
    waiting,     \* waiting[c]: the handler whose answer it waits for
    req,         \* req[h]: what handler h is doing
    \* of the model
    overlaps,    \* requests to create the run sent while another was under way
    missed,      \* lookups that failed while there was a run of the name
    hurt,        \* runs that missed an update of received_history_count
    faults       \* faults so far

dbVars     == <<state, deleted, received, logged>>
clientVars == <<next, tries, waiting>>
ghosts     == <<overlaps, missed, hurt, faults>>
vars       == <<dbVars, clientVars, req, ghosts>>

ReqPCs   == {"idle", "byName", "insert", "update", "fetch", "find", "files", "count", "reply"}
Requests == [pc : ReqPCs, client : Clients \cup {None}, chunk : 0..Last,
             run : Runs \cup {None}, files : SUBSET Files]
IdleReq  == [pc |-> "idle", client |-> None, chunk |-> 0, run |-> None, files |-> {}]

-----------------------------------------------------------------------------
(* The files of chunk k, and those that go to the log. *)
FilesOf(k) == Plan[k].others \cup (IF Plan[k].steps = {} THEN {} ELSE {"history"})
Parts(k)   == IF k \in 1..Last THEN FilesOf(k) \ {"summary"} ELSE {}

(* The runs a lookup by name finds. *)
Live == {r \in Runs : state[r] # "none"} \ deleted

(* A request to create the run is under way. *)
Creating == \E h \in Handlers : req[h].pc # "idle" /\ req[h].chunk = 0

Failed(c) == tries[c] = MaxTries /\ waiting[c] = None

Init ==
    /\ state = [r \in Runs |-> "none"]
    /\ deleted = {}
    /\ received = [r \in Runs |-> 0]
    /\ logged = [r \in Runs |-> {}]
    /\ next = [c \in Clients |-> 0]
    /\ tries = [c \in Clients |-> 0]
    /\ waiting = [c \in Clients |-> None]
    /\ req = [h \in Handlers |-> IdleReq]
    /\ overlaps = 0
    /\ missed = 0
    /\ hurt = {}
    /\ faults = 0

Fault(kind) == kind \in Faults /\ faults < MaxFaults /\ faults' = faults + 1

-----------------------------------------------------------------------------
(* Clients. *)

(* Deliberate fault: one attempt too many. *)
BugOneMore(c) == tries[c] <= MaxTries

MayTry(c) == tries[c] < MaxTries

(* A request is handed to an idle handler. *)
Send(c, h) ==
    /\ waiting[c] = None
    /\ next[c] <= Last
    /\ MayTry(c)
    /\ req[h] = IdleReq
    /\ req' = [req EXCEPT ![h] = [IdleReq EXCEPT !.pc = IF next[c] = 0 THEN "byName" ELSE "find",
                                                 !.client = c, !.chunk = next[c]]]
    /\ waiting' = [waiting EXCEPT ![c] = h]
    /\ tries' = [tries EXCEPT ![c] = @ + 1]
    /\ overlaps' = IF next[c] = 0 /\ Creating THEN overlaps + 1 ELSE overlaps
    /\ UNCHANGED <<dbVars, next, missed, hurt, faults>>

(* The connection breaks; the handler does not notice. *)
LoseConnection(c) ==
    /\ waiting[c] # None
    /\ Fault("lost")
    /\ waiting' = [waiting EXCEPT ![c] = None]
    /\ UNCHANGED <<dbVars, next, tries, req, overlaps, missed, hurt>>

(* The answer of handler h, to whoever still waits for it. *)
Answer(h, success) ==
    LET c == req[h].client IN
    /\ req' = [req EXCEPT ![h] = IdleReq]
    /\ IF waiting[c] = h
       THEN /\ waiting' = [waiting EXCEPT ![c] = None]
            /\ next' = [next EXCEPT ![c] = IF success THEN @ + 1 ELSE @]
            /\ tries' = [tries EXCEPT ![c] = IF success THEN 0 ELSE @]
       ELSE UNCHANGED clientVars

DeleteRun(r) ==
    /\ r \in Live
    /\ deleted' = deleted \cup {r}
    /\ UNCHANGED <<state, received, logged, clientVars, req, ghosts>>

-----------------------------------------------------------------------------
(* UpsertRun without an id: the drawn one is nobody's, so the run is looked
   for by name. *)

Goto(h, pc) == req' = [req EXCEPT ![h].pc = pc]

(* Deliberate fault: the run is looked for by its drawn id only. *)
BugByIdOnly(h) ==
    /\ req[h].pc = "byName"
    /\ Goto(h, "insert")
    /\ UNCHANGED <<dbVars, clientVars, ghosts>>

FindByName(h) ==
    /\ req[h].pc = "byName"
    /\ \/ /\ Live = {}
          /\ Goto(h, "insert")
       \/ \E r \in Live :
             req' = [req EXCEPT ![h].pc = "update", ![h].run = r]
    /\ UNCHANGED <<dbVars, clientVars, ghosts>>

(* An error of EnsureProject or of the lookup is dropped: the name is taken to
   be free, whatever runs have it. *)
LookupFails(h) ==
    /\ req[h].pc = "byName"
    /\ Fault("db")
    /\ Goto(h, "insert")
    /\ missed' = IF Live = {} THEN missed ELSE missed + 1
    /\ UNCHANGED <<dbVars, clientVars, overlaps, hurt>>

(* The state the client gives, or running. *)
InsertRun(h, r) ==
    LET given == Given[req[h].client] IN
    /\ req[h].pc = "insert"
    /\ state[r] = "none"
    /\ state' = [state EXCEPT ![r] = IF given = "none" THEN "running" ELSE given]
    /\ req' = [req EXCEPT ![h].pc = "fetch", ![h].run = r]
    /\ UNCHANGED <<deleted, received, logged, clientVars, ghosts>>

(* The state is set when the client gives one, to a run that others may have
   finished since; the other columns decide nothing here. *)
UpdateRun(h) ==
    LET given == Given[req[h].client] IN
    /\ req[h].pc = "update"
    /\ state' = [state EXCEPT ![req[h].run] = IF given = "none" THEN @ ELSE given]
    /\ Goto(h, "fetch")
    /\ UNCHANGED <<deleted, received, logged, clientVars, ghosts>>

(* GetRun, and the answer. *)
FetchRun(h) ==
    /\ req[h].pc = "fetch"
    /\ Answer(h, req[h].run \in Live)
    /\ UNCHANGED <<dbVars, ghosts>>

-----------------------------------------------------------------------------
(* ServeHTTP of the file stream. *)

(* GetRunByName finds some run of the name. *)
FindRun(h) ==
    /\ req[h].pc = "find"
    /\ \E r \in Live :
          req' = [req EXCEPT ![h].pc = "files", ![h].run = r, ![h].files = FilesOf(req[h].chunk)]
    /\ UNCHANGED <<dbVars, clientVars, ghosts>>

RunNotFound(h) ==
    /\ req[h].pc = "find"
    /\ Live = {}
    /\ Answer(h, FALSE)
    /\ UNCHANGED <<dbVars, ghosts>>

(* The other statements of UpsertRun, and GetRunByName: the error is answered. *)
StatementFails(h) ==
    /\ req[h].pc \in {"byName", "insert", "update", "fetch", "find"}
    /\ Fault("db")
    /\ Answer(h, FALSE)
    /\ UNCHANGED <<dbVars, overlaps, missed, hurt>>

AppendFile(h, f) ==
    logged' = [logged EXCEPT ![req[h].run] = @ \cup {<<req[h].client, req[h].chunk, f>>}]

LogHistory(h) ==
    /\ req[h].pc = "files"
    /\ "history" \in req[h].files
    /\ AppendFile(h, "history")
    /\ req' = [req EXCEPT ![h].pc = "count", ![h].files = @ \ {"history"}]
    /\ UNCHANGED <<state, deleted, received, clientVars, ghosts>>

(* Deliberate fault: requests are counted, not lines. *)
BugCountRequests(h) == 1

LinesOf(h) == Cardinality(Plan[req[h].chunk].steps)

(* IncrReceivedHistoryCount. *)
CountReceived(h) ==
    /\ req[h].pc = "count"
    /\ received' = [received EXCEPT ![req[h].run] = @ + LinesOf(h)]
    /\ Goto(h, "files")
    /\ UNCHANGED <<state, deleted, logged, clientVars, ghosts>>

(* Its error is logged. *)
CountFails(h) ==
    /\ req[h].pc = "count"
    /\ Fault("db")
    /\ hurt' = hurt \cup {req[h].run}
    /\ Goto(h, "files")
    /\ UNCHANGED <<dbVars, clientVars, overlaps, missed>>

(* InsertSystemEventBatch, InsertConsoleLogBatch. *)
LogOther(h, f) ==
    /\ req[h].pc = "files"
    /\ f \in req[h].files \ {"history", "summary"}
    /\ AppendFile(h, f)
    /\ req' = [req EXCEPT ![h].files = @ \ {f}]
    /\ UNCHANGED <<state, deleted, received, clientVars, ghosts>>

(* Deliberate fault: a file that does not fit in the log is passed over, as a
   summary that cannot be stored is. *)
BugPassOver(h) ==
    /\ req[h].pc = "files"
    /\ \E f \in req[h].files \ {"summary"} :
          req' = [req EXCEPT ![h].files = @ \ {f}]
    /\ Fault("full")
    /\ UNCHANGED <<dbVars, clientVars, overlaps, missed, hurt>>

(* The log is full: 503, whatever has been appended before. *)
LogFull(h) ==
    /\ req[h].pc = "files"
    /\ req[h].files \ {"summary"} # {}
    /\ Fault("full")
    /\ Answer(h, FALSE)
    /\ UNCHANGED <<dbVars, overlaps, missed, hurt>>

(* UpdateRunSummary writes a column that nothing here reads. *)
StoreSummary(h) ==
    /\ req[h].pc = "files"
    /\ "summary" \in req[h].files
    /\ req' = [req EXCEPT ![h].files = @ \ {"summary"}]
    /\ UNCHANGED <<dbVars, clientVars, ghosts>>

(* The last chunk says that it is the last.  An error of FinishRun is logged. *)
Complete(h) ==
    /\ req[h].pc = "files"
    /\ req[h].files = {}
    /\ req[h].chunk = Last
    /\ \/ /\ state' = [state EXCEPT ![req[h].run] = "finished"]
          /\ UNCHANGED faults
       \/ Fault("db") /\ UNCHANGED state
    /\ Goto(h, "reply")
    /\ UNCHANGED <<deleted, received, logged, clientVars, overlaps, missed, hurt>>

Reply(h) ==
    /\ \/ req[h].pc = "reply"
       \/ req[h].pc = "files" /\ req[h].files = {} /\ req[h].chunk < Last
    /\ Answer(h, TRUE)
    /\ UNCHANGED <<dbVars, ghosts>>

(* The server ends and starts again: no handler is left, no answer comes. *)
Crash ==
    /\ Fault("crash")
    /\ req' = [h \in Handlers |-> IdleReq]
    /\ waiting' = [c \in Clients |-> None]
    /\ hurt' = hurt \cup {req[h].run : h \in {g \in Handlers : req[g].pc = "count"}}
    /\ UNCHANGED <<dbVars, next, tries, overlaps, missed>>

-----------------------------------------------------------------------------
(* The next-state relation. *)

Upsert(h) == \/ FindByName(h) \/ LookupFails(h) \/ UpdateRun(h) \/ FetchRun(h)
             \/ \E r \in Runs : InsertRun(h, r)

ServeHTTP(h) == \/ FindRun(h) \/ RunNotFound(h) \/ StatementFails(h)
                \/ LogHistory(h) \/ CountReceived(h) \/ CountFails(h)
                \/ \E f \in OtherFiles : LogOther(h, f)
                \/ LogFull(h) \/ StoreSummary(h) \/ Complete(h) \/ Reply(h)

(* Every client has succeeded or given up, and no handler is at work. *)
Done == /\ \A c \in Clients : next[c] > Last \/ Failed(c)
        /\ req = [h \in Handlers |-> IdleReq]
        /\ UNCHANGED vars

Next == \/ \E c \in Clients : LoseConnection(c) \/ \E h \in Handlers : Send(c, h)
        \/ \E h \in Handlers : Upsert(h) \/ ServeHTTP(h)
        \/ \E r \in Deletable : DeleteRun(r)
        \/ Crash
        \/ Done

Spec == Init /\ [][Next]_vars

-----------------------------------------------------------------------------
(* Correctness. *)

(* The variables have their types. *)
TypeOK ==
    /\ state \in [Runs -> States]
    /\ deleted \subseteq Runs
    /\ received \in [Runs -> Nat]
    /\ logged \in [Runs -> SUBSET (Clients \X (1..Last) \X Files)]
    /\ next \in [Clients -> 0..Last + 1]
    /\ tries \in [Clients -> 0..MaxTries]
    /\ waiting \in [Clients -> Handlers \cup {None}]
    /\ req \in [Handlers -> Requests]
    /\ overlaps \in Nat
    /\ missed \in Nat
    /\ hurt \subseteq Runs
    /\ faults \in Nat

Acked == [c \in Clients |-> IF next[c] = 0 THEN 0 ELSE next[c] - 1]

Finished == {r \in Runs : state[r] = "finished"}

Promise == INSTANCE Upload WITH acked <- Acked, finished <- Finished

(* handler.go:59-143, runs.go:135-151.  Whatever is lost, refused, repeated or
   late, the answer 200 means that the whole chunk is in the log under one run,
   chunks enter it in order, and a run is finished by its last lines or by a
   client that creates it with a state: that state is set again by every
   repetition, so a late one may finish a run before its lines or re-open it. *)
ImplementsUpload == Promise!Spec

(* The runs that got something of client c. *)
Homes(c) == {r \in Runs : \E p \in logged[r] : p[1] = c}

(* runs.go:112-138 looks for a run by name and inserts one if it finds none, in
   two statements; GetRunByName takes any run of the name.  An upload stays in
   one run however often its creation is repeated, and is split over one more
   at most for each run deleted, each creation sent while another was under way
   and each failed lookup of a name that was taken. *)
UploadStaysTogether ==
    \A c \in Clients :
        Cardinality(Homes(c)) <= 1 + Cardinality(deleted) + overlaps + missed

StepsLogged(r) ==
    UNION {Plan[p[2]].steps : p \in {q \in logged[r] : q[3] = "history"}}

(* The lines handlers have appended for r and are about to count. *)
Uncounted(r) ==
    UNION {Plan[req[h].chunk].steps : h \in {g \in Handlers : req[g].pc = "count" /\ req[g].run = r}}

(* run.html:34 shows a run as being processed while received_history_count is
   above history_line_count.  For a run that is not a fork (ForkRun starts the
   second at the step of the fork) the first covers every distinct step in the
   log that is not about to be counted, so the sign does not go out early; and it
   counts no step twice while a single client sends nothing twice. *)
ReceivedCovers ==
    \A r \in Runs \ hurt :
        /\ Cardinality(StepsLogged(r) \ Uncounted(r)) <= received[r]
        /\ faults = 0 /\ (\A p, q \in logged[r] : p[1] = q[1]) =>
              received[r] = Cardinality(StepsLogged(r) \ Uncounted(r))

=============================================================================
