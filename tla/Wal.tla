-------------------------------- MODULE Wal --------------------------------
(***************************************************************************)
(* The application-level write-ahead log of internal/store/wal.go.         *)
(*                                                                         *)
(* HTTP handlers append lines to wal.ndjson; one goroutine (readerLoop)    *)
(* reads them back, gathers their items into a batch, writes the batch to  *)
(* the database one group at a time, saves its read position in wal.pos    *)
(* and now and then compacts the file.  DB.Flush and DB.Close ask the      *)
(* reader to drain everything.                                             *)
(*                                                                         *)
(* A line has length 1, so byte offsets are line counts.  The timers of    *)
(* the reader (500 ms flush, 5 s position save, 30 s compaction) are       *)
(* choices: any of them may be due when the code looks.  A crash is the    *)
(* end of the process: what it wrote to files survives, memory does not.   *)
(***************************************************************************)
EXTENDS Integers, Sequences, FiniteSets

CONSTANTS
    Runs,         \* run ids
    Payloads,     \* the lines handlers append: [run, kinds]
    Writers,      \* goroutines that call Append
    Flushers,     \* goroutines that call DB.Flush
    Closers,      \* goroutines that call DB.Close
    None,         \* no caller
    SoftSize,     \* walSoftSize, in lines
    MaxSize,      \* walMaxSize, in lines
    CompactMin,   \* walCompactMin, in lines
    BatchItems,   \* walBatchItems
    Faults,       \* what may go wrong: a subset of FaultKinds
    MaxLines,     \* model bound: lines ever appended
    MaxRestarts   \* model bound: crashes

Kinds == {"scalars", "histograms", "events", "logs", "fork"}

(* The place of a kind in flush(): groups of a lower rank are written first. *)
Rank == [scalars |-> 1, histograms |-> 2, events |-> 3, logs |-> 4, fork |-> 5]

(* What processLine makes of a line: a history line gives scalars, histograms,
   both or (non-numeric values, a bad line) nothing; the other lines give one
   kind. *)
LineShapes == {{}, {"scalars"}, {"histograms"}, {"scalars", "histograms"},
               {"events"}, {"logs"}, {"fork"}}

FaultKinds == {"crash", "db", "rename", "reopen"}

Callers == Flushers \cup Closers
Items   == (1..MaxLines) \X Kinds

ASSUME PayloadsAssumption == Payloads \subseteq [run : Runs, kinds : LineShapes]
ASSUME WritersAssumption  == IsFiniteSet(Writers)
ASSUME CallersAssumption  == None \notin Callers
ASSUME SizesAssumption    == /\ SoftSize \in Nat
                             /\ MaxSize \in Nat
                             /\ CompactMin \in Nat
                             /\ BatchItems \in Nat
                             /\ 0 < SoftSize
                             /\ SoftSize <= MaxSize
                             /\ 0 < BatchItems
ASSUME FaultsAssumption   == Faults \subseteq FaultKinds
ASSUME BoundsAssumption   == MaxLines \in Nat /\ MaxRestarts \in Nat

VARIABLES
    \* on disk
    log,       \* every line ever written, compacted away or not
    base,      \* how many of them compaction has dropped: the file is the rest
    posFile,   \* what readPosFile returns from wal.pos; 0 for an empty file
    applied,   \* applied[it]: how often the database committed item it
    \* in memory, under w.mu
    size,      \* w.size
    wopen,     \* w.file is open
    slowed,    \* writers that sleep in Append with the lock released
    \* in memory, the reader's
    pos,       \* w.pos
    pending,   \* the items in the batch slices
    rpc,       \* where readerLoop is
    path,      \* which branch of its loop it is on
    serving,   \* the caller whose channel the drain branch will close
    \* in memory, shared
    chan,      \* w.flushNow, a channel with a buffer of one
    closed,    \* w.closed
    dbOpen,    \* the database handle is open
    fpc,       \* fpc[c]: where caller c is in Flush or Close
    \* of the model
    mark,      \* mark[c]: how many lines had been accepted when c called
    restarts,  \* crashes so far
    torn       \* compaction put a new file in place and the program, or the
               \* crash that followed, left the old file's position behind

disk   == <<log, base, posFile, applied>>
append == <<size, wopen, slowed>>
reader == <<pos, pending, rpc, path, serving>>
shared == <<chan, closed, dbOpen, fpc>>
vars   == <<disk, append, reader, shared, mark, restarts, torn>>

ReaderPCs == {"top", "select", "scan", "drain", "flush", "posCheck",
              "truncate", "write", "compactCheck", "reply", "exited"}
Paths     == {"scan", "idle", "drain", "exit", "compact"}
CallerPCs == {"idle", "send", "wait", "done", "closing", "closed"}

-----------------------------------------------------------------------------
(* Helpers. *)

ItemsOf(i) == {i} \X log[i].kinds

FileLen == Len(log) - base

(* scanner.Scan() finds a line at the reader's offset. *)
HasLine == base + pos < Len(log)

NextLine == base + pos + 1

(* maybeCompact holds w.mu until savePos has returned. *)
Locked == path = "compact" /\ rpc \in {"truncate", "write"}

(* readPosFile's answer, cut back to 0 when it lies beyond the file. *)
RestoredPos == IF posFile > FileLen THEN 0 ELSE posFile

(* Append's three cases by w.size: below walSoftSize at once, below walMaxSize
   after a sleep, otherwise refused (which changes nothing). *)
AdmitAtOnce == size < SoftSize

(* Deliberate fault: the walMaxSize test is missing. *)
BugNoLimit == SoftSize <= size

AdmitSlowly == SoftSize <= size /\ size < MaxSize

Init ==
    /\ log = << >>
    /\ base = 0
    /\ posFile = 0
    /\ applied = [it \in Items |-> 0]
    /\ size = 0
    /\ wopen = TRUE
    /\ slowed = {}
    /\ pos = 0
    /\ pending = {}
    /\ rpc = "top"
    /\ path = "scan"
    /\ serving = None
    /\ chan = None
    /\ closed = FALSE
    /\ dbOpen = TRUE
    /\ fpc = [c \in Callers |-> "idle"]
    /\ mark = [c \in Callers |-> 0]
    /\ restarts = 0
    /\ torn = FALSE

-----------------------------------------------------------------------------
(* Append.  The payload of a throttled append is chosen when it is written. *)

WriteLine(p) ==
    /\ Len(log) < MaxLines
    /\ wopen
    /\ log' = Append(log, p)
    /\ size' = size + 1

AppendNow(w, p) ==
    /\ ~Locked
    /\ w \notin slowed
    /\ AdmitAtOnce
    /\ WriteLine(p)
    /\ UNCHANGED <<base, posFile, applied, wopen, slowed, reader, shared,
                   mark, restarts, torn>>

AppendSlow(w) ==
    /\ ~Locked
    /\ w \notin slowed
    /\ AdmitSlowly
    /\ Len(log) < MaxLines
    /\ slowed' = slowed \cup {w}
    /\ UNCHANGED <<disk, size, wopen, reader, shared, mark, restarts, torn>>

(* After the sleep the lock is taken again and the size is not. *)
AppendResume(w, p) ==
    /\ ~Locked
    /\ w \in slowed
    /\ WriteLine(p)
    /\ slowed' = slowed \ {w}
    /\ UNCHANGED <<base, posFile, applied, wopen, reader, shared, mark, restarts, torn>>

(* The file was closed during the sleep: Write fails and so does Append. *)
AppendResumeFails(w) ==
    /\ ~Locked
    /\ w \in slowed
    /\ ~wopen
    /\ slowed' = slowed \ {w}
    /\ UNCHANGED <<disk, size, wopen, reader, shared, mark, restarts, torn>>

-----------------------------------------------------------------------------
(* readerLoop, the head of the loop. *)

TopClosed ==
    /\ rpc = "top"
    /\ closed
    /\ rpc' = "flush"
    /\ path' = "exit"
    /\ UNCHANGED <<disk, append, pos, pending, serving, shared, mark, restarts, torn>>

TopOpen ==
    /\ rpc = "top"
    /\ ~closed
    /\ rpc' = "select"
    /\ UNCHANGED <<disk, append, pos, pending, path, serving, shared, mark, restarts, torn>>

SelectFlush ==
    /\ rpc = "select"
    /\ chan # None
    /\ serving' = chan
    /\ chan' = None
    /\ rpc' = "drain"
    /\ path' = "drain"
    /\ UNCHANGED <<disk, append, pos, pending, closed, dbOpen, fpc, mark, restarts, torn>>

SelectDefault ==
    /\ rpc = "select"
    /\ chan = None
    /\ rpc' = "scan"
    /\ UNCHANGED <<disk, append, pos, pending, path, serving, shared, mark, restarts, torn>>

-----------------------------------------------------------------------------
(* Scanning.  The position moves when the line is taken, not when its items
   are in the database. *)

TakeLine ==
    /\ HasLine
    /\ pos' = pos + 1
    /\ pending' = pending \cup ItemsOf(NextLine)

(* Deliberate fault: only the timer flushes. *)
BugNoBatchLimit(batch) == FALSE

BatchFull(batch) == Cardinality(batch) >= BatchItems

(* The scan branch: a full batch is flushed, and a smaller one when
   walFlushEvery has passed. *)
ScanLine ==
    /\ rpc = "scan"
    /\ TakeLine
    /\ path' = "scan"
    /\ \/ rpc' = "flush"
       \/ ~BatchFull(pending') /\ rpc' = "posCheck"
    /\ UNCHANGED <<disk, append, serving, shared, mark, restarts, torn>>

(* Deliberate fault: an idle reader goes to sleep on a partial batch. *)
BugIdleNoFlush ==
    /\ rpc = "scan"
    /\ ~HasLine
    /\ path' = "idle"
    /\ rpc' = "posCheck"
    /\ UNCHANGED <<disk, append, pos, pending, serving, shared, mark, restarts, torn>>

ScanEOF ==
    /\ rpc = "scan"
    /\ ~HasLine
    /\ path' = "idle"
    /\ rpc' = "flush"
    /\ UNCHANGED <<disk, append, pos, pending, serving, shared, mark, restarts, torn>>

DrainLine ==
    /\ rpc = "drain"
    /\ TakeLine
    /\ UNCHANGED <<disk, append, rpc, path, serving, shared, mark, restarts, torn>>

(* Deliberate fault: flush what is batched, without reading on. *)
BugDrainNothing ==
    /\ rpc = "drain"
    /\ rpc' = "flush"
    /\ UNCHANGED <<disk, append, pos, pending, path, serving, shared, mark, restarts, torn>>

DrainEOF ==
    /\ rpc = "drain"
    /\ ~HasLine
    /\ rpc' = "flush"
    /\ UNCHANGED <<disk, append, pos, pending, path, serving, shared, mark, restarts, torn>>

-----------------------------------------------------------------------------
(* flush().  Each group (one run, one kind) is a transaction of its own; the
   kinds go in order of Rank, the runs of one kind in any order, and fork
   operations one by one in the order of their lines.  When a transaction
   fails the error is logged and the group is gone all the same. *)

FirstKind(k) == \A it \in pending : Rank[k] <= Rank[it[2]]

Group(r, k) == {it \in pending : it[2] = k /\ log[it[1]].run = r}

FirstFork(it) == \A jt \in pending : it[1] <= jt[1]

(* Deliberate fault: fork operations in any order. *)
BugForksAnyOrder ==
    {S \in {Group(r, k) : r \in Runs, k \in Kinds \ {"fork"}} :
        S # {} /\ \A it \in S : FirstKind(it[2])}
    \cup {{it} : it \in {jt \in pending : jt[2] = "fork" /\ FirstKind("fork")}}

(* Deliberate fault: the fork operations are not held back until the other kinds
   are written. *)
BugForksFirst ==
    {S \in {Group(r, k) : r \in Runs, k \in Kinds \ {"fork"}} :
        S # {} /\ \A it \in S : FirstKind(it[2])}
    \cup {{it} : it \in {jt \in pending : jt[2] = "fork"}}

ReadyGroups ==
    {S \in {Group(r, k) : r \in Runs, k \in Kinds \ {"fork"}} :
        S # {} /\ \A it \in S : FirstKind(it[2])}
    \cup {{it} : it \in {jt \in pending : /\ jt[2] = "fork"
                                         /\ FirstKind("fork")
                                         /\ FirstFork(jt)}}

(* Deliberate fault: the slices are not reset. *)
BugKeepGroup(S) ==
    /\ rpc = "flush"
    /\ dbOpen
    /\ applied' = [it \in Items |-> applied[it] + IF it \in S THEN 1 ELSE 0]
    /\ UNCHANGED <<log, base, posFile, append, reader, shared, mark, restarts, torn>>

FlushGroup(S) ==
    /\ rpc = "flush"
    /\ dbOpen
    /\ applied' = [it \in Items |-> applied[it] + IF it \in S THEN 1 ELSE 0]
    /\ pending' = pending \ S
    /\ UNCHANGED <<log, base, posFile, append, pos, rpc, path, serving, shared,
                   mark, restarts, torn>>

DropGroup(S) ==
    /\ rpc = "flush"
    /\ ~dbOpen \/ "db" \in Faults
    /\ pending' = pending \ S
    /\ UNCHANGED <<disk, append, pos, rpc, path, serving, shared, mark, restarts, torn>>

AfterFlush == IF path \in {"scan", "idle"} THEN "posCheck" ELSE "truncate"

(* Deliberate fault: the first fork operation ends the flush. *)
BugStopAtFork ==
    /\ rpc = "flush"
    /\ \A it \in pending : it[2] = "fork"
    /\ pending' = {}
    /\ rpc' = AfterFlush
    /\ UNCHANGED <<disk, append, pos, path, serving, shared, mark, restarts, torn>>

FlushDone ==
    /\ rpc = "flush"
    /\ pending = {}
    /\ rpc' = AfterFlush
    /\ UNCHANGED <<disk, append, pos, pending, path, serving, shared, mark, restarts, torn>>

-----------------------------------------------------------------------------
(* savePos: os.WriteFile truncates wal.pos, then writes it. *)

PosDue ==
    /\ rpc = "posCheck"
    /\ rpc' = "truncate"
    /\ UNCHANGED <<disk, append, pos, pending, path, serving, shared, mark, restarts, torn>>

PosNotDue ==
    /\ rpc = "posCheck"
    /\ rpc' = IF path = "scan" THEN "compactCheck" ELSE "top"
    /\ UNCHANGED <<disk, append, pos, pending, path, serving, shared, mark, restarts, torn>>

TruncatePos ==
    /\ rpc = "truncate"
    /\ posFile' = 0
    /\ rpc' = "write"
    /\ UNCHANGED <<log, base, applied, append, pos, pending, path, serving, shared,
                   mark, restarts, torn>>

AfterSave == CASE path = "scan"  -> "compactCheck"
               [] path = "drain" -> "reply"
               [] path = "exit"  -> "exited"
               [] OTHER          -> "top"

(* Deliberate fault: the end of the file is saved instead of the position. *)
BugSaveEnd == size

SavedPos == pos

WritePos ==
    /\ rpc = "write"
    /\ posFile' = SavedPos
    /\ rpc' = AfterSave
    /\ UNCHANGED <<log, base, applied, append, pos, pending, path, serving, shared,
                   mark, restarts, torn>>

-----------------------------------------------------------------------------
(* maybeCompact.  The lines from the position on are copied to a new file that
   replaces the old one; wal.pos is saved after that. *)

CompactSkip ==
    /\ rpc = "compactCheck"
    /\ rpc' = "top"
    /\ UNCHANGED <<disk, append, pos, pending, path, serving, shared, mark, restarts, torn>>

WorthCompacting == /\ rpc = "compactCheck"
                   /\ pos > size \div 2
                   /\ size >= CompactMin

(* How much of the log the copy leaves out. *)
Dropped == IF HasLine THEN base + pos ELSE Len(log)

(* Deliberate fault: w.pos keeps counting in the old file. *)
BugCompactKeepsPos ==
    /\ WorthCompacting
    /\ base' = Dropped
    /\ size' = Len(log) - Dropped
    /\ wopen' = TRUE
    /\ path' = "compact"
    /\ rpc' = "truncate"
    /\ UNCHANGED <<log, posFile, applied, slowed, pos, pending, serving, shared,
                   mark, restarts, torn>>

Compact ==
    /\ WorthCompacting
    /\ base' = Dropped
    /\ size' = Len(log) - Dropped
    /\ pos' = 0
    /\ wopen' = TRUE
    /\ path' = "compact"
    /\ rpc' = "truncate"
    /\ UNCHANGED <<log, posFile, applied, slowed, pending, serving, shared,
                   mark, restarts, torn>>

(* os.Rename fails: w.file is already closed and stays so. *)
CompactRenameFails ==
    /\ "rename" \in Faults
    /\ WorthCompacting
    /\ wopen' = FALSE
    /\ rpc' = "top"
    /\ UNCHANGED <<disk, size, slowed, pos, pending, path, serving, shared,
                   mark, restarts, torn>>

(* The new file is in place but cannot be opened: w.pos and w.size still count
   in the old one. *)
CompactReopenFails ==
    /\ "reopen" \in Faults
    /\ WorthCompacting
    /\ base' = Dropped
    /\ wopen' = FALSE
    /\ rpc' = "top"
    /\ torn' = TRUE
    /\ UNCHANGED <<log, posFile, applied, size, slowed, pos, pending, path, serving,
                   shared, mark, restarts>>

-----------------------------------------------------------------------------
(* DB.Flush and DB.Close. *)

Call(c) ==
    /\ fpc[c] = "idle"
    /\ fpc' = [fpc EXCEPT ![c] = "send"]
    /\ mark' = [mark EXCEPT ![c] = Len(log)]
    /\ UNCHANGED <<disk, append, reader, chan, closed, dbOpen, restarts, torn>>

Send(c) ==
    /\ fpc[c] = "send"
    /\ chan = None
    /\ chan' = c
    /\ fpc' = [fpc EXCEPT ![c] = "wait"]
    /\ UNCHANGED <<disk, append, reader, closed, dbOpen, mark, restarts, torn>>

(* Deliberate fault: the drain branch does not close the caller's channel. *)
BugNoReply ==
    /\ rpc = "reply"
    /\ serving' = None
    /\ rpc' = "top"
    /\ UNCHANGED <<disk, append, pos, pending, path, chan, closed, dbOpen, fpc,
                   mark, restarts, torn>>

Reply ==
    /\ rpc = "reply"
    /\ fpc' = [fpc EXCEPT ![serving] = "done"]
    /\ serving' = None
    /\ rpc' = "top"
    /\ UNCHANGED <<disk, append, pos, pending, path, chan, closed, dbOpen,
                   mark, restarts, torn>>

Return(c) ==
    /\ c \in Flushers
    /\ fpc[c] = "done"
    /\ fpc' = [fpc EXCEPT ![c] = "idle"]
    /\ UNCHANGED <<disk, append, reader, chan, closed, dbOpen, mark, restarts, torn>>

(* wal.close: the flag first; the 100 ms sleep that follows orders nothing. *)
CloseMark(c) ==
    /\ c \in Closers
    /\ fpc[c] = "done"
    /\ closed' = TRUE
    /\ fpc' = [fpc EXCEPT ![c] = "closing"]
    /\ UNCHANGED <<disk, append, reader, chan, dbOpen, mark, restarts, torn>>

(* Then the file, and the database after it. *)
CloseFile(c) ==
    /\ ~Locked
    /\ fpc[c] = "closing"
    /\ wopen' = FALSE
    /\ dbOpen' = FALSE
    /\ fpc' = [fpc EXCEPT ![c] = "closed"]
    /\ UNCHANGED <<disk, size, slowed, reader, chan, closed, mark, restarts, torn>>

-----------------------------------------------------------------------------
(* The process dies; newWAL and startReader pick up what the disk holds. *)

Restart ==
    /\ "crash" \in Faults
    /\ restarts < MaxRestarts
    /\ restarts' = restarts + 1
    /\ torn' = (torn \/ Locked)
    /\ size' = FileLen
    /\ pos' = RestoredPos
    /\ wopen' = TRUE
    /\ slowed' = {}
    /\ pending' = {}
    /\ rpc' = "top"
    /\ path' = "scan"
    /\ serving' = None
    /\ chan' = None
    /\ closed' = FALSE
    /\ dbOpen' = TRUE
    /\ fpc' = [c \in Callers |-> "idle"]
    /\ mark' = [c \in Callers |-> 0]
    /\ UNCHANGED disk

-----------------------------------------------------------------------------
(* The next-state relation. *)

LoopHead   == TopClosed \/ TopOpen \/ SelectFlush \/ SelectDefault
Scanning   == ScanLine \/ ScanEOF \/ DrainLine \/ DrainEOF
Flushing   == \/ \E S \in ReadyGroups : FlushGroup(S)
              \/ \E S \in ReadyGroups : DropGroup(S)
              \/ FlushDone
Saving     == PosDue \/ PosNotDue \/ TruncatePos \/ WritePos
Compacting == CompactSkip \/ Compact \/ CompactRenameFails \/ CompactReopenFails

Reader == LoopHead \/ Scanning \/ Flushing \/ Saving \/ Compacting \/ Reply

Appending == \E w \in Writers :
                \/ \E p \in Payloads : AppendNow(w, p)
                \/ AppendSlow(w)
                \/ \E p \in Payloads : AppendResume(w, p)
                \/ AppendResumeFails(w)

Calling == \E c \in Callers : \/ Call(c)
                              \/ Send(c)
                              \/ Return(c)
                              \/ CloseMark(c)
                              \/ CloseFile(c)

Next == Reader \/ Appending \/ Calling \/ Restart

Spec == Init /\ [][Next]_vars

(* The reader goroutine is scheduled for ever, and the senders blocked on a Go
   channel are served in the order in which they blocked. *)
Fairness == /\ WF_vars(Reader)
            /\ \A c \in Callers : SF_vars(Send(c))

FairSpec == Spec /\ Fairness

-----------------------------------------------------------------------------
(* Correctness. *)

InLog(it) == it[1] <= Len(log) /\ it[2] \in log[it[1]].kinds

Read(it) == it[1] <= base + pos

(* Items the reader has passed, no longer holds and never got into the
   database: nothing will bring them back but a crash that replays them. *)
Lost == {it \in Items : InLog(it) /\ Read(it) /\ it \notin pending /\ applied[it] = 0}

(* jt follows it in the log, in the same stream. *)
Later(jt, it) == /\ it[1] < jt[1]
                 /\ InLog(it) /\ InLog(jt)
                 /\ it[2] = jt[2]
                 /\ log[it[1]].run = log[jt[1]].run

HoldsItems(l) == l.kinds # {}

(* The lines before the position a restart would take.  While maybeCompact holds
   the lock the position on disk is the old file's, and a crash tears. *)
SavedLine == IF Locked THEN base ELSE base + posFile

(* The variables have their types, compaction never drops lines the file did
   not hold, and while the file is open the position lies inside it (wal.go's
   size and pos describe the file they are used on). *)
TypeOK ==
    /\ log \in Seq(Payloads)
    /\ Len(log) <= MaxLines
    /\ base \in 0..Len(log)
    /\ posFile \in Nat
    /\ applied \in [Items -> Nat]
    /\ size \in Nat
    /\ wopen \in BOOLEAN
    /\ slowed \subseteq Writers
    /\ pos \in Nat
    /\ wopen => base + pos <= Len(log)
    /\ pending \subseteq {it \in Items : InLog(it)}
    /\ rpc \in ReaderPCs
    /\ path \in Paths
    /\ serving \in Callers \cup {None}
    /\ rpc = "reply" => serving # None
    /\ chan \in Callers \cup {None}
    /\ closed \in BOOLEAN
    /\ dbOpen \in BOOLEAN
    /\ fpc \in [Callers -> CallerPCs]
    /\ mark \in [Callers -> 0..Len(log)]
    /\ restarts \in 0..MaxRestarts
    /\ torn \in BOOLEAN

(* Back-pressure: Append decides by a size it does not look at again after its
   sleep (wal.go:131-143), so the file may pass walMaxSize, but by no more than
   one line for each writer but one. *)
SizeBound == size < MaxSize + Cardinality(Writers)

(* Every item of an accepted line is still to be read, or in the batch, or in
   the database.  After Close a reader on its last batch finds the database
   closed (wal.go:369-379 waits 100 ms, not for the reader). *)
NothingLost == dbOpen => Lost = {}

(* A crash costs at most what a saved position may run ahead of the batch:
   less than walBatchItems items (wal.go:269-275), as long as no crash hits a
   compaction. *)
LossBounded == ~torn => Cardinality(Lost) <= restarts * (BatchItems - 1)

(* A replay after a crash applies a line again, but within one life of the
   server no line is written twice, whatever fails, drains or compacts. *)
AppliedOncePerLife == \A it \in Items : applied[it] <= restarts + 1

(* When Flush, or the flush of Close, has returned, every line accepted before
   the call has been read and has left the batch: if it is not lost it is in
   the database. *)
FlushBarrier ==
    \A c \in Callers : fpc[c] \in {"done", "closing", "closed"} =>
        \A it \in Items : InLog(it) /\ it[1] <= mark[c] => Read(it) /\ it \notin pending

(* What Close stands for: rows accepted before it was called are in the
   database before the handle is closed. *)
CloseKeepsAccepted ==
    \A c \in Closers : fpc[c] \in {"done", "closing", "closed"} =>
        \A it \in Items : InLog(it) /\ it[1] <= mark[c] => applied[it] > 0

(* The position a restart takes from wal.pos never lies after the position the
   dead server had reached, unless this crash or an earlier one fell between
   the rename of a compaction and the save that follows it (wal.go:441-454): a
   restart may read lines again, but it does not jump over lines nobody has
   read. *)
RestartSkipsOnlyIfTorn ==
    [][restarts' # restarts /\ ~torn' => base' + pos' <= base + pos]_vars

(* In one life of the server nothing of a stream is written after what follows
   it, and a fork is copied when everything logged before it, of any run and
   kind, has left the batch (buffer.go copies the parent's rows as they are in
   the database): whatever fails, drains or compacts, and however often groups
   were dropped.  A torn compaction skips lines, and is excepted. *)
OrderWithinLife ==
    [][\A it \in Items : ~torn /\ applied'[it] > applied[it] =>
          /\ \A jt \in Items : Later(jt, it) /\ Read(jt) => jt \in pending
          /\ it[2] = "fork" => \A jt \in pending : it[1] <= jt[1]]_vars

(* Who waits for an answer is in the channel or with the reader, until the
   process ends (wal.go:250-261, 363-367): no call is forgotten, or answered for
   another.  So only a reader that has left its loop leaves a caller waiting. *)
WaitersAreKnown ==
    /\ \A c \in Callers : fpc[c] = "wait" => chan = c \/ serving = c
    /\ rpc = "exited" => serving = None /\ closed

(* A call of Flush returns, unless the log is closed first: then nobody may be
   left to receive from flushNow (wal.go:244-248, 363-367). *)
FlushReturns == \A c \in Flushers : fpc[c] = "send" ~> (fpc[c] = "done" \/ closed)

Reading == INSTANCE LineReader WITH
              Lines  <- Payloads,
              Counts <- HoldsItems,
              pos    <- base + pos,
              saved  <- SavedLine,
              batch  <- {it[1] : it \in pending}

(* To the rest of the server the file is a sequence of lines with a cursor:
   scanning, draining, wal.pos, compaction, failures and restarts are steps of
   LineReader, and so is a torn compaction, the only step that loses the
   cursor. *)
ImplementsLineReader == Reading!Spec

Queue == INSTANCE LineQueue WITH
            queue <- log,
            done  <- {it \in Items : applied[it] > 0}

(* Without faults the log is a queue: every accepted item is delivered once and
   the items of one run and kind keep their order. *)
ImplementsLineQueue == Queue!Spec

(* And the queue is served: no accepted item waits for ever (wal.go:243-300,
   the reader polls whatever else happens). *)
ServesLineQueue == Queue!Delivery

=============================================================================
